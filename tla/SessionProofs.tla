---------------------------- MODULE SessionProofs ----------------------------
(***************************************************************************)
(* What TLAPS proves of the sessions that run beside the one the user      *)
(* works in: of Delegation, for any number of delegations, parents, runs,  *)
(* workers, stops and restarts; and of SessionReplay, how a view gets the  *)
(* transcript of a running session, for any buffer, chunks and views.      *)
(***************************************************************************)
EXTENDS Delegation, SessionReplay, FiniteSetTheorems, TLAPS

\* The starts of a parent that are between reserving and committing.
Loading(p) == {d \in Delegations : ParentOf[d] = p /\ starter[d] = "loading"}

\* A parent's reservations are its starts in progress: the `finally` of start
\* releases each exactly once.
ReservationCount == \A p \in Parents : reservations[p] = Cardinality(Loading(p))

-----------------------------------------------------------------------------
(* Operators of the model keep the types.                                  *)

LEMMA AfterStopType ==
  ASSUME NEW ws \in [Hosts -> WorkerStates], NEW h \in 0..MaxHosts
  PROVE  AfterStop(ws, h) \in [Hosts -> WorkerStates]
BY DEF AfterStop, Hosts, WorkerStates, IsRunning

LEMMA StopWorkerType ==
  ASSUME RunTypes, NEW d \in Delegations, NEW h \in 0..MaxHosts
  PROVE  [workers EXCEPT ![d] = AfterStop(@, h)] \in [Delegations -> [Hosts -> WorkerStates]]
<1>1. AfterStop(workers[d], h) \in [Hosts -> WorkerStates]
  BY AfterStopType DEF RunTypes
<1>2. QED
  BY <1>1 DEF RunTypes

LEMMA SettleType ==
  ASSUME TypeOK, NEW d \in Delegations, NEW outcome \in Terminal, Settle(d, outcome)
  PROVE  /\ status' \in [Delegations -> Statuses]
         /\ aborted' \in [Delegations -> BOOLEAN]
         /\ fellBack' \in [Delegations -> BOOLEAN]
         /\ workers' \in [Delegations -> [Hosts -> WorkerStates]]
         /\ FallbackTypes'
<1>1. CASE status[d] \in Terminal
  BY <1>1 DEF Settle, TypeOK, EntryTypes, RunTypes, FallbackTypes, fallbackVars
<1>2. CASE status[d] \notin Terminal /\ BeginFallback(d)
  <2>1. host[d] \in 0..MaxHosts
    BY DEF TypeOK, EntryTypes
  <2>2. workers' \in [Delegations -> [Hosts -> WorkerStates]]
    BY <1>2, <2>1, StopWorkerType DEF BeginFallback, TypeOK
  <2>3. QED
    BY <1>2, <2>2 DEF BeginFallback, TypeOK, EntryTypes, FallbackTypes
<1>3. CASE status[d] \notin Terminal /\ Finish(d, outcome)
  BY <1>3 DEF Finish, TypeOK, EntryTypes, RunTypes, FallbackTypes, fallbackVars, Statuses
<1>4. QED
  BY <1>1, <1>2, <1>3 DEF Settle

\* The starts in progress are a finite set.
LEMMA LoadingFinite == \A p \in Parents : IsFiniteSet(Loading(p))
BY ParametersAssumption, FS_Subset DEF Loading

\* Variables that do not change keep their types.
LEMMA Frames ==
  ASSUME TypeOK
  PROVE  /\ UNCHANGED entryVars => EntryTypes'
         /\ UNCHANGED runVars => RunTypes'
         /\ UNCHANGED fallbackVars => FallbackTypes'
         /\ UNCHANGED stopVars => StopTypes'
         /\ UNCHANGED parentVars => ParentTypes'
         /\ UNCHANGED reconcileVars => ReconcileTypes'
<1>1. UNCHANGED entryVars => EntryTypes'
  BY DEF TypeOK, EntryTypes, entryVars
<1>2. UNCHANGED runVars => RunTypes'
  BY DEF TypeOK, RunTypes, runVars
<1>3. UNCHANGED fallbackVars => FallbackTypes'
  BY DEF TypeOK, FallbackTypes, fallbackVars
<1>4. UNCHANGED stopVars => StopTypes'
  BY DEF TypeOK, StopTypes, stopVars
<1>5. UNCHANGED parentVars => ParentTypes'
  BY DEF TypeOK, ParentTypes, parentVars
<1>6. UNCHANGED reconcileVars => ReconcileTypes'
  BY DEF TypeOK, ReconcileTypes, reconcileVars
<1>7. QED
  BY <1>1, <1>2, <1>3, <1>4, <1>5, <1>6

-----------------------------------------------------------------------------
(* Type correctness.  The type of the reservations needs that there is one *)
(* left to release: ReservationCount.                                      *)

LEMMA TypeInit == Init => TypeOK /\ ReservationCount
<1>1. ASSUME Init PROVE TypeOK
  BY <1>1, ParametersAssumption
  DEF Init, TypeOK, EntryTypes, RunTypes, FallbackTypes, StopTypes, ParentTypes, ReconcileTypes,
      Statuses, WorkerStates, Runs, Hosts
<1>2. ASSUME Init PROVE ReservationCount
  <2>1. \A p \in Parents : Loading(p) = {}
    BY <1>2 DEF Init, Loading
  <2>2. QED
    BY <1>2, <2>1, FS_EmptySet DEF Init, ReservationCount
<1>3. QED
  BY <1>1, <1>2

LEMMA StartTypes ==
  ASSUME TypeOK, ReservationCount, NEW d \in Delegations
  PROVE  /\ StartReserve(d) => TypeOK'
         /\ StartCommit(d) => TypeOK'
         /\ StartReject(d) => TypeOK'
<1>1. starter[d] = "loading" => reservations[ParentOf[d]] - 1 \in Nat
  <2> SUFFICES ASSUME starter[d] = "loading" PROVE reservations[ParentOf[d]] - 1 \in Nat
    OBVIOUS
  <2> DEFINE p == ParentOf[d]
  <2>1. p \in Parents /\ d \in Loading(p)
    BY ParametersAssumption DEF Loading
  <2>2. Cardinality(Loading(p)) # 0 /\ Cardinality(Loading(p)) \in Nat
    BY <2>1, LoadingFinite, FS_EmptySet, FS_CardinalityType
  <2>3. QED
    BY <2>1, <2>2 DEF ReservationCount
<1>2. ASSUME StartReserve(d) PROVE TypeOK'
  <2>1. ParentTypes'
    <3>1. ParentOf[d] \in Parents
      BY ParametersAssumption
    <3>2. /\ reservations' = [reservations EXCEPT ![ParentOf[d]] = @ + 1]
          /\ starter' = [starter EXCEPT ![d] = "loading"]
          /\ startEpoch' = [startEpoch EXCEPT ![d] = epoch[ParentOf[d]]]
          /\ UNCHANGED <<paused, epoch>>
      BY <1>2 DEF StartReserve
    <3>3. QED
      BY <3>1, <3>2 DEF TypeOK, ParentTypes
  <2>2. QED
    BY <1>2, <2>1, Frames DEF StartReserve, TypeOK
<1>3. ASSUME StartCommit(d) PROVE TypeOK'
  <2>1. PICK gone \in SUBSET Delegations :
          /\ resident' = [e \in Delegations |-> e = d \/ (resident[e] /\ e \notin gone)]
          /\ workers' = [EvictedWorkers(gone) EXCEPT ![d][1] = "new"]
    BY <1>3 DEF StartCommit
  <2>2. EvictedWorkers(gone) \in [Delegations -> [Hosts -> WorkerStates]]
    BY AfterStopType DEF EvictedWorkers, TypeOK, EntryTypes, RunTypes
  <2>3. RunTypes'
    <3>1. host[d] + 1 \in 0..MaxHosts
      BY <1>3, ParametersAssumption DEF StartCommit, Launch, TypeOK, EntryTypes
    <3>2. workers' \in [Delegations -> [Hosts -> WorkerStates]]
      BY <2>1, <2>2 DEF WorkerStates, Hosts
    <3>3. QED
      BY <1>3, <3>1, <3>2 DEF StartCommit, Launch, TypeOK, RunTypes, Working, Runs
  <2>4. EntryTypes'
    BY <1>3, <2>1, ParametersAssumption
    DEF StartCommit, Launch, TypeOK, EntryTypes, Statuses, Active
  <2>5. ParentTypes'
    BY <1>1, <1>3, ParametersAssumption DEF StartCommit, TypeOK, ParentTypes
  <2>6. UNCHANGED <<fallbackVars, stopVars, reconcileVars>>
    BY <1>3 DEF StartCommit
  <2>7. QED
    BY <2>3, <2>4, <2>5, <2>6, Frames DEF TypeOK
<1>4. ASSUME StartReject(d) PROVE TypeOK'
  <2>1. ParentTypes'
    BY <1>1, <1>4, ParametersAssumption DEF StartReject, TypeOK, ParentTypes
  <2>2. QED
    BY <1>4, <2>1, Frames DEF StartReject, TypeOK
<1>5. QED
  BY <1>2, <1>3, <1>4

LEMMA RunStepTypes ==
  ASSUME TypeOK, NEW d \in Delegations, NEW r \in Runs
  PROVE  RunStep(d, r) \/ BecomesIdle(d, r) \/ TurnLimit(d, r) => TypeOK'
<1> USE DEF Working, Racing, Starting
<1>1. host[d] \in 0..MaxHosts /\ runHost[d][r] \in 0..MaxHosts
  BY DEF TypeOK, EntryTypes, RunTypes
<1>2. [workers EXCEPT ![d] = AfterStop(@, runHost[d][r])] \in [Delegations -> [Hosts -> WorkerStates]]
  BY <1>1, StopWorkerType DEF TypeOK
<1>3. ASSUME Abandon(d, r) PROVE TypeOK'
  <2>1. RunTypes'
    BY <1>3 DEF Abandon, Goto, TypeOK, RunTypes
  <2>2. QED
    BY <1>3, <2>1, Frames DEF Abandon, TypeOK
<1>4. ASSUME NEW from, FailRun(d, r, from) PROVE TypeOK'
  <2>1. RunTypes'
    BY <1>2, <1>4 DEF FailRun, Fail, Goto, TypeOK, RunTypes
  <2>2. QED
    BY <1>4, <2>1, Frames DEF FailRun, TypeOK
<1>5. ASSUME DefinitionLoaded(d, r) PROVE TypeOK'
  <2>1. host[d] + 1 \in 0..MaxHosts
    BY <1>1, <1>5, ParametersAssumption DEF DefinitionLoaded, CreateWorker
  <2>2. RunTypes'
    BY <1>5, <2>1 DEF DefinitionLoaded, CreateWorker, Goto, TypeOK, RunTypes, WorkerStates
  <2>3. EntryTypes'
    BY <1>5, <2>1 DEF DefinitionLoaded, CreateWorker, TypeOK, EntryTypes
  <2>4. QED
    BY <1>5, <2>2, <2>3, Frames DEF DefinitionLoaded, TypeOK
<1>6. ASSUME OptionsBuilt(d, r) PROVE TypeOK'
  <2>1. RunTypes'
    BY <1>6 DEF OptionsBuilt, Goto, TypeOK, RunTypes, WorkerStates
  <2>2. QED
    BY <1>6, <2>1, Frames DEF OptionsBuilt, TypeOK
<1>7. ASSUME StartDone(d, r) PROVE TypeOK'
  <2>1. RunTypes'
    <3>1. workers' \in [Delegations -> [Hosts -> WorkerStates]]
      <4>1. \/ workers' = [workers EXCEPT ![d][runHost[d][r]] = "up"]
            \/ workers' = [workers EXCEPT ![d] = AfterStop(@, runHost[d][r])]
        BY <1>7 DEF StartDone, Fail
      <4>2. [workers EXCEPT ![d][runHost[d][r]] = "up"] \in [Delegations -> [Hosts -> WorkerStates]]
        BY DEF TypeOK, RunTypes, WorkerStates
      <4>3. QED
        BY <1>2, <4>1, <4>2
    <3>2. \E label \in Working : pc' = [pc EXCEPT ![d][r] = label]
      BY <1>7 DEF StartDone, Fail, Goto
    <3>3. QED
      BY <1>7, <3>1, <3>2 DEF StartDone, TypeOK, RunTypes
  <2>2. EntryTypes'
    BY <1>7 DEF StartDone, TypeOK, EntryTypes, Statuses, Active
  <2>3. QED
    BY <1>7, <2>1, <2>2, Frames DEF StartDone, TypeOK
<1>8. ASSUME StartFails(d, r) PROVE TypeOK'
  <2>1. RunTypes'
    <3>1. \E label \in Working : pc' = [pc EXCEPT ![d][r] = label]
      BY <1>8 DEF StartFails, Fail, Goto
    <3>2. QED
      BY <1>2, <1>8, <3>1 DEF StartFails, Fail, TypeOK, RunTypes
  <2>2. QED
    BY <1>8, <2>1, Frames DEF StartFails, TypeOK
<1>9. ASSUME UndoDone(d, r) PROVE TypeOK'
  <2>1. RunTypes'
    BY <1>9 DEF UndoDone, Goto, TypeOK, RunTypes
  <2>2. QED
    BY <1>9, <2>1, Frames DEF UndoDone, TypeOK
<1>10. ASSUME Advance(d, r) PROVE TypeOK'
  <2>1. \E label \in Racing : pc' = [pc EXCEPT ![d][r] = label]
    <3>1. Goto(d, r, "prompt") \/ Goto(d, r, "idle") \/ Goto(d, r, "nudgeIdle")
      BY <1>10 DEF Advance
    <3>2. QED
      BY <3>1 DEF Goto
  <2>2. RunTypes'
    BY <1>10, <2>1 DEF Advance, TypeOK, RunTypes
  <2>3. QED
    BY <1>10, <2>2, Frames DEF Advance, TypeOK
<1>11. ASSUME BecomesIdle(d, r) PROVE TypeOK'
  <2>1. \E label \in Racing : pc' = [pc EXCEPT ![d][r] = label]
    <3>1. Goto(d, r, "messages") \/ Goto(d, r, "nudgeMessages")
      BY <1>11 DEF BecomesIdle
    <3>2. QED
      BY <3>1 DEF Goto
  <2>2. RunTypes'
    BY <1>11, <2>1 DEF BecomesIdle, TypeOK, RunTypes
  <2>3. QED
    BY <1>11, <2>2, Frames DEF BecomesIdle, TypeOK
<1>12. ASSUME NEW outcome \in Terminal, Settle(d, outcome), Goto(d, r, "done"),
              UNCHANGED <<resident, run, stopRequested, nudged, definition, host, runHost,
                          stopVars, parentVars, reconcileVars>>
       PROVE TypeOK'
  <2>1. RunTypes'
    BY <1>12, SettleType DEF Goto, TypeOK, RunTypes
  <2>2. EntryTypes'
    BY <1>12, SettleType DEF TypeOK, EntryTypes
  <2>3. QED
    BY <1>12, <2>1, <2>2, SettleType, Frames DEF TypeOK
<1>13. ASSUME Judge(d, r) PROVE TypeOK'
  BY <1>12, <1>13 DEF Judge, Terminal
<1>14. ASSUME Nudge(d, r) PROVE TypeOK'
  <2>1. RunTypes'
    BY <1>14 DEF Nudge, Goto, TypeOK, RunTypes
  <2>2. EntryTypes'
    BY <1>14 DEF Nudge, TypeOK, EntryTypes
  <2>3. QED
    BY <1>14, <2>1, <2>2, Frames DEF Nudge, TypeOK
<1>15. ASSUME NudgeFails(d, r) PROVE TypeOK'
  BY <1>12, <1>15 DEF NudgeFails, Terminal
<1>16. ASSUME TurnLimit(d, r) PROVE TypeOK'
  <2>1. RunTypes'
    BY <1>16 DEF TurnLimit, Goto, TypeOK, RunTypes
  <2>2. QED
    BY <1>16, <2>1, Frames DEF TurnLimit, TypeOK
<1>17. ASSUME BestEffortRead(d, r) PROVE TypeOK'
  <2>1. RunTypes'
    BY <1>2, <1>17 DEF BestEffortRead, Goto, TypeOK, RunTypes
  <2>2. QED
    BY <1>17, <2>1, Frames DEF BestEffortRead, TypeOK
<1>18. ASSUME SettleStopped(d, r) PROVE TypeOK'
  BY <1>12, <1>18 DEF SettleStopped, Terminal
<1>19. QED
  BY <1>3, <1>4, <1>5, <1>6, <1>7, <1>8, <1>9, <1>10, <1>11, <1>13, <1>14, <1>15, <1>16, <1>17, <1>18
  DEF RunStep, PrepareFails, RunFails

LEMMA WorkerStepTypes ==
  ASSUME TypeOK, NEW d \in Delegations, NEW h \in Hosts
  PROVE  WorkerStep(d, h) \/ WorkerExit(d, h) => TypeOK'
<1>1. ASSUME Spawn(d, h) PROVE TypeOK'
  <2>1. RunTypes'
    BY <1>1 DEF Spawn, TypeOK, RunTypes, WorkerStates
  <2>2. QED
    BY <1>1, <2>1, Frames DEF Spawn, TypeOK
<1>2. ASSUME CloseWorker(d, h) PROVE TypeOK'
  <2>1. RunTypes'
    BY <1>2 DEF CloseWorker, TypeOK, RunTypes, WorkerStates
  <2>2. QED
    BY <1>2, <2>1, Frames DEF CloseWorker, TypeOK
<1>3. ASSUME WorkerExit(d, h) PROVE TypeOK'
  <2>1. RunTypes'
    BY <1>3 DEF WorkerExit, TypeOK, RunTypes, WorkerStates
  <2>2. QED
    BY <1>3, <2>1, Frames DEF WorkerExit, TypeOK
<1>4. QED
  BY <1>1, <1>2, <1>3 DEF WorkerStep

LEMMA FallbackStepTypes ==
  ASSUME TypeOK, NEW d \in Delegations
  PROVE  FallbackStep(d) => TypeOK'
<1>1. ASSUME FallbackStopped(d) PROVE TypeOK'
  <2>1. EntryTypes' /\ FallbackTypes'
    BY <1>1 DEF FallbackStopped, TypeOK, EntryTypes, FallbackTypes, Statuses, Terminal
  <2>2. QED
    BY <1>1, <2>1, Frames DEF FallbackStopped, TypeOK
<1>2. ASSUME FallbackRead(d) PROVE TypeOK'
  <2>1. FallbackTypes'
    BY <1>2 DEF FallbackRead, TypeOK, FallbackTypes
  <2>2. CASE UNCHANGED <<status, aborted, host, runVars>>
    <3>1. EntryTypes'
      BY <1>2, <2>2 DEF FallbackRead, TypeOK, EntryTypes
    <3>2. QED
      BY <1>2, <2>1, <2>2, <3>1, Frames DEF FallbackRead, TypeOK
  <2>3. CASE /\ status' = [status EXCEPT ![d] = "failed"]
             /\ aborted' = [aborted EXCEPT ![d] = TRUE]
             /\ UNCHANGED <<host, runVars>>
    <3>1. EntryTypes'
      BY <1>2, <2>3 DEF FallbackRead, TypeOK, EntryTypes, Statuses, Terminal
    <3>2. QED
      BY <1>2, <2>1, <2>3, <3>1, Frames DEF FallbackRead, TypeOK
  <2>4. CASE /\ Launch(d, fallbackRun[d])
             /\ workers' = [workers EXCEPT ![d][host[d] + 1] = "new"]
             /\ UNCHANGED aborted
    <3>1. host[d] + 1 \in 0..MaxHosts
      BY <2>4, ParametersAssumption DEF Launch, TypeOK, EntryTypes
    <3>2. EntryTypes'
      BY <1>2, <2>4, <3>1 DEF FallbackRead, Launch, TypeOK, EntryTypes, Statuses, Active
    <3>3. RunTypes'
      BY <2>4, <3>1 DEF Launch, TypeOK, RunTypes, Working, WorkerStates
    <3>4. QED
      BY <1>2, <2>1, <3>2, <3>3, Frames DEF FallbackRead, TypeOK
  <2>5. QED
    BY <1>2, <2>2, <2>3, <2>4 DEF FallbackRead
<1>3. QED
  BY <1>1, <1>2 DEF FallbackStep

LEMMA ContinueTypes ==
  ASSUME TypeOK, NEW d \in Delegations
  PROVE  Continue(d) => TypeOK'
<1> SUFFICES ASSUME Continue(d) PROVE TypeOK'
  OBVIOUS
<1> DEFINE r == run[d] + 1
<1>1. r \in Runs /\ r \in 0..MaxRuns /\ host[d] \in 0..MaxHosts
  BY ParametersAssumption DEF Continue, TypeOK, EntryTypes, Runs
<1>2. /\ run' \in [Delegations -> 0..MaxRuns]
      /\ aborted' \in [Delegations -> BOOLEAN]
      /\ stopRequested' \in [Delegations -> BOOLEAN]
      /\ nudged' \in [Delegations -> BOOLEAN]
      /\ UNCHANGED <<resident, fellBack, definition, fallbackVars, stopVars, parentVars, reconcileVars>>
  BY <1>1 DEF Continue, TypeOK, EntryTypes
<1>3. status' \in [Delegations -> Statuses]
  BY DEF Continue, TypeOK, EntryTypes, Statuses, Active
<1>4. host' \in [Delegations -> 0..MaxHosts] /\ RunTypes'
  <2>1. ASSUME NEW label \in Working, Goto(d, r, label),
               runHost' = [runHost EXCEPT ![d][r] = host[d]], UNCHANGED <<host, workers>>
        PROVE host' \in [Delegations -> 0..MaxHosts] /\ RunTypes'
    BY <1>1, <2>1 DEF Goto, TypeOK, EntryTypes, RunTypes
  <2>2. ASSUME CreateWorker(d, r)
        PROVE host' \in [Delegations -> 0..MaxHosts] /\ RunTypes'
    <3>1. host[d] + 1 \in 0..MaxHosts
      BY <1>1, <2>2, ParametersAssumption DEF CreateWorker
    <3>2. QED
      BY <1>1, <2>2, <3>1 DEF CreateWorker, Goto, TypeOK, EntryTypes, RunTypes, Working, WorkerStates
  <2>3. QED
    BY <2>1, <2>2 DEF Continue, Working
<1>5. QED
  BY <1>2, <1>3, <1>4, Frames DEF TypeOK, EntryTypes

\* Stopping any set of entries.
LEMMA StopEntriesTypes ==
  ASSUME TypeOK, NEW ids \in SUBSET Delegations, NEW ws \in SUBSET Delegations,
         NEW outcome \in {"cancelled", "interrupted"},
         StopEntries(ids, outcome), workers' = StoppedWorkers(ws),
         UNCHANGED <<status, resident, run, nudged, fellBack, definition, host, pc, runHost>>
  PROVE  EntryTypes' /\ RunTypes' /\ StopTypes'
<1>1. EntryTypes'
  BY DEF StopEntries, Stoppable, TypeOK, EntryTypes
<1>2. StopTypes'
  BY DEF StopEntries, TypeOK, EntryTypes, StopTypes
<1>3. RunTypes'
  <2>1. \A e \in Delegations : AfterStop(workers[e], host[e]) \in [Hosts -> WorkerStates]
    BY AfterStopType DEF TypeOK, EntryTypes, RunTypes
  <2>2. QED
    BY <2>1 DEF StoppedWorkers, TypeOK, RunTypes
<1>4. QED
  BY <1>1, <1>2, <1>3

LEMMA UserStopTypes ==
  ASSUME TypeOK
  PROVE  /\ \A d \in Delegations : StopOne(d) => TypeOK'
         /\ \A p \in Parents : StopParent(p) \/ ResumeParent(p) => TypeOK'
         /\ StopAll => TypeOK'
<1> USE DEF Stoppable
<1>1. ASSUME NEW d \in Delegations, StopOne(d) PROVE TypeOK'
  <2>1. EntryTypes' /\ RunTypes' /\ StopTypes'
    BY <1>1, StopEntriesTypes DEF StopOne
  <2>2. QED
    BY <1>1, <2>1, Frames DEF StopOne, TypeOK
<1>2. ASSUME NEW p \in Parents, StopParent(p) PROVE TypeOK'
  <2> DEFINE children == {d \in Delegations : ParentOf[d] = p}
  <2>1. /\ StopEntries(children, "cancelled")
        /\ workers' = StoppedWorkers(Stoppable(children))
        /\ UNCHANGED <<status, resident, run, nudged, fellBack, definition, host, pc, runHost>>
    BY <1>2 DEF StopParent
  <2>2. EntryTypes' /\ RunTypes' /\ StopTypes'
    BY <2>1, StopEntriesTypes
  <2>3. ParentTypes'
    BY <1>2, ParametersAssumption DEF StopParent, TypeOK, ParentTypes
  <2>4. QED
    BY <1>2, <2>2, <2>3, Frames DEF StopParent, TypeOK
<1>3. ASSUME NEW p \in Parents, ResumeParent(p) PROVE TypeOK'
  <2>1. ParentTypes'
    BY <1>3 DEF ResumeParent, TypeOK, ParentTypes
  <2>2. QED
    BY <1>3, <2>1, Frames DEF ResumeParent, TypeOK
<1>4. ASSUME StopAll PROVE TypeOK'
  <2> DEFINE known == {d \in Delegations : resident[d]}
             ps == {p \in Parents : reservations[p] > 0 \/ \E d \in known : ParentOf[d] = p}
             ws == Stoppable(known) \cup {d \in known : status[d] \in Terminal}
  <2>1. /\ StopEntries(known, "interrupted")
        /\ workers' = StoppedWorkers(ws)
        /\ UNCHANGED <<status, resident, run, nudged, fellBack, definition, host, pc, runHost>>
    BY <1>4 DEF StopAll
  <2>2. EntryTypes' /\ RunTypes' /\ StopTypes'
    <3>1. known \in SUBSET Delegations /\ ws \in SUBSET Delegations
      OBVIOUS
    <3>2. QED
      BY <2>1, <3>1, StopEntriesTypes
  <2>3. ParentTypes'
    <3>1. /\ \A p \in ps : epoch[p] < MaxEpoch
          /\ paused' = paused \cup ps
          /\ epoch' = [p \in Parents |-> IF p \in ps THEN epoch[p] + 1 ELSE epoch[p]]
          /\ UNCHANGED <<starter, startEpoch, reservations>>
      BY <1>4 DEF StopAll
    <3>2. ps \subseteq Parents
      OBVIOUS
    <3> HIDE DEF ps
    <3>3. QED
      BY <3>1, <3>2, ParametersAssumption DEF TypeOK, ParentTypes
  <2>4. QED
    BY <1>4, <2>2, <2>3, Frames DEF StopAll, TypeOK
<1>5. QED
  BY <1>1, <1>2, <1>3, <1>4

LEMMA StopStepTypes ==
  ASSUME TypeOK, NEW d \in Delegations
  PROVE  StopStep(d) => TypeOK'
<1>1. ASSUME StopRejected(d) \/ StopHostDone(d) PROVE TypeOK'
  <2>1. StopTypes'
    BY <1>1 DEF StopRejected, StopHostDone, TypeOK, StopTypes
  <2>2. QED
    BY <1>1, <2>1, Frames DEF StopRejected, StopHostDone, TypeOK
<1>2. ASSUME StartingOver(d) PROVE TypeOK'
  <2>1. StopTypes'
    BY <1>2 DEF StartingOver, TypeOK, StopTypes
  <2>2. RunTypes'
    <3>1. stopHost[d] \in 0..MaxHosts
      BY DEF TypeOK, StopTypes
    <3>2. QED
      BY <1>2, <3>1, StopWorkerType DEF StartingOver, TypeOK, RunTypes
  <2>3. QED
    BY <1>2, <2>1, <2>2, Frames DEF StartingOver, TypeOK
<1>3. ASSUME StopSettles(d) PROVE TypeOK'
  <2>1. stopStatus[d] \in Terminal
    BY DEF TypeOK, StopTypes, Terminal
  <2>2. Settle(d, stopStatus[d])
    BY <1>3 DEF StopSettles
  <2>3. EntryTypes' /\ RunTypes'
    BY <1>3, <2>1, <2>2, SettleType DEF StopSettles, TypeOK, EntryTypes, RunTypes
  <2>4. StopTypes'
    BY <1>3 DEF StopSettles, TypeOK, StopTypes
  <2>5. QED
    BY <1>3, <2>1, <2>2, <2>3, <2>4, SettleType, Frames DEF StopSettles, TypeOK
<1>4. QED
  BY <1>1, <1>2, <1>3 DEF StopStep

LEMMA RestartTypes ==
  ASSUME TypeOK
  PROVE  /\ Restart => TypeOK'
         /\ \A d \in Delegations : ReconcileNext(d) => TypeOK'
         /\ \A d \in Delegations, found \in BOOLEAN : ReconcileRead(d, found) => TypeOK'
<1>1. ASSUME Restart PROVE TypeOK'
  <2>1. \A d \in Delegations : Hydrated(status[d]) \in Statuses
    BY DEF Hydrated, TypeOK, EntryTypes, Statuses, Terminal
  <2>2. EntryTypes'
    BY <1>1, <2>1, ParametersAssumption DEF Restart, TypeOK, EntryTypes
  <2>3. RunTypes'
    BY <1>1, ParametersAssumption DEF Restart, TypeOK, RunTypes, WorkerStates
  <2>4. FallbackTypes' /\ StopTypes'
    BY <1>1 DEF Restart, TypeOK, FallbackTypes, StopTypes
  <2>5. ParentTypes'
    BY <1>1, ParametersAssumption DEF Restart, TypeOK, ParentTypes
  <2>6. ReconcileTypes'
    BY <1>1, ParametersAssumption DEF Restart, TypeOK, ReconcileTypes
  <2>7. QED
    BY <2>2, <2>3, <2>4, <2>5, <2>6 DEF TypeOK
<1>2. ASSUME NEW d \in Delegations, ReconcileNext(d) PROVE TypeOK'
  <2>1. ReconcileTypes'
    BY <1>2 DEF ReconcileNext, TypeOK, ReconcileTypes
  <2>2. QED
    BY <1>2, <2>1, Frames DEF ReconcileNext, TypeOK
<1>3. ASSUME NEW d \in Delegations, NEW found \in BOOLEAN, ReconcileRead(d, found) PROVE TypeOK'
  <2>1. EntryTypes' /\ ReconcileTypes'
    BY <1>3 DEF ReconcileRead, TypeOK, EntryTypes, ReconcileTypes, Statuses, Terminal
  <2>2. QED
    BY <1>3, <2>1, Frames DEF ReconcileRead, TypeOK
<1>4. QED
  BY <1>1, <1>2, <1>3

LEMMA TypeStep == TypeOK /\ ReservationCount /\ [Next]_vars => TypeOK'
<1> SUFFICES ASSUME TypeOK, ReservationCount, [Next]_vars PROVE TypeOK'
  OBVIOUS
<1>1. CASE UNCHANGED vars
  BY <1>1, Frames DEF vars, TypeOK
<1>2. CASE Next
  BY <1>2, StartTypes, RunStepTypes, WorkerStepTypes, FallbackStepTypes, ContinueTypes,
     UserStopTypes, StopStepTypes, RestartTypes
  DEF Next, StartStep
<1>3. QED
  BY <1>1, <1>2

-----------------------------------------------------------------------------
(* The reservations are the starts in progress.                            *)

LEMMA StarterFrame ==
  ASSUME Next,
         ~ \E d \in Delegations : StartReserve(d) \/ StartCommit(d) \/ StartReject(d),
         ~ Restart
  PROVE  UNCHANGED <<starter, reservations>>
<1> USE DEF parentVars
<1>1. ASSUME NEW d \in Delegations, NEW r \in Runs, RunStep(d, r) \/ BecomesIdle(d, r) \/ TurnLimit(d, r)
      PROVE  UNCHANGED parentVars
  BY <1>1
  DEF RunStep, BecomesIdle, TurnLimit, Abandon, PrepareFails, RunFails, FailRun, DefinitionLoaded,
      OptionsBuilt, StartDone, StartFails, UndoDone, Advance, Judge, Nudge, NudgeFails, BestEffortRead,
      SettleStopped
<1>2. ASSUME NEW d \in Delegations, NEW h \in Hosts, WorkerStep(d, h) \/ WorkerExit(d, h)
      PROVE  UNCHANGED parentVars
  BY <1>2 DEF WorkerStep, Spawn, CloseWorker, WorkerExit
<1>3. ASSUME NEW d \in Delegations, FallbackStep(d) \/ Continue(d) \/ StopOne(d) \/ StopStep(d)
      PROVE  UNCHANGED parentVars
  BY <1>3
  DEF FallbackStep, FallbackStopped, FallbackRead, Continue, StopOne, StopStep, StopRejected,
      StopHostDone, StartingOver, StopSettles
<1>4. ASSUME NEW d \in Delegations, ReconcileNext(d) \/ \E found \in BOOLEAN : ReconcileRead(d, found)
      PROVE  UNCHANGED parentVars
  BY <1>4 DEF ReconcileNext, ReconcileRead
<1>5. ASSUME NEW p \in Parents, StopParent(p) \/ ResumeParent(p)
      PROVE  UNCHANGED <<starter, reservations>>
  BY <1>5 DEF StopParent, ResumeParent
<1>6. StopAll => UNCHANGED <<starter, reservations>>
  BY DEF StopAll
<1>7. QED
  BY <1>1, <1>2, <1>3, <1>4, <1>5, <1>6 DEF Next, StartStep

LEMMA ReservationStep == TypeOK /\ ReservationCount /\ [Next]_vars => ReservationCount'
<1> SUFFICES ASSUME TypeOK, ReservationCount, [Next]_vars PROVE ReservationCount'
  OBVIOUS
<1>1. ASSUME UNCHANGED <<starter, reservations>> PROVE ReservationCount'
  BY <1>1 DEF ReservationCount, Loading
<1>2. ASSUME NEW d \in Delegations, StartReserve(d) PROVE ReservationCount'
  <2>1. /\ reservations' = [reservations EXCEPT ![ParentOf[d]] = @ + 1]
        /\ starter[d] = "unused"
        /\ starter' = [starter EXCEPT ![d] = "loading"]
    BY <1>2 DEF StartReserve
  <2>2. ASSUME NEW p \in Parents PROVE reservations'[p] = Cardinality(Loading(p)')
    <3>1. CASE p = ParentOf[d]
      <4>1. Loading(p)' = Loading(p) \cup {d} /\ d \notin Loading(p)
        BY <2>1, <3>1 DEF Loading, TypeOK, ParentTypes
      <4>2. Cardinality(Loading(p)') = Cardinality(Loading(p)) + 1
        BY <4>1, LoadingFinite, FS_AddElement
      <4>3. QED
        BY <2>1, <3>1, <4>2 DEF ReservationCount, TypeOK, ParentTypes
    <3>2. CASE p # ParentOf[d]
      <4>1. Loading(p)' = Loading(p)
        BY <2>1, <3>2 DEF Loading, TypeOK, ParentTypes
      <4>2. QED
        BY <2>1, <3>2, <4>1 DEF ReservationCount, TypeOK, ParentTypes
    <3>3. QED
      BY <3>1, <3>2
  <2>3. QED
    BY <2>2 DEF ReservationCount
<1>3. ASSUME NEW d \in Delegations, StartCommit(d) \/ StartReject(d) PROVE ReservationCount'
  <2>1. /\ reservations' = [reservations EXCEPT ![ParentOf[d]] = @ - 1]
        /\ starter[d] = "loading"
        /\ starter' = [starter EXCEPT ![d] = "used"]
    BY <1>3 DEF StartCommit, StartReject
  <2>2. ASSUME NEW p \in Parents PROVE reservations'[p] = Cardinality(Loading(p)')
    <3>1. CASE p = ParentOf[d]
      <4>1. Loading(p)' = Loading(p) \ {d} /\ d \in Loading(p)
        BY <2>1, <3>1 DEF Loading, TypeOK, ParentTypes
      <4>2. Cardinality(Loading(p)') = Cardinality(Loading(p)) - 1
        BY <4>1, LoadingFinite, FS_RemoveElement
      <4>3. QED
        BY <2>1, <3>1, <4>2 DEF ReservationCount, TypeOK, ParentTypes
    <3>2. CASE p # ParentOf[d]
      <4>1. Loading(p)' = Loading(p)
        BY <2>1, <3>2 DEF Loading, TypeOK, ParentTypes
      <4>2. QED
        BY <2>1, <3>2, <4>1 DEF ReservationCount, TypeOK, ParentTypes
    <3>3. QED
      BY <3>1, <3>2
  <2>3. QED
    BY <2>2 DEF ReservationCount
<1>4. ASSUME Restart PROVE ReservationCount'
  <2>1. \A p \in Parents : Loading(p)' = {} /\ reservations'[p] = 0
    BY <1>4 DEF Restart, Loading
  <2>2. QED
    BY <2>1, FS_EmptySet DEF ReservationCount
<1>5. QED
  BY <1>1, <1>2, <1>3, <1>4, StarterFrame DEF vars, parentVars

\* The state always has its types, and the slots reserved by the starts of a
\* parent (start, startReserved) are never released twice nor kept.
THEOREM TypeCorrect == Spec => [](TypeOK /\ ReservationCount)
<1>1. TypeOK /\ ReservationCount /\ [Next]_vars => (TypeOK /\ ReservationCount)'
  BY TypeStep, ReservationStep
<1>2. QED
  BY <1>1, TypeInit, PTL DEF Spec

-----------------------------------------------------------------------------
(* A delegation has a record exactly when it was run.                      *)

Untouched(d) ==
  /\ run[d] = 0 /\ host[d] = 0
  /\ ~resident[d] /\ ~aborted[d] /\ ~stopRequested[d]
  /\ stopper[d] = "idle" /\ fallback[d] = "idle"
  /\ \A r \in Runs : pc[d][r] = "none"
  /\ \A h \in Hosts : workers[d][h] = "none"
  /\ d \notin reconciling

Recorded(d) ==
  /\ status[d] = "absent" => Untouched(d)
  /\ status[d] # "absent" => run[d] \in Runs /\ starter[d] = "used"

RecordedIffRun == \A d \in Delegations : Recorded(d)

\* Settling only concerns a delegation with a record.
LEMMA SettleRecorded ==
  ASSUME TypeOK, NEW d \in Delegations, NEW outcome \in Terminal, Settle(d, outcome),
         status[d] # "absent"
  PROVE  /\ \A e \in Delegations \ {d} :
              UNCHANGED <<status[e], aborted[e], fellBack[e], fallback[e], fallbackRun[e], workers[e]>>
         /\ status'[d] # "absent"
<1>1. CASE status[d] \in Terminal
  BY <1>1 DEF Settle, fallbackVars
<1>2. CASE BeginFallback(d)
  BY <1>2 DEF BeginFallback, TypeOK, EntryTypes, RunTypes, FallbackTypes
<1>3. CASE Finish(d, outcome)
  BY <1>3 DEF Finish, fallbackVars, TypeOK, EntryTypes, Terminal
<1>4. QED
  BY <1>1, <1>2, <1>3 DEF Settle

LEMMA RecordedRunStep ==
  ASSUME TypeOK, RecordedIffRun, NEW d \in Delegations, NEW r \in Runs,
         RunStep(d, r) \/ BecomesIdle(d, r) \/ TurnLimit(d, r)
  PROVE  RecordedIffRun'
<1> SUFFICES ASSUME NEW e \in Delegations PROVE Recorded(e)'
  BY DEF RecordedIffRun
<1> USE DEF TypeOK, EntryTypes, RunTypes
<1>0. Recorded(d) /\ Recorded(e)
  BY DEF RecordedIffRun
<1>1. pc[d][r] # "none" /\ status[d] # "absent"
  BY <1>0
  DEF Recorded, Untouched, RunStep, BecomesIdle, TurnLimit, Abandon, PrepareFails, RunFails, FailRun, DefinitionLoaded,
      OptionsBuilt, StartDone, StartFails, UndoDone, Advance, Judge, Nudge, NudgeFails, BestEffortRead,
      SettleStopped, Working, Racing, Starting
<1>2. UNCHANGED <<run, resident, stopper, starter, reconciling, stopRequested>>
  BY DEF RunStep, BecomesIdle, TurnLimit, Abandon, PrepareFails, RunFails, FailRun, DefinitionLoaded,
      OptionsBuilt, StartDone, StartFails, UndoDone, Advance, Judge, Nudge, NudgeFails, BestEffortRead,
      SettleStopped, entryVars, stopVars, parentVars, reconcileVars
<1>3. /\ \A f \in Delegations \ {d} : UNCHANGED <<status[f], aborted[f], fallback[f], host[f], pc[f], workers[f]>>
      /\ status'[d] # "absent"
  <2>1. CASE \E outcome \in Terminal : Settle(d, outcome) /\ Goto(d, r, "done") /\ UNCHANGED host
    BY <1>1, <2>1, SettleRecorded DEF Goto
  <2>2. CASE Abandon(d, r) \/ OptionsBuilt(d, r) \/ UndoDone(d, r) \/ Nudge(d, r) \/ TurnLimit(d, r) \/ BestEffortRead(d, r)
    BY <1>1, <2>2 DEF Abandon, OptionsBuilt, UndoDone, Nudge, TurnLimit, BestEffortRead, Goto, entryVars, fallbackVars
  <2>3. CASE StartFails(d, r) \/ PrepareFails(d, r) \/ RunFails(d, r)
    BY <1>1, <2>3 DEF StartFails, PrepareFails, RunFails, FailRun, Fail, Goto, entryVars, fallbackVars
  <2>4. CASE Advance(d, r) \/ BecomesIdle(d, r)
    BY <1>1, <2>4 DEF Advance, BecomesIdle, Goto, entryVars, fallbackVars
  <2>5. CASE StartDone(d, r)
    BY <1>1, <2>5 DEF StartDone, Fail, Goto, fallbackVars
  <2>6. CASE DefinitionLoaded(d, r)
    BY <1>1, <2>6 DEF DefinitionLoaded, CreateWorker, Goto, fallbackVars
  <2>7. CASE Judge(d, r) \/ NudgeFails(d, r) \/ SettleStopped(d, r)
    BY <2>1, <2>7 DEF Judge, NudgeFails, SettleStopped, Terminal
  <2>8. QED
    BY <2>2, <2>3, <2>4, <2>5, <2>6, <2>7 DEF RunStep
<1>4. QED
  BY <1>0, <1>1, <1>2, <1>3 DEF Recorded, Untouched

LEMMA RecordedStart ==
  ASSUME TypeOK, RecordedIffRun, NEW d \in Delegations,
         StartReserve(d) \/ StartCommit(d) \/ StartReject(d)
  PROVE  RecordedIffRun'
<1> SUFFICES ASSUME NEW e \in Delegations PROVE Recorded(e)'
  BY DEF RecordedIffRun
<1> USE DEF TypeOK, EntryTypes, RunTypes, ParentTypes
<1>0. Recorded(d) /\ Recorded(e)
  BY DEF RecordedIffRun
<1>1. CASE StartReserve(d) \/ StartReject(d)
  BY <1>0, <1>1 DEF StartReserve, StartReject, Recorded, Untouched, entryVars, runVars, fallbackVars, stopVars, reconcileVars
<1>2. CASE StartCommit(d)
  <2>1. PICK gone \in SUBSET Delegations :
          /\ resident' = [f \in Delegations |-> f = d \/ (resident[f] /\ f \notin gone)]
          /\ workers' = [EvictedWorkers(gone) EXCEPT ![d][1] = "new"]
    BY <1>2 DEF StartCommit
  <2>2. /\ starter[d] = "loading" /\ starter' = [starter EXCEPT ![d] = "used"]
        /\ run' = [run EXCEPT ![d] = 1]
        /\ status' = [status EXCEPT ![d] = "running"]
        /\ host' = [host EXCEPT ![d] = @ + 1]
        /\ pc' = [pc EXCEPT ![d][1] = "options"]
        /\ UNCHANGED <<aborted, stopRequested, fallback, stopper, reconciling>>
    BY <1>2 DEF StartCommit, Launch, fallbackVars, stopVars, reconcileVars
  <2>3. CASE e = d
    BY <2>2, <2>3, ParametersAssumption DEF Recorded, Runs
  <2>4. CASE e # d
    <3>1. UNCHANGED <<run[e], status[e], host[e], pc[e], starter[e]>>
      BY <2>2, <2>4 DEF ParentTypes
    <3>2. host[e] = 0 => UNCHANGED workers[e]
      BY <2>1, <2>4 DEF EvictedWorkers, AfterStop
    <3>3. resident'[e] => resident[e]
      BY <2>1, <2>4
    <3>4. QED
      BY <1>0, <2>2, <3>1, <3>2, <3>3 DEF Recorded, Untouched
  <2>5. QED
    BY <2>3, <2>4
<1>3. QED
  BY <1>1, <1>2

LEMMA RecordedWorker ==
  ASSUME TypeOK, RecordedIffRun, NEW d \in Delegations, NEW h \in Hosts,
         WorkerStep(d, h) \/ WorkerExit(d, h)
  PROVE  RecordedIffRun'
<1> SUFFICES ASSUME NEW e \in Delegations PROVE Recorded(e)'
  BY DEF RecordedIffRun
<1>1. Recorded(e)
  BY DEF RecordedIffRun
<1>2. /\ UNCHANGED <<entryVars, pc, stopVars, fallbackVars, parentVars, reconcileVars>>
      /\ workers[d][h] # "none"
      /\ \A f \in Delegations \ {d} : UNCHANGED workers[f]
  BY DEF WorkerStep, Spawn, CloseWorker, WorkerExit, IsRunning, TypeOK, RunTypes
<1>3. QED
  BY <1>1, <1>2 DEF Recorded, Untouched, entryVars, stopVars, fallbackVars, parentVars, reconcileVars

LEMMA RecordedFallback ==
  ASSUME TypeOK, RecordedIffRun, NEW d \in Delegations, FallbackStep(d)
  PROVE  RecordedIffRun'
<1> SUFFICES ASSUME NEW e \in Delegations PROVE Recorded(e)'
  BY DEF RecordedIffRun
<1> USE DEF TypeOK, EntryTypes, RunTypes, FallbackTypes
<1>1. Recorded(d) /\ Recorded(e)
  BY DEF RecordedIffRun
<1>2. status[d] # "absent"
  BY <1>1 DEF Recorded, Untouched, FallbackStep, FallbackStopped, FallbackRead
<1>3. /\ UNCHANGED <<run, resident, stopRequested, stopper, starter, reconciling>>
      /\ status'[d] # "absent"
      /\ \A f \in Delegations \ {d} : UNCHANGED <<status[f], aborted[f], fallback[f], host[f], pc[f], workers[f]>>
  <2>1. CASE FallbackStopped(d)
    BY <1>2, <2>1 DEF FallbackStopped, runVars, stopVars, parentVars, reconcileVars
  <2>2. CASE FallbackRead(d)
    BY <1>2, <2>2 DEF FallbackRead, Launch, runVars, stopVars, parentVars, reconcileVars
  <2>3. QED
    BY <2>1, <2>2 DEF FallbackStep
<1>4. QED
  BY <1>1, <1>2, <1>3 DEF Recorded, Untouched

LEMMA RecordedContinue ==
  ASSUME TypeOK, RecordedIffRun, NEW d \in Delegations, Continue(d)
  PROVE  RecordedIffRun'
<1> SUFFICES ASSUME NEW e \in Delegations PROVE Recorded(e)'
  BY DEF RecordedIffRun
<1> USE DEF TypeOK, EntryTypes, RunTypes
<1>1. Recorded(d) /\ Recorded(e)
  BY DEF RecordedIffRun
<1>2. status[d] # "absent" /\ run[d] + 1 \in Runs
  BY DEF Continue, MayContinue, Terminal
<1>3. /\ UNCHANGED <<resident, stopper, starter, reconciling, fallback>>
      /\ run' = [run EXCEPT ![d] = @ + 1]
      /\ status'[d] # "absent"
      /\ \A f \in Delegations \ {d} : UNCHANGED <<status[f], aborted[f], stopRequested[f], host[f], pc[f], workers[f]>>
  <2>1. \A f \in Delegations \ {d} : UNCHANGED <<host[f], pc[f], workers[f]>>
    BY DEF Continue, CreateWorker, Goto
  <2>2. QED
    BY <2>1 DEF Continue, fallbackVars, stopVars, parentVars, reconcileVars
<1>4. QED
  BY <1>1, <1>2, <1>3 DEF Recorded, Untouched

LEMMA RecordedStopEntries ==
  ASSUME TypeOK, RecordedIffRun, NEW ids \in SUBSET Delegations, NEW ws \in SUBSET Delegations,
         NEW outcome, StopEntries(ids, outcome), workers' = StoppedWorkers(ws),
         UNCHANGED <<status, resident, run, host, pc, fallback, starter, reconciling>>
  PROVE  RecordedIffRun'
<1> SUFFICES ASSUME NEW e \in Delegations PROVE Recorded(e)'
  BY DEF RecordedIffRun
<1>1. Recorded(e)
  BY DEF RecordedIffRun
<1>2. status[e] = "absent" => /\ e \notin Stoppable(ids)
                              /\ UNCHANGED <<aborted[e], stopRequested[e], stopper[e], workers[e]>>
  BY <1>1 DEF StopEntries, Stoppable, StoppedWorkers, AfterStop, Active, Recorded, Untouched,
              TypeOK, EntryTypes, RunTypes, StopTypes
<1>3. QED
  BY <1>1, <1>2 DEF Recorded, Untouched

LEMMA RecordedUserStop ==
  ASSUME TypeOK, RecordedIffRun
  PROVE  /\ \A d \in Delegations : StopOne(d) => RecordedIffRun'
         /\ \A p \in Parents : StopParent(p) \/ ResumeParent(p) => RecordedIffRun'
         /\ StopAll => RecordedIffRun'
<1> USE DEF Stoppable, fallbackVars, parentVars, reconcileVars
<1>1. ASSUME NEW d \in Delegations, StopOne(d) PROVE RecordedIffRun'
  BY <1>1, RecordedStopEntries DEF StopOne
<1>2. ASSUME NEW p \in Parents, StopParent(p) PROVE RecordedIffRun'
  <2> DEFINE children == {d \in Delegations : ParentOf[d] = p}
  <2>1. /\ StopEntries(children, "cancelled")
        /\ workers' = StoppedWorkers(Stoppable(children))
        /\ UNCHANGED <<status, resident, run, host, pc, fallback, starter, reconciling>>
    BY <1>2 DEF StopParent
  <2>2. QED
    BY <2>1, RecordedStopEntries
<1>3. ASSUME NEW p \in Parents, ResumeParent(p) PROVE RecordedIffRun'
  BY <1>3 DEF ResumeParent, RecordedIffRun, Recorded, Untouched, entryVars, runVars, stopVars
<1>4. ASSUME StopAll PROVE RecordedIffRun'
  <2> DEFINE known == {d \in Delegations : resident[d]}
             ws == Stoppable(known) \cup {d \in known : status[d] \in Terminal}
  <2>1. /\ StopEntries(known, "interrupted")
        /\ workers' = StoppedWorkers(ws)
        /\ UNCHANGED <<status, resident, run, host, pc, fallback, starter, reconciling>>
    BY <1>4 DEF StopAll
  <2>2. known \in SUBSET Delegations /\ ws \in SUBSET Delegations
    OBVIOUS
  <2>3. QED
    BY <2>1, <2>2, RecordedStopEntries
<1>5. QED
  BY <1>1, <1>2, <1>3, <1>4

LEMMA RecordedStopStep ==
  ASSUME TypeOK, RecordedIffRun, NEW d \in Delegations, StopStep(d)
  PROVE  RecordedIffRun'
<1> SUFFICES ASSUME NEW e \in Delegations PROVE Recorded(e)'
  BY DEF RecordedIffRun
<1> USE DEF TypeOK, EntryTypes, RunTypes, StopTypes
<1>1. Recorded(d) /\ Recorded(e)
  BY DEF RecordedIffRun
<1>2. status[d] # "absent"
  BY <1>1 DEF Recorded, Untouched, StopStep, StopRejected, StopHostDone, StartingOver, StopSettles
<1>3. /\ UNCHANGED <<run, host, resident, stopRequested, pc, starter, reconciling>>
      /\ status'[d] # "absent"
      /\ \A f \in Delegations \ {d} : UNCHANGED <<status[f], aborted[f], fallback[f], stopper[f], workers[f]>>
  <2>1. CASE StopRejected(d) \/ StopHostDone(d) \/ StartingOver(d)
    BY <1>2, <2>1 DEF StopRejected, StopHostDone, StartingOver, entryVars, runVars, fallbackVars, parentVars, reconcileVars
  <2>2. CASE StopSettles(d)
    <3>1. stopStatus[d] \in Terminal /\ Settle(d, stopStatus[d])
      BY <2>2 DEF StopSettles, Terminal
    <3>2. QED
      BY <1>2, <2>2, <3>1, SettleRecorded DEF StopSettles, parentVars, reconcileVars
  <2>3. QED
    BY <2>1, <2>2 DEF StopStep
<1>4. QED
  BY <1>1, <1>2, <1>3 DEF Recorded, Untouched

LEMMA RecordedRestart ==
  ASSUME TypeOK, RecordedIffRun
  PROVE  /\ Restart => RecordedIffRun'
         /\ \A d \in Delegations : ReconcileNext(d) => RecordedIffRun'
         /\ \A d \in Delegations, found \in BOOLEAN : ReconcileRead(d, found) => RecordedIffRun'
<1> USE DEF RecordedIffRun, Recorded, Untouched
<1>1. ASSUME Restart PROVE RecordedIffRun'
  BY <1>1 DEF Restart, Hydrated, Active, TypeOK, EntryTypes, ParentTypes
<1>2. ASSUME NEW d \in Delegations, ReconcileNext(d) PROVE RecordedIffRun'
  BY <1>2 DEF ReconcileNext, entryVars, runVars, fallbackVars, stopVars, parentVars
<1>3. ASSUME NEW d \in Delegations, NEW found \in BOOLEAN, ReconcileRead(d, found) PROVE RecordedIffRun'
  BY <1>3 DEF ReconcileRead, runVars, fallbackVars, stopVars, parentVars, TypeOK, EntryTypes
<1>4. QED
  BY <1>1, <1>2, <1>3

\* A record exists exactly for delegations that were run, and a start that is
\* still loading has left no trace in it.
THEOREM RecordsCorrect == Spec => []RecordedIffRun
<1>1. Init => RecordedIffRun
  BY DEF Init, RecordedIffRun, Recorded, Untouched
<1>2. TypeOK /\ RecordedIffRun /\ [Next]_vars => RecordedIffRun'
  <2> SUFFICES ASSUME TypeOK, RecordedIffRun, [Next]_vars PROVE RecordedIffRun'
    OBVIOUS
  <2>1. CASE UNCHANGED vars
    BY <2>1 DEF RecordedIffRun, Recorded, Untouched, vars, entryVars, runVars, fallbackVars, stopVars, parentVars, reconcileVars
  <2>2. CASE Next
    BY <2>2, RecordedStart, RecordedRunStep, RecordedWorker, RecordedFallback, RecordedContinue,
       RecordedUserStop, RecordedStopStep, RecordedRestart
    DEF Next, StartStep
  <2>3. QED
    BY <2>1, <2>2
<1>3. QED
  BY <1>1, <1>2, TypeCorrect, PTL DEF Spec

-----------------------------------------------------------------------------
(* Admission: only start and continue make a delegation active.            *)

LEMMA SettleNeverActivates ==
  ASSUME TypeOK, NEW d \in Delegations, NEW outcome \in Terminal, Settle(d, outcome),
         NEW e \in Delegations, status'[e] \in Active
  PROVE  status[e] \in Active
BY DEF Settle, BeginFallback, Finish, Terminal, Active, TypeOK, EntryTypes

LEMMA Activation ==
  ASSUME TypeOK, RecordedIffRun, Next, NEW e \in Delegations, status'[e] \in Active,
         ~StartCommit(e), ~Continue(e)
  PROVE  /\ status[e] \in Active
         /\ run'[e] = run[e]
         /\ resident'[e] => resident[e]
<1> USE DEF TypeOK, EntryTypes
<1>1. ASSUME NEW d \in Delegations, NEW r \in Runs, RunStep(d, r) \/ BecomesIdle(d, r) \/ TurnLimit(d, r)
      PROVE  status[e] \in Active /\ UNCHANGED <<run, resident>>
  <2>1. UNCHANGED <<run, resident>>
    BY <1>1
    DEF RunStep, BecomesIdle, TurnLimit, Abandon, PrepareFails, RunFails, FailRun, DefinitionLoaded,
        OptionsBuilt, StartDone, StartFails, UndoDone, Advance, Judge, Nudge, NudgeFails, BestEffortRead,
        SettleStopped, entryVars
  <2>2. CASE Judge(d, r) \/ NudgeFails(d, r) \/ SettleStopped(d, r)
    <3>1. \E outcome \in Terminal : Settle(d, outcome)
      BY <2>2 DEF Judge, NudgeFails, SettleStopped, Terminal
    <3>2. QED
      BY <2>1, <3>1, SettleNeverActivates
  <2>3. CASE StartDone(d, r)
    <3>1. status[d] # "absent"
      BY <2>3 DEF StartDone, RecordedIffRun, Recorded, Untouched
    <3>2. QED
      BY <2>1, <2>3, <3>1 DEF StartDone, Statuses, Active
  <2>4. CASE ~(Judge(d, r) \/ NudgeFails(d, r) \/ SettleStopped(d, r) \/ StartDone(d, r))
    BY <1>1, <2>1, <2>4
    DEF RunStep, BecomesIdle, TurnLimit, Abandon, PrepareFails, RunFails, FailRun, DefinitionLoaded,
        OptionsBuilt, StartFails, UndoDone, Advance, Nudge, BestEffortRead, entryVars
  <2>5. QED
    BY <2>2, <2>3, <2>4
<1>2. ASSUME NEW d \in Delegations, NEW h \in Hosts, WorkerStep(d, h) \/ WorkerExit(d, h)
      PROVE  status[e] \in Active /\ UNCHANGED <<run, resident>>
  BY <1>2 DEF WorkerStep, Spawn, CloseWorker, WorkerExit, entryVars
<1>3. ASSUME NEW d \in Delegations, FallbackStep(d)
      PROVE  status[e] \in Active /\ UNCHANGED <<run, resident>>
  <2>1. CASE FallbackStopped(d)
    BY <2>1 DEF FallbackStopped, Active
  <2>2. CASE FallbackRead(d)
    BY <2>2 DEF FallbackRead, Launch, Active
  <2>3. QED
    BY <1>3, <2>1, <2>2 DEF FallbackStep
<1>4. ASSUME NEW d \in Delegations, StopStep(d)
      PROVE  status[e] \in Active /\ UNCHANGED <<run, resident>>
  <2>1. CASE StopRejected(d) \/ StopHostDone(d) \/ StartingOver(d)
    BY <2>1 DEF StopRejected, StopHostDone, StartingOver, entryVars
  <2>2. CASE StopSettles(d)
    <3>1. stopStatus[d] \in Terminal /\ Settle(d, stopStatus[d]) /\ UNCHANGED <<run, resident>>
      BY <2>2 DEF StopSettles, StopTypes, Terminal
    <3>2. QED
      BY <3>1, SettleNeverActivates
  <2>3. QED
    BY <1>4, <2>1, <2>2 DEF StopStep
<1>5. ASSUME NEW d \in Delegations, StartReserve(d) \/ StartReject(d) \/ StopOne(d) \/ ReconcileNext(d)
      PROVE  status[e] \in Active /\ UNCHANGED <<run, resident>>
  BY <1>5 DEF StartReserve, StartReject, StopOne, ReconcileNext, entryVars
<1>6. ASSUME NEW d \in Delegations, NEW found \in BOOLEAN, ReconcileRead(d, found)
      PROVE  status[e] \in Active /\ UNCHANGED <<run, resident>>
  BY <1>6 DEF ReconcileRead, Active
<1>7. ASSUME NEW d \in Delegations, StartCommit(d)
      PROVE  status[e] \in Active /\ run'[e] = run[e] /\ (resident'[e] => resident[e])
  <2>1. d # e
    BY <1>7
  <2>2. status' = [status EXCEPT ![d] = "running"] /\ run' = [run EXCEPT ![d] = 1]
    BY <1>7 DEF StartCommit, Launch
  <2>3. status[e] \in Active /\ run'[e] = run[e]
    BY <2>1, <2>2 DEF EntryTypes
  <2>4. PICK gone \in SUBSET Delegations :
          resident' = [x \in Delegations |-> x = d \/ (resident[x] /\ x \notin gone)]
    BY <1>7 DEF StartCommit
  <2>5. resident'[e] => resident[e]
    BY <2>1, <2>4
  <2>6. QED
    BY <2>3, <2>5
<1>8. ASSUME NEW d \in Delegations, Continue(d)
      PROVE  status[e] \in Active /\ run'[e] = run[e] /\ UNCHANGED resident
  BY <1>8 DEF Continue
<1>9. ASSUME NEW p \in Parents, StopParent(p) \/ ResumeParent(p)
      PROVE  status[e] \in Active /\ UNCHANGED <<run, resident>>
  BY <1>9 DEF StopParent, ResumeParent, entryVars
<1>10. ASSUME StopAll PROVE status[e] \in Active /\ UNCHANGED <<run, resident>>
  BY <1>10 DEF StopAll
<1>11. ~Restart
  BY DEF Restart, Hydrated, Active
<1>12. QED
  BY <1>1, <1>2, <1>3, <1>4, <1>5, <1>6, <1>7, <1>8, <1>9, <1>10, <1>11 DEF Next, StartStep

\* First runs in progress: what `active` counts at admission, apart from
\* further runs begun by continue.
FirstRuns(p) == {d \in ActiveOf(p) : run[d] = 1}

LEMMA FirstRunsFinite == \A p \in Parents : IsFiniteSet(FirstRuns(p)) /\ IsFiniteSet(ActiveOf(p))
BY ParametersAssumption, FS_Subset DEF FirstRuns, ActiveOf

\* Without a start committing, nothing becomes a first run in progress.
LEMMA FirstRunsShrink ==
  ASSUME TypeOK, RecordedIffRun, Next, NEW p \in Parents, NEW e \in FirstRuns(p)', ~StartCommit(e)
  PROVE  e \in FirstRuns(p)
<1>1. e \in Delegations /\ ParentOf[e] = p /\ resident'[e] /\ status'[e] \in Active /\ run'[e] = 1
  BY DEF FirstRuns, ActiveOf
<1>2. ~Continue(e)
  <2> SUFFICES ASSUME Continue(e) PROVE FALSE
    OBVIOUS
  <2>1. run'[e] = run[e] + 1 /\ status[e] \in Terminal
    BY <1>1 DEF Continue, MayContinue, TypeOK, EntryTypes
  <2>2. run[e] \in Runs
    BY <1>1, <2>1 DEF RecordedIffRun, Recorded, Terminal
  <2>3. QED
    BY <1>1, <2>1, <2>2, ParametersAssumption DEF Runs
<1>3. QED
  BY <1>1, <1>2, Activation DEF FirstRuns, ActiveOf

LEMMA AdmissionStep ==
  ASSUME TypeOK, ReservationCount, RecordedIffRun, AdmissionCap, [Next]_vars
  PROVE  AdmissionCap'
<1> SUFFICES ASSUME NEW p \in Parents
             PROVE  Cardinality(FirstRuns(p)') + reservations'[p] <= MaxConcurrency
  BY DEF AdmissionCap, FirstRuns
<1>1. /\ Cardinality(FirstRuns(p)) + reservations[p] <= MaxConcurrency
      /\ Cardinality(FirstRuns(p)) \in Nat /\ IsFiniteSet(FirstRuns(p))
      /\ reservations[p] \in Nat /\ MaxConcurrency \in Nat
  BY FirstRunsFinite, FS_CardinalityType, ParametersAssumption DEF AdmissionCap, FirstRuns, TypeOK, ParentTypes
<1>2. ASSUME NEW S \in SUBSET FirstRuns(p)
      PROVE  Cardinality(S) \in Nat /\ Cardinality(S) <= Cardinality(FirstRuns(p))
  BY <1>1, <1>2, FS_Subset, FS_CardinalityType
<1>3. CASE UNCHANGED vars
  BY <1>1, <1>3 DEF vars, entryVars, parentVars, FirstRuns, ActiveOf
<1>4. CASE Next /\ UNCHANGED <<starter, reservations>>
  <2>1. \A d \in Delegations : ~StartCommit(d)
    BY <1>4 DEF StartCommit, TypeOK, ParentTypes
  <2>2. FirstRuns(p)' \subseteq FirstRuns(p)
    <3>1. \A e \in FirstRuns(p)' : e \in Delegations
      BY DEF FirstRuns, ActiveOf
    <3>2. QED
      BY <1>4, <2>1, <3>1, FirstRunsShrink
  <2>3. QED
    BY <1>1, <1>2, <1>4, <2>2
<1>5. ASSUME NEW d \in Delegations, StartReserve(d)
      PROVE  Cardinality(FirstRuns(p)') + reservations'[p] <= MaxConcurrency
  <2>1. FirstRuns(p)' = FirstRuns(p)
    BY <1>5 DEF StartReserve, entryVars, FirstRuns, ActiveOf
  <2>2. CASE p = ParentOf[d]
    <3>1. Cardinality(ActiveOf(p)) + reservations[p] < MaxConcurrency /\ reservations'[p] = reservations[p] + 1
      BY <1>5, <2>2 DEF StartReserve, HasSlot, TypeOK, ParentTypes
    <3>2. Cardinality(FirstRuns(p)) <= Cardinality(ActiveOf(p)) /\ Cardinality(ActiveOf(p)) \in Nat
      BY FirstRunsFinite, FS_Subset, FS_CardinalityType DEF FirstRuns
    <3>3. QED
      BY <1>1, <2>1, <3>1, <3>2
  <2>3. CASE p # ParentOf[d]
    BY <1>1, <1>5, <2>1, <2>3 DEF StartReserve, TypeOK, ParentTypes
  <2>4. QED
    BY <2>2, <2>3
<1>6. ASSUME NEW d \in Delegations, StartCommit(d)
      PROVE  Cardinality(FirstRuns(p)') + reservations'[p] <= MaxConcurrency
  <2>1. FirstRuns(p)' \subseteq FirstRuns(p) \cup (IF p = ParentOf[d] THEN {d} ELSE {})
    <3> SUFFICES ASSUME NEW e \in FirstRuns(p)' PROVE e \in FirstRuns(p) \/ (e = d /\ p = ParentOf[d])
      OBVIOUS
    <3>1. e \in Delegations /\ ParentOf[e] = p
      BY DEF FirstRuns, ActiveOf
    <3>2. StartCommit(e) => e = d
      BY <1>6, <3>1 DEF StartCommit, TypeOK, ParentTypes
    <3>3. Next
      BY <1>6 DEF Next, StartStep
    <3>4. QED
      BY <3>1, <3>2, <3>3, FirstRunsShrink
  <2>2. CASE p = ParentOf[d]
    <3>1. reservations'[p] = reservations[p] - 1
      BY <1>6, <2>2 DEF StartCommit, TypeOK, ParentTypes
    <3>2. /\ Cardinality(FirstRuns(p) \cup {d}) <= Cardinality(FirstRuns(p)) + 1
          /\ Cardinality(FirstRuns(p) \cup {d}) \in Nat
          /\ IsFiniteSet(FirstRuns(p) \cup {d})
      <4>1. /\ IsFiniteSet(FirstRuns(p) \cup {d})
            /\ Cardinality(FirstRuns(p) \cup {d})
                 = IF d \in FirstRuns(p) THEN Cardinality(FirstRuns(p)) ELSE Cardinality(FirstRuns(p)) + 1
        BY <1>1, FS_AddElement
      <4>2. QED
        BY <1>1, <4>1
    <3>3. Cardinality(FirstRuns(p)') <= Cardinality(FirstRuns(p) \cup {d}) /\ Cardinality(FirstRuns(p)') \in Nat
      BY <2>1, <2>2, <3>2, FS_Subset, FS_CardinalityType
    <3>4. QED
      BY <1>1, <3>1, <3>2, <3>3
  <2>3. CASE p # ParentOf[d]
    <3>1. reservations'[p] = reservations[p] /\ FirstRuns(p)' \subseteq FirstRuns(p)
      BY <1>6, <2>1, <2>3 DEF StartCommit, TypeOK, ParentTypes
    <3>2. QED
      BY <1>1, <1>2, <3>1
  <2>4. QED
    BY <2>2, <2>3
<1>7. ASSUME NEW d \in Delegations, StartReject(d)
      PROVE  Cardinality(FirstRuns(p)') + reservations'[p] <= MaxConcurrency
  <2>1. FirstRuns(p)' = FirstRuns(p)
    BY <1>7 DEF StartReject, entryVars, FirstRuns, ActiveOf
  <2>2. reservations'[p] = reservations[p] \/ reservations'[p] = reservations[p] - 1
    BY <1>7 DEF StartReject, TypeOK, ParentTypes
  <2>3. QED
    BY <1>1, <2>1, <2>2
<1>8. CASE Restart
  <2>1. FirstRuns(p)' = {} /\ reservations'[p] = 0
    BY <1>8 DEF Restart, Hydrated, FirstRuns, ActiveOf, Active
  <2>2. QED
    BY <1>1, <2>1, FS_EmptySet
<1>9. QED
  BY <1>3, <1>4, <1>5, <1>6, <1>7, <1>8, StarterFrame

\* However many starts are loading their role at the same time, and whatever
\* is stopped, evicted or restarted in between, the delegations started for a
\* parent together with those being started stay within
\* DELEGATION_MAX_CONCURRENCY.
THEOREM AdmissionBounded == Spec => []AdmissionCap
<1>1. Init => AdmissionCap
  <2> SUFFICES ASSUME Init, NEW p \in Parents
               PROVE  Cardinality(FirstRuns(p)) + reservations[p] <= MaxConcurrency
    BY DEF AdmissionCap, FirstRuns
  <2>1. FirstRuns(p) = {} /\ reservations[p] = 0
    BY DEF Init, FirstRuns, ActiveOf
  <2>2. QED
    BY <2>1, FS_EmptySet, ParametersAssumption
<1>2. TypeOK /\ ReservationCount /\ RecordedIffRun /\ AdmissionCap /\ [Next]_vars => AdmissionCap'
  BY AdmissionStep
<1>3. QED
  BY <1>1, <1>2, TypeCorrect, RecordsCorrect, PTL DEF Spec

-----------------------------------------------------------------------------
(***************************************************************************)
(* What a stop guarantees when terminating a worker never fails: a stopped *)
(* parent drains and no record is left without anyone to settle it.        *)
(***************************************************************************)

-----------------------------------------------------------------------------
(* Who may touch which worker.                                             *)

\* A worker being terminated stays so, and a worker that was only created is
\* left alone until its own run starts it.
Keeps(d, h) ==
  /\ workers[d][h] = "new" => workers'[d][h] = "new"
  /\ workers[d][h] \in {"closing", "gone"} => workers'[d][h] \in {"closing", "gone"}

\* A stop in progress is about a worker that is being terminated, no worker
\* is newer than entry.host, and a run that is still building its options
\* has a worker of its own that nobody has started.
StopHolds(d) ==
  /\ stopper[d] # "idle" => stopHost[d] <= host[d]
  /\ stopper[d] \in {"stopping", "again"} =>
       stopHost[d] # 0 /\ workers[d][stopHost[d]] \in {"closing", "gone"}
  /\ \A r \in Runs : runHost[d][r] <= host[d]
  /\ \A r \in Runs : pc[d][r] = "options" =>
       runHost[d][r] # 0 /\ workers[d][runHost[d][r]] = "new"
  /\ \A r, s \in Runs :
       pc[d][r] = "options" /\ pc[d][s] = "options" /\ runHost[d][r] = runHost[d][s] => r = s

StopsHold == \A d \in Delegations : StopHolds(d)

LEMMA AfterStopKeeps ==
  ASSUME NEW ws \in [Hosts -> WorkerStates], NEW k \in 0..MaxHosts, NEW h \in Hosts
  PROVE  /\ ws[h] \notin {"booting", "up"} => AfterStop(ws, k)[h] = ws[h]
         /\ ws[h] \in {"booting", "up"} => AfterStop(ws, k)[h] = IF h = k THEN "closing" ELSE ws[h]
<1>1. CASE k = 0
  BY <1>1, ParametersAssumption DEF AfterStop, Hosts
<1>2. CASE k # 0 /\ h # k
  BY <1>2 DEF AfterStop
<1>3. CASE k # 0 /\ h = k
  BY <1>3 DEF AfterStop, IsRunning
<1>4. QED
  BY <1>1, <1>2, <1>3

\* A step of another delegation, or one that neither creates a worker nor
\* moves a run or a stop.
LEMMA StopHoldsFrame ==
  ASSUME TypeOK, NEW d \in Delegations, StopHolds(d), \A h \in Hosts : Keeps(d, h),
         host'[d] = host[d],
         \A r \in Runs : /\ pc'[d][r] = "options" => pc[d][r] = "options"
                         /\ runHost'[d][r] = runHost[d][r],
         \/ stopper'[d] = "idle"
         \/ UNCHANGED <<stopper[d], stopHost[d]>>
  PROVE  StopHolds(d)'
<1>1. \A r \in Runs : runHost[d][r] \in 0..MaxHosts
  BY DEF TypeOK, RunTypes
<1>2. stopHost[d] \in 0..MaxHosts /\ host[d] \in 0..MaxHosts
  BY DEF TypeOK, EntryTypes, StopTypes
<1>3. \A k \in 0..MaxHosts : k # 0 => k \in Hosts
  BY ParametersAssumption DEF Hosts
<1>4. QED
  BY <1>1, <1>2, <1>3 DEF StopHolds, Keeps

\* A worker is created for run r of a delegation.
LEMMA StopHoldsCreate ==
  ASSUME TypeOK, NEW d \in Delegations, StopHolds(d), NEW r \in Runs,
         host[d] < MaxHosts, host'[d] = host[d] + 1,
         pc'[d] = [pc[d] EXCEPT ![r] = "options"],
         runHost'[d] = [runHost[d] EXCEPT ![r] = host[d] + 1],
         workers'[d][host[d] + 1] = "new",
         \A h \in Hosts \ {host[d] + 1} : Keeps(d, h),
         UNCHANGED <<stopper[d], stopHost[d]>>
  PROVE  StopHolds(d)'
<1>1. \A s \in Runs : runHost[d][s] \in 0..MaxHosts
  BY DEF TypeOK, RunTypes
<1>2. stopHost[d] \in 0..MaxHosts /\ host[d] \in 0..MaxHosts
  BY DEF TypeOK, EntryTypes, StopTypes
<1>3. \A k \in 0..MaxHosts : k # 0 => k \in Hosts
  BY ParametersAssumption DEF Hosts
<1>4. \A s \in Runs : /\ s # r => pc'[d][s] = pc[d][s] /\ runHost'[d][s] = runHost[d][s]
                      /\ s = r => pc'[d][s] = "options" /\ runHost'[d][s] = host[d] + 1
  BY DEF TypeOK, RunTypes
<1>5. (\A s \in Runs : runHost[d][s] <= host[d])'
  BY <1>1, <1>2, <1>4, ParametersAssumption DEF StopHolds
<1>6. (\A s \in Runs : pc[d][s] = "options" => runHost[d][s] # 0 /\ workers[d][runHost[d][s]] = "new")'
  BY <1>1, <1>2, <1>3, <1>4, ParametersAssumption DEF StopHolds, Keeps
<1>7. (\A s, t \in Runs :
         pc[d][s] = "options" /\ pc[d][t] = "options" /\ runHost[d][s] = runHost[d][t] => s = t)'
  BY <1>1, <1>2, <1>4, ParametersAssumption DEF StopHolds
<1>8. (stopper[d] # "idle" => stopHost[d] <= host[d])'
  BY <1>2, ParametersAssumption DEF StopHolds
<1>9. (stopper[d] \in {"stopping", "again"} =>
         stopHost[d] # 0 /\ workers[d][stopHost[d]] \in {"closing", "gone"})'
  BY <1>2, <1>3, ParametersAssumption DEF StopHolds, Keeps
<1>10. QED
  BY <1>5, <1>6, <1>7, <1>8, <1>9 DEF StopHolds

\* stopHost(k) was called.
LEMMA StopKeeps ==
  ASSUME TypeOK, NEW d \in Delegations, NEW k \in 0..MaxHosts,
         workers'[d] = AfterStop(workers[d], k), NEW h \in Hosts
  PROVE  Keeps(d, h)
<1>1. workers[d] \in [Hosts -> WorkerStates]
  BY DEF TypeOK, RunTypes
<1>2. workers[d][h] \notin {"booting", "up"} => workers'[d][h] = workers[d][h]
  BY <1>1, AfterStopKeeps
<1>3. QED
  BY <1>2 DEF Keeps

LEMMA SettleKeeps ==
  ASSUME TypeOK, NEW d \in Delegations, NEW outcome \in Terminal, Settle(d, outcome),
         NEW e \in Delegations, NEW h \in Hosts
  PROVE  Keeps(e, h)
<1> USE DEF TypeOK, EntryTypes, RunTypes
<1>1. CASE UNCHANGED workers
  BY <1>1 DEF Keeps
<1>2. CASE BeginFallback(d)
  BY <1>2, StopKeeps DEF BeginFallback, Keeps
<1>3. QED
  BY <1>1, <1>2 DEF Settle, Finish

\* The steps that neither create a worker nor start one.
LEMMA RunStepHolds ==
  ASSUME TypeOK, StopsHold, NEW d \in Delegations, NEW r \in Runs,
         RunStep(d, r) \/ BecomesIdle(d, r) \/ TurnLimit(d, r)
  PROVE  StopsHold'
<1> SUFFICES ASSUME NEW e \in Delegations PROVE StopHolds(e)'
  BY DEF StopsHold
<1> USE DEF TypeOK, EntryTypes, RunTypes
<1>0. StopHolds(d) /\ StopHolds(e) /\ runHost[d][r] \in 0..MaxHosts
  BY DEF StopsHold
<1>1. ASSUME NEW label, label # "options", Goto(d, r, label),
             UNCHANGED <<host, runHost, stopVars>>, \A h \in Hosts : Keeps(e, h)
      PROVE  StopHolds(e)'
  <2>1. \A s \in Runs : pc'[e][s] = "options" => pc[e][s] = "options"
    BY <1>1 DEF Goto
  <2>2. QED
    BY <1>0, <1>1, <2>1, StopHoldsFrame DEF stopVars
<1>2. CASE Judge(d, r) \/ NudgeFails(d, r) \/ SettleStopped(d, r)
  <2>1. \E outcome \in Terminal : Settle(d, outcome)
    BY <1>2 DEF Judge, NudgeFails, SettleStopped, Terminal
  <2>2. \A h \in Hosts : Keeps(e, h)
    BY <2>1, SettleKeeps
  <2>3. QED
    BY <1>1, <1>2, <2>2 DEF Judge, NudgeFails, SettleStopped
<1>3. CASE Abandon(d, r) \/ UndoDone(d, r) \/ Nudge(d, r) \/ TurnLimit(d, r)
  <2>1. \A h \in Hosts : Keeps(e, h)
    BY <1>3 DEF Abandon, UndoDone, Nudge, TurnLimit, Keeps
  <2>2. QED
    BY <1>1, <1>3, <2>1 DEF Abandon, UndoDone, Nudge, TurnLimit, entryVars
<1>4. CASE Advance(d, r) \/ BecomesIdle(d, r)
  <2>1. \A h \in Hosts : Keeps(e, h)
    BY <1>4 DEF Advance, BecomesIdle, Keeps
  <2>2. /\ UNCHANGED <<host, runHost, stopVars>>
        /\ \E label \in {"prompt", "idle", "nudgeIdle", "messages", "nudgeMessages"} : Goto(d, r, label)
    BY <1>4 DEF Advance, BecomesIdle, entryVars
  <2>3. QED
    BY <1>1, <2>1, <2>2
<1>5. CASE PrepareFails(d, r) \/ RunFails(d, r) \/ BestEffortRead(d, r) \/ StartFails(d, r)
  <2>1. /\ UNCHANGED <<host, runHost, stopVars>>
        /\ \E label \in {"failing", "truncating", "undo"} : Goto(d, r, label)
        /\ workers' = [workers EXCEPT ![d] = AfterStop(@, runHost[d][r])]
    BY <1>5 DEF PrepareFails, RunFails, BestEffortRead, StartFails, FailRun, Fail, entryVars
  <2>2. \A h \in Hosts : Keeps(e, h)
    BY <1>0, <2>1, StopKeeps DEF Keeps
  <2>3. QED
    BY <1>1, <2>1, <2>2
<1>6. CASE StartDone(d, r)
  <2>1. /\ UNCHANGED <<host, runHost, stopVars>>
        /\ \E label \in {"failing", "baseline", "undo"} : Goto(d, r, label)
        /\ workers[d][runHost[d][r]] = "booting"
        /\ \/ workers' = [workers EXCEPT ![d][runHost[d][r]] = "up"]
           \/ workers' = [workers EXCEPT ![d] = AfterStop(@, runHost[d][r])]
    BY <1>6 DEF StartDone, Fail
  <2>2. \A h \in Hosts : Keeps(e, h)
    <3>1. CASE workers' = [workers EXCEPT ![d][runHost[d][r]] = "up"]
      BY <2>1, <3>1 DEF Keeps
    <3>2. CASE workers' = [workers EXCEPT ![d] = AfterStop(@, runHost[d][r])]
      BY <1>0, <3>2, StopKeeps DEF Keeps
    <3>3. QED
      BY <2>1, <3>1, <3>2
  <2>3. QED
    BY <1>1, <2>1, <2>2
<1>7. CASE OptionsBuilt(d, r)
  <2>1. /\ UNCHANGED <<host, runHost, stopper, stopHost>>
        /\ pc[d][r] = "options"
        /\ pc' = [pc EXCEPT ![d][r] = "startup"]
        /\ workers' = [workers EXCEPT ![d][runHost[d][r]] = "preparing"]
    BY <1>7 DEF OptionsBuilt, Goto, entryVars, stopVars
  <2>2. CASE e # d
    <3>1. \A h \in Hosts : Keeps(e, h)
      BY <2>1, <2>2 DEF Keeps
    <3>2. \A s \in Runs : pc'[e][s] = "options" => pc[e][s] = "options"
      BY <2>1, <2>2
    <3>3. QED
      BY <1>0, <2>1, <3>1, <3>2, StopHoldsFrame
  <2>3. CASE e = d
    <3>1. runHost[d][r] # 0 /\ workers[d][runHost[d][r]] = "new"
      BY <1>0, <2>1 DEF StopHolds
    <3>2. \A h \in 0..MaxHosts : h # runHost[d][r] => workers'[d][h] = workers[d][h]
      BY <2>1
    <3>3. stopHost[d] \in 0..MaxHosts
      BY DEF StopTypes
    <3>4. \A s \in Runs : pc'[d][s] = "options" => pc[d][s] = "options" /\ s # r
      BY <2>1
    <3>5. QED
      BY <1>0, <2>1, <2>3, <3>1, <3>2, <3>3, <3>4 DEF StopHolds
  <2>4. QED
    BY <2>2, <2>3
<1>8. CASE DefinitionLoaded(d, r)
  <2>1. /\ host[d] < MaxHosts
        /\ pc' = [pc EXCEPT ![d][r] = "options"]
        /\ host' = [host EXCEPT ![d] = @ + 1]
        /\ runHost' = [runHost EXCEPT ![d][r] = host[d] + 1]
        /\ workers' = [workers EXCEPT ![d][host[d] + 1] = "new"]
        /\ UNCHANGED <<stopper, stopHost>>
    BY <1>8 DEF DefinitionLoaded, CreateWorker, Goto, stopVars
  <2>2. CASE e # d
    BY <1>0, <2>1, <2>2, StopHoldsFrame DEF Keeps
  <2>3. CASE e = d
    <3>1. host[d] + 1 \in Hosts
      BY <2>1, ParametersAssumption DEF Hosts
    <3>2. \A h \in Hosts \ {host[d] + 1} : Keeps(d, h)
      BY <2>1, <3>1 DEF Keeps
    <3>3. QED
      BY <1>0, <2>1, <2>3, <3>1, <3>2, StopHoldsCreate
  <2>4. QED
    BY <2>2, <2>3
<1>9. QED
  BY <1>2, <1>3, <1>4, <1>5, <1>6, <1>7, <1>8 DEF RunStep

LEMMA StartHolds ==
  ASSUME TypeOK, RecordedIffRun, StopsHold, NEW d \in Delegations,
         StartReserve(d) \/ StartCommit(d) \/ StartReject(d)
  PROVE  StopsHold'
<1> SUFFICES ASSUME NEW e \in Delegations PROVE StopHolds(e)'
  BY DEF StopsHold
<1> USE DEF TypeOK, EntryTypes, RunTypes
<1>0. StopHolds(d) /\ StopHolds(e)
  BY DEF StopsHold
<1>1. CASE StartReserve(d) \/ StartReject(d)
  <2>1. UNCHANGED <<entryVars, runVars, stopVars>>
    BY <1>1 DEF StartReserve, StartReject
  <2>2. QED
    BY <1>0, <2>1 DEF StopHolds, entryVars, runVars, stopVars
<1>2. CASE StartCommit(d)
  <2>1. PICK gone \in SUBSET Delegations :
          workers' = [EvictedWorkers(gone) EXCEPT ![d][1] = "new"]
    BY <1>2 DEF StartCommit
  <2>2. /\ host[d] < MaxHosts
        /\ pc' = [pc EXCEPT ![d][1] = "options"]
        /\ host' = [host EXCEPT ![d] = @ + 1]
        /\ runHost' = [runHost EXCEPT ![d][1] = host[d] + 1]
        /\ UNCHANGED <<stopper, stopHost>>
        /\ starter[d] = "loading"
    BY <1>2 DEF StartCommit, Launch, stopVars
  <2>3. host[d] = 0 /\ 1 \in Hosts /\ 1 \in Runs
    <3>1. starter[d] # "used"
      BY <2>2
    <3>2. host[d] = 0
      BY <3>1 DEF RecordedIffRun, Recorded, Untouched
    <3>3. QED
      BY <2>2, <3>2, ParametersAssumption DEF Runs, Hosts
  <2>4. CASE e # d
    <3>1. workers'[e] = workers[e] \/ workers'[e] = AfterStop(workers[e], host[e])
      BY <2>1, <2>4 DEF EvictedWorkers
    <3>2. \A h \in Hosts : Keeps(e, h)
      BY <3>1, StopKeeps DEF Keeps
    <3>3. QED
      BY <1>0, <2>2, <2>4, <3>2, StopHoldsFrame
  <2>5. CASE e = d
    <3>1. EvictedWorkers(gone)[d] = workers[d]
      BY <2>3 DEF EvictedWorkers, AfterStop
    <3>2. workers'[d] = [workers[d] EXCEPT ![1] = "new"]
      BY <2>1, <3>1 DEF EvictedWorkers
    <3>3. workers'[d][host[d] + 1] = "new" /\ \A h \in Hosts \ {host[d] + 1} : Keeps(d, h)
      BY <2>3, <3>2 DEF Keeps
    <3>4. QED
      BY <1>0, <2>2, <2>3, <2>5, <3>3, StopHoldsCreate
  <2>6. QED
    BY <2>4, <2>5
<1>3. QED
  BY <1>1, <1>2

\* Here terminating a worker has to succeed: a worker that came back to life
\* would be one nobody is stopping any more.
LEMMA WorkerHolds ==
  ASSUME ~StopMayFail, TypeOK, StopsHold, NEW d \in Delegations, NEW k \in Hosts,
         WorkerStep(d, k) \/ WorkerExit(d, k)
  PROVE  StopsHold'
<1> SUFFICES ASSUME NEW e \in Delegations PROVE StopHolds(e)'
  BY DEF StopsHold
<1>1. /\ UNCHANGED <<host, runHost, pc, stopper, stopHost>>
      /\ \E w \in {"booting", "gone"} : workers' = [workers EXCEPT ![d][k] = w]
      /\ workers[d][k] \in {"preparing", "booting", "up", "closing"}
      /\ workers[d][k] = "closing" => workers'[d][k] = "gone"
  <2>1. CASE Spawn(d, k)
    BY <2>1 DEF Spawn, entryVars, stopVars
  <2>2. CASE WorkerExit(d, k)
    BY <2>2 DEF WorkerExit, IsRunning, entryVars, stopVars
  <2>3. CASE CloseWorker(d, k)
    <3>1. workers' = [workers EXCEPT ![d][k] = "gone"] /\ workers[d][k] = "closing"
      BY <2>3 DEF CloseWorker
    <3>2. QED
      BY <2>3, <3>1 DEF CloseWorker, TypeOK, RunTypes, entryVars, stopVars
  <2>4. QED
    BY <2>1, <2>2, <2>3 DEF WorkerStep
<1>2. \A h \in Hosts : Keeps(e, h)
  BY <1>1 DEF Keeps, TypeOK, RunTypes
<1>3. QED
  BY <1>1, <1>2, StopHoldsFrame DEF StopsHold

LEMMA FallbackHolds ==
  ASSUME TypeOK, RecordedIffRun, StopsHold, NEW d \in Delegations, FallbackStep(d)
  PROVE  StopsHold'
<1> SUFFICES ASSUME NEW e \in Delegations PROVE StopHolds(e)'
  BY DEF StopsHold
<1> USE DEF TypeOK, EntryTypes, RunTypes
<1>0. StopHolds(d) /\ StopHolds(e)
  BY DEF StopsHold
<1>1. CASE UNCHANGED <<host, runVars, stopVars>>
  BY <1>0, <1>1 DEF StopHolds, runVars, stopVars
<1>2. CASE /\ FallbackRead(d)
           /\ Live(d, fallbackRun[d]) /\ status[d] \in Active
           /\ Launch(d, fallbackRun[d])
           /\ workers' = [workers EXCEPT ![d][host[d] + 1] = "new"]
  <2>1. fallbackRun[d] \in Runs
    BY <1>2 DEF Live, RecordedIffRun, Recorded, Active
  <2>2. /\ host[d] < MaxHosts
        /\ pc' = [pc EXCEPT ![d][fallbackRun[d]] = "options"]
        /\ host' = [host EXCEPT ![d] = @ + 1]
        /\ runHost' = [runHost EXCEPT ![d][fallbackRun[d]] = host[d] + 1]
        /\ UNCHANGED <<stopper, stopHost>>
    BY <1>2 DEF FallbackRead, Launch, stopVars
  <2>3. CASE e # d
    BY <1>0, <1>2, <2>2, <2>3, StopHoldsFrame DEF Keeps
  <2>4. CASE e = d
    <3>1. host[d] + 1 \in Hosts
      BY <2>2, ParametersAssumption DEF Hosts
    <3>2. workers'[d][host[d] + 1] = "new" /\ \A h \in Hosts \ {host[d] + 1} : Keeps(d, h)
      BY <1>2, <3>1 DEF Keeps
    <3>3. QED
      BY <1>0, <2>1, <2>2, <2>4, <3>2, StopHoldsCreate
  <2>5. QED
    BY <2>3, <2>4
<1>3. QED
  BY <1>1, <1>2 DEF FallbackStep, FallbackStopped, FallbackRead

LEMMA ContinueHolds ==
  ASSUME TypeOK, StopsHold, NEW d \in Delegations, Continue(d)
  PROVE  StopsHold'
<1> SUFFICES ASSUME NEW e \in Delegations PROVE StopHolds(e)'
  BY DEF StopsHold
<1> USE DEF TypeOK, EntryTypes, RunTypes
<1> DEFINE r == run[d] + 1
<1>0. StopHolds(d) /\ StopHolds(e) /\ r \in Runs /\ UNCHANGED <<stopper, stopHost>>
  BY DEF StopsHold, Continue, stopVars
<1>1. CASE /\ \E label \in {"definition", "baseline"} : Goto(d, r, label)
           /\ runHost' = [runHost EXCEPT ![d][r] = host[d]]
           /\ UNCHANGED <<host, workers>>
  <2>1. \A s \in Runs : pc'[e][s] = "options" => pc[e][s] = "options" /\ runHost'[e][s] = runHost[e][s]
    BY <1>0, <1>1 DEF Goto
  <2>2. \A s \in Runs : runHost'[e][s] = runHost[e][s] \/ (e = d /\ runHost'[e][s] = host[e])
    BY <1>0, <1>1
  <2>3. QED
    BY <1>0, <1>1, <2>1, <2>2, ParametersAssumption DEF StopHolds
<1>2. CASE CreateWorker(d, r)
  <2>1. /\ host[d] < MaxHosts
        /\ pc' = [pc EXCEPT ![d][r] = "options"]
        /\ host' = [host EXCEPT ![d] = @ + 1]
        /\ runHost' = [runHost EXCEPT ![d][r] = host[d] + 1]
        /\ workers' = [workers EXCEPT ![d][host[d] + 1] = "new"]
    BY <1>2 DEF CreateWorker, Goto
  <2>2. CASE e # d
    BY <1>0, <2>1, <2>2, StopHoldsFrame DEF Keeps
  <2>3. CASE e = d
    <3>1. host[d] + 1 \in Hosts
      BY <2>1, ParametersAssumption DEF Hosts
    <3>2. workers'[d][host[d] + 1] = "new" /\ \A h \in Hosts \ {host[d] + 1} : Keeps(d, h)
      BY <2>1, <3>1 DEF Keeps
    <3>3. QED
      BY <1>0, <2>1, <2>3, <3>2, StopHoldsCreate
  <2>4. QED
    BY <2>2, <2>3
<1>3. QED
  BY <1>1, <1>2 DEF Continue

LEMMA StopEntriesHolds ==
  ASSUME TypeOK, StopsHold, NEW ids \in SUBSET Delegations, NEW ws \in SUBSET Delegations,
         Stoppable(ids) \subseteq ws,
         NEW outcome, StopEntries(ids, outcome), workers' = StoppedWorkers(ws),
         UNCHANGED <<host, pc, runHost>>
  PROVE  StopsHold'
<1> SUFFICES ASSUME NEW e \in Delegations PROVE StopHolds(e)'
  BY DEF StopsHold
<1> USE DEF TypeOK, EntryTypes, RunTypes
<1>0. StopHolds(e) /\ host[e] \in 0..MaxHosts /\ workers[e] \in [Hosts -> WorkerStates]
  BY DEF StopsHold
<1>1. workers'[e] = workers[e] \/ workers'[e] = AfterStop(workers[e], host[e])
  BY DEF StoppedWorkers
<1>2. \A h \in Hosts : Keeps(e, h)
  BY <1>1, StopKeeps DEF Keeps
<1>3. CASE e \notin Stoppable(ids)
  <2>1. UNCHANGED <<stopper[e], stopHost[e]>>
    BY <1>3 DEF StopEntries
  <2>2. QED
    BY <1>0, <1>2, <2>1, StopHoldsFrame
<1>4. CASE e \in Stoppable(ids)
  <2>1. /\ stopHost'[e] = host[e]
        /\ workers'[e] = AfterStop(workers[e], host[e])
        /\ stopper'[e] = IF host[e] # 0 /\ workers[e][host[e]] \in {"booting", "up", "closing"}
                         THEN "stopping" ELSE "starting"
    BY <1>4 DEF StopEntries, StoppedWorkers
  <2>2. host[e] # 0 => host[e] \in Hosts
    BY <1>0, ParametersAssumption DEF Hosts
  <2>3. stopper'[e] = "stopping" => host[e] # 0 /\ workers'[e][host[e]] = "closing"
    <3> SUFFICES ASSUME stopper'[e] = "stopping" PROVE host[e] # 0 /\ workers'[e][host[e]] = "closing"
      OBVIOUS
    <3>1. host[e] # 0 /\ workers[e][host[e]] \in {"booting", "up", "closing"}
      BY <2>1
    <3>2. AfterStop(workers[e], host[e])[host[e]] = "closing"
      BY <1>0, <2>2, <3>1 DEF AfterStop, IsRunning
    <3>3. QED
      BY <2>1, <3>1, <3>2
  <2>4. \A r \in Runs : runHost[e][r] \in 0..MaxHosts /\ (runHost[e][r] # 0 => runHost[e][r] \in Hosts)
    BY ParametersAssumption DEF Hosts
  <2>5. QED
    BY <1>0, <1>2, <2>1, <2>3, <2>4, ParametersAssumption DEF StopHolds, Keeps
<1>5. QED
  BY <1>3, <1>4

LEMMA UserStopHolds ==
  ASSUME TypeOK, StopsHold
  PROVE  /\ \A d \in Delegations : StopOne(d) => StopsHold'
         /\ \A p \in Parents : StopParent(p) \/ ResumeParent(p) => StopsHold'
         /\ StopAll => StopsHold'
<1>0. \A ids : Stoppable(ids) \subseteq ids
  BY DEF Stoppable
<1>1. ASSUME NEW d \in Delegations, StopOne(d) PROVE StopsHold'
  <2>1. Stoppable({d}) \in SUBSET Delegations
    BY <1>0
  <2>2. QED
    BY <1>1, <2>1, StopEntriesHolds DEF StopOne
<1>2. ASSUME NEW p \in Parents, StopParent(p) PROVE StopsHold'
  <2> DEFINE children == {d \in Delegations : ParentOf[d] = p}
  <2>1. /\ StopEntries(children, "cancelled")
        /\ workers' = StoppedWorkers(Stoppable(children))
        /\ UNCHANGED <<host, pc, runHost>>
    BY <1>2 DEF StopParent
  <2>2. Stoppable(children) \in SUBSET Delegations
    BY <1>0
  <2>3. QED
    BY <2>1, <2>2, StopEntriesHolds
<1>3. ASSUME NEW p \in Parents, ResumeParent(p) PROVE StopsHold'
  BY <1>3 DEF ResumeParent, StopsHold, StopHolds, entryVars, runVars, stopVars
<1>4. ASSUME StopAll PROVE StopsHold'
  <2> DEFINE known == {d \in Delegations : resident[d]}
             ws == Stoppable(known) \cup {d \in known : status[d] \in Terminal}
  <2>1. /\ StopEntries(known, "interrupted")
        /\ workers' = StoppedWorkers(ws)
        /\ UNCHANGED <<host, pc, runHost>>
    BY <1>4 DEF StopAll
  <2>2. known \in SUBSET Delegations /\ ws \in SUBSET Delegations /\ Stoppable(known) \subseteq ws
    BY <1>0
  <2>3. QED
    BY <2>1, <2>2, StopEntriesHolds
<1>5. QED
  BY <1>1, <1>2, <1>3, <1>4

LEMMA StopStepHolds ==
  ASSUME TypeOK, StopsHold, NEW d \in Delegations, StopStep(d)
  PROVE  StopsHold'
<1> SUFFICES ASSUME NEW e \in Delegations PROVE StopHolds(e)'
  BY DEF StopsHold
<1> USE DEF TypeOK, EntryTypes, RunTypes, StopTypes
<1>0. StopHolds(d) /\ StopHolds(e) /\ stopHost[d] \in 0..MaxHosts
  BY DEF StopsHold
<1>1. CASE StopRejected(d) \/ StopHostDone(d)
  BY <1>0, <1>1 DEF StopHolds, StopRejected, StopHostDone, entryVars, runVars
<1>2. CASE StartingOver(d)
  <2>1. /\ UNCHANGED <<host, pc, runHost, stopHost>>
        /\ stopper' = [stopper EXCEPT ![d] = "again"]
        /\ workers' = [workers EXCEPT ![d] = AfterStop(@, stopHost[d])]
        /\ stopper[d] = "starting" /\ stopHost[d] # 0
        /\ workers[d][stopHost[d]] \in {"booting", "up"}
    BY <1>2 DEF StartingOver, IsRunning, entryVars
  <2>2. \A h \in Hosts : Keeps(e, h)
    BY <1>0, <2>1, StopKeeps DEF Keeps
  <2>3. CASE e # d
    BY <1>0, <2>1, <2>2, <2>3, StopHoldsFrame
  <2>4. CASE e = d
    <3>1. stopHost[d] \in Hosts
      BY <1>0, <2>1, ParametersAssumption DEF Hosts
    <3>2. workers'[d][stopHost[d]] = "closing"
      <4>1. workers[d] \in [Hosts -> WorkerStates] /\ workers'[d] = AfterStop(workers[d], stopHost[d])
        BY <2>1
      <4>2. workers[d][stopHost[d]] \in {"booting", "up"} /\ stopHost[d] \in 0..MaxHosts
        BY <1>0, <2>1
      <4> HIDE DEF TypeOK, EntryTypes, RunTypes, StopTypes
      <4>3. QED
        BY SMTT(30), <3>1, <4>1, <4>2, AfterStopKeeps
    <3>3. \A r \in Runs : runHost[d][r] \in 0..MaxHosts /\ (runHost[d][r] # 0 => runHost[d][r] \in Hosts)
      BY ParametersAssumption DEF Hosts
    <3>4. QED
      BY <1>0, <2>1, <2>2, <2>4, <3>2, <3>3 DEF StopHolds, Keeps
  <2>5. QED
    BY <2>3, <2>4
<1>3. CASE StopSettles(d)
  <2>1. stopStatus[d] \in Terminal /\ Settle(d, stopStatus[d])
    BY <1>3 DEF StopSettles, Terminal
  <2>2. \A h \in Hosts : Keeps(e, h)
    BY <2>1, SettleKeeps
  <2>3. QED
    BY <1>0, <1>3, <2>2, StopHoldsFrame DEF StopSettles
<1>4. QED
  BY <1>1, <1>2, <1>3 DEF StopStep

LEMMA RestartHolds ==
  ASSUME TypeOK, StopsHold
  PROVE  /\ Restart => StopsHold'
         /\ \A d \in Delegations : ReconcileNext(d) => StopsHold'
         /\ \A d \in Delegations, found \in BOOLEAN : ReconcileRead(d, found) => StopsHold'
<1>1. Restart => StopsHold'
  BY DEF Restart, StopsHold, StopHolds
<1>2. \A d \in Delegations : ReconcileNext(d) => StopsHold'
  BY DEF ReconcileNext, StopsHold, StopHolds, entryVars, runVars, stopVars
<1>3. \A d \in Delegations, found \in BOOLEAN : ReconcileRead(d, found) => StopsHold'
  BY DEF ReconcileRead, StopsHold, StopHolds, runVars, stopVars
<1>4. QED
  BY <1>1, <1>2, <1>3

\* While a stop waits for a worker, nothing starts that worker again.
THEOREM StopsAreKept == ASSUME ~StopMayFail PROVE Spec => []StopsHold
<1>1. Init => StopsHold
  BY DEF Init, StopsHold, StopHolds
<1>2. TypeOK /\ RecordedIffRun /\ StopsHold /\ [Next]_vars => StopsHold'
  <2> SUFFICES ASSUME TypeOK, RecordedIffRun, StopsHold, [Next]_vars PROVE StopsHold'
    OBVIOUS
  <2>1. CASE UNCHANGED vars
    BY <2>1 DEF StopsHold, StopHolds, vars, entryVars, runVars, stopVars
  <2>2. CASE Next
    BY <2>2, StartHolds, RunStepHolds, WorkerHolds, FallbackHolds, ContinueHolds, UserStopHolds,
       StopStepHolds, RestartHolds
    DEF Next, StartStep
  <2>3. QED
    BY <2>1, <2>2
<1>3. QED
  BY <1>1, <1>2, TypeCorrect, RecordsCorrect, PTL DEF Spec

-----------------------------------------------------------------------------
(* A stopped parent drains.                                                *)

\* What settling does to a record that is not terminal yet.
LEMMA SettleEffect ==
  ASSUME TypeOK, NEW d \in Delegations, NEW outcome \in Terminal, Settle(d, outcome)
  PROVE  /\ status[d] \in Terminal =>
              UNCHANGED <<status[d], aborted[d], fallback[d], fallbackRun[d]>>
         /\ status[d] \notin Terminal =>
              \/ status'[d] = outcome /\ aborted'[d]
              \/ /\ UNCHANGED <<status[d], aborted[d]>>
                 /\ outcome = "failed" /\ fallback'[d] = "stopping" /\ fallbackRun'[d] = run[d]
BY DEF Settle, BeginFallback, Finish, fallbackVars, TypeOK, EntryTypes, FallbackTypes

\* The stop of an active delegation only ends in a terminal status.
LEMMA StopEnds ==
  ASSUME TypeOK, StopsHold, Next, NEW e \in Delegations, status[e] \in Active,
         stopper[e] # "idle", stopper'[e] = "idle"
  PROVE  status'[e] \notin Active
<1> USE DEF TypeOK, EntryTypes, RunTypes, StopTypes
<1>1. ASSUME NEW d \in Delegations, StopStep(d) PROVE status'[e] \notin Active
  <2>1. StopHolds(d)
    BY DEF StopsHold
  <2>2. CASE StopRejected(d)
    BY <2>1, <2>2 DEF StopRejected, StopHolds
  <2>3. CASE StopHostDone(d) \/ StartingOver(d)
    BY <2>3 DEF StopHostDone, StartingOver
  <2>4. CASE StopSettles(d)
    <3>1. e = d
      BY <2>4 DEF StopSettles
    <3>2. stopStatus[d] \in {"cancelled", "interrupted"} /\ Settle(d, stopStatus[d])
      BY <2>4 DEF StopSettles
    <3>3. stopStatus[d] \in Terminal /\ status[d] \notin Terminal
      BY <3>1, <3>2 DEF Terminal, Active
    <3>4. status'[d] = stopStatus[d]
      BY <3>2, <3>3, SettleEffect
    <3>5. QED
      BY <3>1, <3>2, <3>4 DEF Active
  <2>5. QED
    BY <1>1, <2>2, <2>3, <2>4 DEF StopStep
<1>2. ASSUME NEW d \in Delegations, NEW r \in Runs, RunStep(d, r) \/ BecomesIdle(d, r) \/ TurnLimit(d, r)
      PROVE  UNCHANGED stopper
  BY <1>2
  DEF RunStep, BecomesIdle, TurnLimit, Abandon, PrepareFails, RunFails, FailRun, DefinitionLoaded,
      OptionsBuilt, StartDone, StartFails, UndoDone, Advance, Judge, Nudge, NudgeFails, BestEffortRead,
      SettleStopped, stopVars
<1>3. ASSUME NEW d \in Delegations, NEW h \in Hosts, WorkerStep(d, h) \/ WorkerExit(d, h)
      PROVE  UNCHANGED stopper
  BY <1>3 DEF WorkerStep, Spawn, CloseWorker, WorkerExit, stopVars
<1>4. ASSUME NEW d \in Delegations, FallbackStep(d) \/ Continue(d) \/ StartReserve(d) \/ StartStep(d)
      PROVE  UNCHANGED stopper
  BY <1>4
  DEF FallbackStep, FallbackStopped, FallbackRead, Continue, StartReserve, StartStep, StartCommit, StartReject, stopVars
<1>5. ASSUME NEW d \in Delegations, ReconcileNext(d) \/ \E found \in BOOLEAN : ReconcileRead(d, found)
      PROVE  UNCHANGED stopper
  BY <1>5 DEF ReconcileNext, ReconcileRead, stopVars
<1>6. ASSUME NEW ids, NEW outcome, StopEntries(ids, outcome) PROVE stopper'[e] # "idle"
  BY <1>6 DEF StopEntries
<1>7. CASE \/ \E d \in Delegations : StopOne(d)
           \/ \E p \in Parents : StopParent(p)
           \/ StopAll
  BY <1>6, <1>7 DEF StopOne, StopParent, StopAll
<1>8. ASSUME NEW p \in Parents, ResumeParent(p) PROVE UNCHANGED stopper
  BY <1>8 DEF ResumeParent, stopVars
<1>9. CASE Restart
  BY <1>9 DEF Restart, Hydrated, Active
<1>10. QED
  BY <1>1, <1>2, <1>3, <1>4, <1>5, <1>7, <1>8, <1>9 DEF Next

\* A parent is only paused by a stop that reaches all its active entries.
LEMMA PauseReaches ==
  ASSUME TypeOK, Next, NEW p \in Parents, p \notin paused, p \in paused',
         NEW d \in ActiveOf(p)
  PROVE  stopper'[d] # "idle"
<1>0. d \in Delegations /\ ParentOf[d] = p /\ resident[d] /\ status[d] \in Active
  BY DEF ActiveOf
<1>1. ASSUME NEW ids \in SUBSET Delegations, NEW outcome, StopEntries(ids, outcome), d \in ids
      PROVE  stopper'[d] # "idle"
  BY <1>0, <1>1 DEF StopEntries, Stoppable
<1>2. ASSUME NEW q \in Parents, StopParent(q) PROVE stopper'[d] # "idle"
  <2> DEFINE children == {c \in Delegations : ParentOf[c] = q}
  <2>1. p = q /\ StopEntries(children, "cancelled")
    BY <1>2 DEF StopParent
  <2>2. QED
    BY <1>0, <1>1, <2>1
<1>3. ASSUME StopAll PROVE stopper'[d] # "idle"
  <2> DEFINE known == {c \in Delegations : resident[c]}
  <2>1. StopEntries(known, "interrupted")
    BY <1>3 DEF StopAll
  <2>2. QED
    BY <1>0, <1>1, <2>1
<1>4. ASSUME NEW q \in Parents, ResumeParent(q) PROVE FALSE
  BY <1>4 DEF ResumeParent
<1>5. Restart => FALSE
  BY DEF Restart
<1>6. ASSUME NEW c \in Delegations, StartReserve(c) \/ StartStep(c) \/ FallbackStep(c) \/ Continue(c)
                 \/ StopOne(c) \/ StopStep(c) \/ ReconcileNext(c) \/ \E found \in BOOLEAN : ReconcileRead(c, found)
      PROVE  UNCHANGED paused
  BY <1>6
  DEF StartReserve, StartStep, StartCommit, StartReject, FallbackStep, FallbackStopped, FallbackRead, Continue,
      StopOne, StopStep, StopRejected, StopHostDone, StartingOver, StopSettles, ReconcileNext, ReconcileRead, parentVars
<1>7. ASSUME NEW c \in Delegations, NEW r \in Runs, RunStep(c, r) \/ BecomesIdle(c, r) \/ TurnLimit(c, r)
      PROVE  UNCHANGED paused
  BY <1>7
  DEF RunStep, BecomesIdle, TurnLimit, Abandon, PrepareFails, RunFails, FailRun, DefinitionLoaded,
      OptionsBuilt, StartDone, StartFails, UndoDone, Advance, Judge, Nudge, NudgeFails, BestEffortRead,
      SettleStopped, parentVars
<1>8. ASSUME NEW c \in Delegations, NEW h \in Hosts, WorkerStep(c, h) \/ WorkerExit(c, h)
      PROVE  UNCHANGED paused
  BY <1>8 DEF WorkerStep, Spawn, CloseWorker, WorkerExit, parentVars
<1>9. QED
  BY <1>2, <1>3, <1>4, <1>5, <1>6, <1>7, <1>8 DEF Next

LEMMA DrainStep ==
  ASSUME TypeOK, RecordedIffRun, StopsHold, PausedParentDrains, [Next]_vars
  PROVE  PausedParentDrains'
<1>1. CASE UNCHANGED vars
  BY <1>1 DEF PausedParentDrains, ActiveOf, vars, entryVars, stopVars, parentVars
<1>2. CASE Next
  <2> SUFFICES ASSUME NEW p \in paused', NEW d \in ActiveOf(p)', stopper'[d] = "idle" PROVE FALSE
    BY DEF PausedParentDrains
  <2>1. d \in Delegations /\ ParentOf[d] = p /\ p \in Parents /\ resident'[d] /\ status'[d] \in Active
    BY ParametersAssumption DEF ActiveOf
  <2>2. ~StartCommit(d) /\ ~Continue(d)
    BY <2>1 DEF StartCommit, Continue, MayContinue, parentVars
  <2>3. d \in ActiveOf(p) /\ status[d] \in Active
    BY <1>2, <2>1, <2>2, Activation DEF ActiveOf
  <2>4. CASE p \in paused
    BY <1>2, <2>1, <2>3, <2>4, StopEnds DEF PausedParentDrains
  <2>5. CASE p \notin paused
    BY <1>2, <2>1, <2>3, <2>5, PauseReaches
  <2>6. QED
    BY <2>4, <2>5
<1>3. QED
  BY <1>1, <1>2

\* Once stopParent or stopAll has run, and until the parent's next turn,
\* every delegation of it that is not terminal has a stop in progress: no
\* start, continue or fallback that was under way slips through.
THEOREM StoppedParentDrains == ASSUME ~StopMayFail PROVE Spec => []PausedParentDrains
<1>1. Init => PausedParentDrains
  BY DEF Init, PausedParentDrains
<1>2. TypeOK /\ RecordedIffRun /\ StopsHold /\ PausedParentDrains /\ [Next]_vars => PausedParentDrains'
  BY DrainStep
<1>3. QED
  BY <1>1, <1>2, TypeCorrect, RecordsCorrect, StopsAreKept, PTL DEF Spec

-----------------------------------------------------------------------------
(* Nobody is left waiting for a record that nobody will settle.            *)

\* Either the signal of the current run is aborted and the stop that did so
\* is still going to settle it, or the coroutine of the run is under way, or
\* its fallback.  Only an aborted run is on its way to return unsettled.
Attended(d) ==
  /\ status[d] \in Active /\ aborted[d] => stopper[d] # "idle"
  /\ status[d] \in Active /\ ~aborted[d] =>
       \/ pc[d][run[d]] \in Working
       \/ fallback[d] # "idle" /\ fallbackRun[d] = run[d]
  /\ stopRequested[d] => aborted[d]
  /\ \A r \in Runs : pc[d][r] = "undo" /\ r = run[d] => aborted[d]

AllAttended == \A d \in Delegations : Attended(d)

LEMMA AttendedFrame ==
  ASSUME NEW d \in Delegations, Attended(d),
         UNCHANGED <<status[d], aborted[d], stopper[d], pc[d], run[d], fallback[d], fallbackRun[d], stopRequested[d]>>
  PROVE  Attended(d)'
BY DEF Attended

\* A coroutine moves on within its work, or returns because its run is over.
LEMMA AttendedMove ==
  ASSUME TypeOK, NEW d \in Delegations, Attended(d), NEW r \in Runs, NEW label \in Working \cup {"done"},
         pc'[d] = [pc[d] EXCEPT ![r] = label],
         label \in {"undo", "done"} => ~Live(d, r) \/ pc[d][r] = "undo",
         \/ UNCHANGED status[d]
         \/ Live(d, r) /\ status[d] \in Active /\ status'[d] \in Active,
         UNCHANGED <<aborted[d], stopper[d], run[d], fallback[d], fallbackRun[d], stopRequested[d]>>
  PROVE  Attended(d)'
<1> USE DEF TypeOK, EntryTypes, RunTypes
<1>1. \A s \in Runs : /\ s # r => pc'[d][s] = pc[d][s]
                      /\ s = r => pc'[d][s] = label
  OBVIOUS
<1>2. (status[d] \in Active /\ aborted[d] => stopper[d] # "idle")'
  BY DEF Attended
<1>3. (stopRequested[d] => aborted[d])'
  BY DEF Attended
<1>4. (\A s \in Runs : pc[d][s] = "undo" /\ s = run[d] => aborted[d])'
  BY <1>1 DEF Attended, Live
<1>5. (status[d] \in Active /\ ~aborted[d] =>
         pc[d][run[d]] \in Working \/ (fallback[d] # "idle" /\ fallbackRun[d] = run[d]))'
  <2>1. CASE run[d] = r
    BY <1>1, <2>1 DEF Attended, Live
  <2>2. CASE run[d] # r
    <3>1. pc'[d][run[d]] = pc[d][run[d]]
      BY <2>2
    <3>2. QED
      BY <2>2, <3>1 DEF Attended, Live
  <2>3. QED
    BY <2>1, <2>2
<1>6. QED
  BY <1>2, <1>3, <1>4, <1>5 DEF Attended

\* The live coroutine settles its run and returns.
LEMMA AttendedSettle ==
  ASSUME TypeOK, NEW d \in Delegations, Attended(d), NEW r \in Runs, NEW outcome \in Terminal,
         Live(d, r), Settle(d, outcome), pc'[d] = [pc[d] EXCEPT ![r] = "done"],
         UNCHANGED <<stopper[d], run[d], stopRequested[d]>>
  PROVE  Attended(d)'
<1> USE DEF TypeOK, EntryTypes, RunTypes
<1>1. \A s \in Runs : pc'[d][s] = "undo" => pc[d][s] = "undo"
  OBVIOUS
<1>2. CASE status[d] \in Terminal
  BY <1>1, <1>2, SettleEffect DEF Attended, Terminal, Active
<1>3. CASE status[d] \notin Terminal
  <2>1. CASE status'[d] = outcome /\ aborted'[d]
    BY <1>1, <2>1 DEF Attended, Terminal, Active
  <2>2. CASE UNCHANGED <<status[d], aborted[d]>> /\ fallback'[d] = "stopping" /\ fallbackRun'[d] = run[d]
    BY <1>1, <2>2 DEF Attended, Live
  <2>3. QED
    BY <1>3, <2>1, <2>2, SettleEffect
<1>4. QED
  BY <1>2, <1>3

LEMMA RunStepAttended ==
  ASSUME TypeOK, RecordedIffRun, AllAttended, NEW d \in Delegations, NEW r \in Runs,
         RunStep(d, r) \/ BecomesIdle(d, r) \/ TurnLimit(d, r)
  PROVE  AllAttended'
<1> SUFFICES ASSUME NEW e \in Delegations PROVE Attended(e)'
  BY DEF AllAttended
<1> USE DEF TypeOK, EntryTypes, RunTypes
<1>0. Attended(d) /\ Attended(e)
  BY DEF AllAttended
<1>1. UNCHANGED <<run, stopRequested, stopper>>
  BY DEF RunStep, BecomesIdle, TurnLimit, Abandon, PrepareFails, RunFails, FailRun, DefinitionLoaded,
      OptionsBuilt, StartDone, StartFails, UndoDone, Advance, Judge, Nudge, NudgeFails, BestEffortRead,
      SettleStopped, entryVars, stopVars
<1>2. ASSUME NEW label \in Working \cup {"done"}, Goto(d, r, label),
             label \in {"undo", "done"} => ~Live(d, r) \/ pc[d][r] = "undo",
             UNCHANGED <<status, aborted, fallback, fallbackRun>>
      PROVE  Attended(e)'
  <2>1. CASE e = d
    BY <1>0, <1>1, <1>2, <2>1, AttendedMove DEF Goto
  <2>2. CASE e # d
    BY <1>0, <1>1, <1>2, <2>2, AttendedFrame DEF Goto
  <2>3. QED
    BY <2>1, <2>2
<1>3. CASE Judge(d, r) \/ NudgeFails(d, r) \/ SettleStopped(d, r)
  <2>1. Live(d, r) /\ Goto(d, r, "done")
    BY <1>3 DEF Judge, NudgeFails, SettleStopped
  <2>2. PICK outcome \in Terminal : Settle(d, outcome)
    BY <1>3 DEF Judge, NudgeFails, SettleStopped, Terminal
  <2>3. CASE e = d
    BY <1>0, <1>1, <2>1, <2>2, <2>3, AttendedSettle DEF Goto
  <2>4. CASE e # d
    <3>1. UNCHANGED <<status[e], aborted[e], fallback[e], fallbackRun[e]>>
      BY <2>2, <2>4 DEF Settle, BeginFallback, Finish, fallbackVars, FallbackTypes
    <3>2. QED
      BY <1>0, <1>1, <2>1, <2>4, <3>1, AttendedFrame DEF Goto
  <2>5. QED
    BY <2>3, <2>4
<1> USE DEF entryVars, fallbackVars, Working, Racing, Starting
<1>4. CASE Abandon(d, r) \/ UndoDone(d, r)
  BY <1>2, <1>4 DEF Abandon, UndoDone
<1>5. CASE PrepareFails(d, r) \/ RunFails(d, r) \/ BestEffortRead(d, r) \/ OptionsBuilt(d, r) \/ TurnLimit(d, r)
  BY <1>2, <1>5 DEF PrepareFails, RunFails, FailRun, Fail, BestEffortRead, OptionsBuilt, TurnLimit
<1>6. CASE StartFails(d, r)
  BY <1>2, <1>6 DEF StartFails, Fail
<1>7. CASE DefinitionLoaded(d, r) \/ Nudge(d, r)
  BY <1>2, <1>7 DEF DefinitionLoaded, CreateWorker, Nudge
<1>8. CASE Advance(d, r) \/ BecomesIdle(d, r)
  BY <1>2, <1>8 DEF Advance, BecomesIdle
<1>9. CASE StartDone(d, r)
  <2>1. CASE Live(d, r) /\ status[d] \notin Terminal
    <3>1. /\ status' = [status EXCEPT ![d] = "running"]
          /\ pc' = [pc EXCEPT ![d][r] = "baseline"]
          /\ UNCHANGED <<aborted, fallback, fallbackRun>>
      BY <1>9, <2>1 DEF StartDone, Goto
    <3>2. status[d] \in Active
      <4>1. status[d] # "absent"
        BY <1>9 DEF StartDone, RecordedIffRun, Recorded, Untouched
      <4>2. QED
        BY <2>1, <4>1 DEF Statuses
    <3>3. CASE e = d
      <4>1. status'[d] \in Active
        BY <3>1 DEF Active
      <4>2. pc'[d] = [pc[d] EXCEPT ![r] = "baseline"] /\ "baseline" \in Working
        BY <3>1
      <4> HIDE DEF Working, Racing, Starting
      <4>3. QED
        BY <1>0, <1>1, <2>1, <3>1, <3>2, <3>3, <4>1, <4>2, AttendedMove
    <3>4. CASE e # d
      BY <1>0, <1>1, <3>1, <3>4, AttendedFrame
    <3>5. QED
      BY <3>3, <3>4
  <2>2. CASE ~(Live(d, r) /\ status[d] \notin Terminal)
    BY <1>2, <1>9, <2>2 DEF StartDone, Fail
  <2>3. QED
    BY <2>1, <2>2
<1>10. QED
  BY <1>3, <1>4, <1>5, <1>6, <1>7, <1>8, <1>9 DEF RunStep

LEMMA StartAttended ==
  ASSUME TypeOK, RecordedIffRun, AllAttended, NEW d \in Delegations,
         StartReserve(d) \/ StartCommit(d) \/ StartReject(d)
  PROVE  AllAttended'
<1> SUFFICES ASSUME NEW e \in Delegations PROVE Attended(e)'
  BY DEF AllAttended
<1> USE DEF TypeOK, EntryTypes, RunTypes
<1>0. Attended(d) /\ Attended(e)
  BY DEF AllAttended
<1>1. CASE StartReserve(d) \/ StartReject(d)
  BY <1>0, <1>1, AttendedFrame DEF StartReserve, StartReject, entryVars, runVars, fallbackVars, stopVars
<1>2. CASE StartCommit(d)
  <2>1. /\ run' = [run EXCEPT ![d] = 1]
        /\ status' = [status EXCEPT ![d] = "running"]
        /\ pc' = [pc EXCEPT ![d][1] = "options"]
        /\ UNCHANGED <<aborted, stopRequested, fallback, fallbackRun, stopper>>
        /\ starter[d] # "used"
    BY <1>2 DEF StartCommit, Launch, fallbackVars, stopVars
  <2>2. CASE e # d
    BY <1>0, <2>1, <2>2, AttendedFrame
  <2>3. CASE e = d
    <3>1. Untouched(d) /\ 1 \in Runs
      BY <2>1, ParametersAssumption DEF RecordedIffRun, Recorded, Runs
    <3>2. run'[d] = 1 /\ pc'[d][1] = "options" /\ \A r \in Runs : pc'[d][r] # "undo"
      BY <2>1, <3>1 DEF Untouched
    <3>3. QED
      BY <2>1, <2>3, <3>1, <3>2 DEF Attended, Untouched, Working
  <2>4. QED
    BY <2>2, <2>3
<1>3. QED
  BY <1>1, <1>2

LEMMA FallbackAttended ==
  ASSUME TypeOK, RecordedIffRun, AllAttended, NEW d \in Delegations, FallbackStep(d)
  PROVE  AllAttended'
<1> SUFFICES ASSUME NEW e \in Delegations PROVE Attended(e)'
  BY DEF AllAttended
<1> USE DEF TypeOK, EntryTypes, RunTypes, FallbackTypes
<1>0. Attended(d) /\ Attended(e)
  BY DEF AllAttended
<1>1. UNCHANGED <<run, stopRequested, stopper, fallbackRun>>
  BY DEF FallbackStep, FallbackStopped, FallbackRead, stopVars
<1>2. CASE e # d
  <2>1. UNCHANGED <<status[e], aborted[e], fallback[e], pc[e]>>
    BY <1>2 DEF FallbackStep, FallbackStopped, FallbackRead, Launch, runVars
  <2>2. QED
    BY <1>0, <1>1, <2>1, AttendedFrame
<1>3. CASE e = d /\ FallbackStopped(d)
  BY <1>0, <1>1, <1>3 DEF FallbackStopped, Attended, Active, Terminal, runVars
<1>4. CASE e = d /\ FallbackRead(d)
  <2>1. CASE /\ ~(Live(d, fallbackRun[d]) /\ ~stopRequested[d] /\ status[d] \in Active)
             /\ UNCHANGED <<status, aborted, pc>> /\ fallback'[d] = "idle"
    BY <1>0, <1>1, <1>4, <2>1 DEF Attended, Live
  <2>2. CASE status'[d] = "failed" /\ aborted'[d] /\ UNCHANGED pc
    BY <1>0, <1>1, <1>4, <2>2 DEF Attended, Active
  <2>3. CASE /\ Live(d, fallbackRun[d]) /\ status[d] \in Active
             /\ pc' = [pc EXCEPT ![d][fallbackRun[d]] = "options"]
             /\ UNCHANGED aborted
    <3>1. fallbackRun[d] = run[d] /\ run[d] \in Runs /\ ~aborted[d]
      BY <2>3 DEF Live, RecordedIffRun, Recorded, Active
    <3>2. pc'[d][run[d]] = "options"
      BY <2>3, <3>1
    <3>3. QED
      BY <1>0, <1>1, <1>4, <2>3, <3>1, <3>2 DEF Attended, Working
  <2>4. QED
    BY <1>4, <2>1, <2>2, <2>3 DEF FallbackRead, Launch, runVars
<1>5. QED
  BY <1>2, <1>3, <1>4 DEF FallbackStep

LEMMA ContinueAttended ==
  ASSUME TypeOK, AllAttended, NEW d \in Delegations, Continue(d)
  PROVE  AllAttended'
<1> SUFFICES ASSUME NEW e \in Delegations PROVE Attended(e)'
  BY DEF AllAttended
<1> USE DEF TypeOK, EntryTypes, RunTypes
<1> DEFINE r == run[d] + 1
<1>1. /\ r \in Runs
      /\ run' = [run EXCEPT ![d] = r]
      /\ aborted' = [aborted EXCEPT ![d] = FALSE]
      /\ stopRequested' = [stopRequested EXCEPT ![d] = FALSE]
      /\ UNCHANGED <<stopper, fallback, fallbackRun>>
  BY DEF Continue, fallbackVars, stopVars
<1>2. \E label \in {"definition", "baseline", "options"} : pc' = [pc EXCEPT ![d][r] = label]
  BY DEF Continue, CreateWorker, Goto
<1>3. CASE e # d
  <2>1. UNCHANGED status[e]
    BY <1>3 DEF Continue
  <2>2. QED
    BY <1>1, <1>2, <1>3, <2>1, AttendedFrame DEF AllAttended
<1>4. CASE e = d
  <2>1. pc'[d][r] \in {"definition", "baseline", "options"}
    BY <1>1, <1>2
  <2>2. run'[d] = r /\ ~aborted'[d] /\ ~stopRequested'[d]
    BY <1>1
  <2>3. QED
    BY <1>4, <2>1, <2>2 DEF Attended, Working
<1>5. QED
  BY <1>3, <1>4

LEMMA StopEntriesAttended ==
  ASSUME TypeOK, AllAttended, NEW ids, NEW outcome, StopEntries(ids, outcome),
         UNCHANGED <<status, run, pc, fallback, fallbackRun>>
  PROVE  AllAttended'
<1> SUFFICES ASSUME NEW e \in Delegations PROVE Attended(e)'
  BY DEF AllAttended
<1>1. CASE e \in Stoppable(ids)
  BY <1>1 DEF StopEntries, Attended, AllAttended
<1>2. CASE e \notin Stoppable(ids)
  <2>1. UNCHANGED <<aborted[e], stopper[e], stopRequested[e]>>
    BY <1>2 DEF StopEntries, TypeOK, EntryTypes, StopTypes
  <2>2. QED
    BY <2>1, AttendedFrame DEF AllAttended
<1>3. QED
  BY <1>1, <1>2

LEMMA StopStepAttended ==
  ASSUME TypeOK, StopsHold, AllAttended, NEW d \in Delegations, StopStep(d)
  PROVE  AllAttended'
<1> SUFFICES ASSUME NEW e \in Delegations PROVE Attended(e)'
  BY DEF AllAttended
<1> USE DEF TypeOK, EntryTypes, RunTypes, StopTypes
<1>0. Attended(d) /\ Attended(e) /\ StopHolds(d)
  BY DEF AllAttended, StopsHold
<1>1. ~StopRejected(d)
  BY <1>0 DEF StopRejected, StopHolds
<1>2. CASE StopHostDone(d) \/ StartingOver(d)
  <2>1. /\ stopper'[e] = stopper[e] \/ (stopper[e] # "idle" /\ stopper'[e] # "idle")
        /\ UNCHANGED <<status, aborted, pc, run, fallback, fallbackRun, stopRequested>>
    BY <1>2 DEF StopHostDone, StartingOver, entryVars, runVars, fallbackVars
  <2>2. QED
    BY <1>0, <2>1 DEF Attended
<1>3. CASE StopSettles(d)
  <2>1. stopStatus[d] \in {"cancelled", "interrupted"} /\ Settle(d, stopStatus[d])
    BY <1>3 DEF StopSettles
  <2>2. stopStatus[d] \in Terminal /\ UNCHANGED <<pc, run, stopRequested>>
    BY <1>3, <2>1 DEF StopSettles, Terminal
  <2>3. CASE e = d
    <3>1. CASE status[d] \in Terminal
      BY <1>0, <2>1, <2>2, <2>3, <3>1, SettleEffect DEF Attended, Terminal, Active
    <3>2. CASE status[d] \notin Terminal
      <4>1. status'[d] = stopStatus[d] /\ aborted'[d]
        BY <2>1, <2>2, <3>2, SettleEffect
      <4>2. QED
        BY <2>1, <2>3, <4>1 DEF Attended, Active
    <3>3. QED
      BY <3>1, <3>2
  <2>4. CASE e # d
    <3>1. UNCHANGED <<status[e], aborted[e], fallback[e], fallbackRun[e], stopper[e]>>
      BY <1>3, <2>1, <2>4 DEF StopSettles, Settle, BeginFallback, Finish, fallbackVars, FallbackTypes
    <3>2. QED
      BY <1>0, <2>2, <3>1, AttendedFrame
  <2>5. QED
    BY <2>3, <2>4
<1>4. QED
  BY <1>1, <1>2, <1>3 DEF StopStep

LEMMA AttendedStep ==
  ASSUME TypeOK, RecordedIffRun, StopsHold, AllAttended, [Next]_vars
  PROVE  AllAttended'
<1>1. CASE UNCHANGED vars
  BY <1>1 DEF AllAttended, Attended, vars, entryVars, runVars, fallbackVars, stopVars
<1>2. ASSUME NEW d \in Delegations, NEW h \in Hosts, WorkerStep(d, h) \/ WorkerExit(d, h)
      PROVE  AllAttended'
  BY <1>2 DEF AllAttended, Attended, WorkerStep, Spawn, CloseWorker, WorkerExit, entryVars, fallbackVars, stopVars
<1>3. CASE \/ \E d \in Delegations : StopOne(d)
           \/ \E p \in Parents : StopParent(p)
           \/ StopAll
  <2>1. UNCHANGED <<status, run, pc, fallback, fallbackRun>> /\ \E ids, outcome : StopEntries(ids, outcome)
    BY <1>3 DEF StopOne, StopParent, StopAll, fallbackVars
  <2>2. QED
    BY <2>1, StopEntriesAttended
<1>4. ASSUME NEW p \in Parents, ResumeParent(p) PROVE AllAttended'
  BY <1>4 DEF ResumeParent, AllAttended, Attended, entryVars, runVars, fallbackVars, stopVars
<1>5. CASE Restart
  BY <1>5 DEF Restart, Hydrated, Active, AllAttended, Attended
<1>6. ASSUME NEW d \in Delegations, ReconcileNext(d) PROVE AllAttended'
  BY <1>6 DEF ReconcileNext, AllAttended, Attended, entryVars, runVars, fallbackVars, stopVars
<1>7. ASSUME NEW d \in Delegations, NEW found \in BOOLEAN, ReconcileRead(d, found) PROVE AllAttended'
  BY <1>7 DEF ReconcileRead, AllAttended, Attended, Active, TypeOK, EntryTypes, runVars, fallbackVars, stopVars
<1>8. CASE Next
  BY <1>2, <1>3, <1>4, <1>5, <1>6, <1>7, <1>8, StartAttended, RunStepAttended, FallbackAttended,
     ContinueAttended, StopStepAttended
  DEF Next, StartStep
<1>9. QED
  BY <1>1, <1>8

\* A record that is not terminal always has a stop, a live coroutine or a live
\* fallback that is going to settle it, so its slot is given back and
\* delegate_wait is answered.
THEOREM RunsAreAttended == ASSUME ~StopMayFail PROVE Spec => []NoUnattendedRun
<1>1. Init => AllAttended
  BY DEF Init, AllAttended, Attended, Active
<1>2. TypeOK /\ RecordedIffRun /\ StopsHold /\ AllAttended /\ [Next]_vars => AllAttended'
  BY AttendedStep
<1>3. AllAttended => NoUnattendedRun
  BY DEF AllAttended, Attended, NoUnattendedRun, Unattended, Live
<1>4. QED
  BY <1>1, <1>2, <1>3, TypeCorrect, RecordsCorrect, StopsAreKept, PTL DEF Spec

-----------------------------------------------------------------------------
(***************************************************************************)
(* Which processes a delegation has, when terminating one never fails: at  *)
(* most one besides those being terminated, none once the delegation was   *)
(* stopped or failed, and none once its entry has left the map.            *)
(***************************************************************************)

Alive == {"preparing", "booting", "up"}

\* The newest worker is not in use; it is not even being terminated.
AtRest(d) == host[d] # 0 => workers[d][host[d]] \notin Alive
Down(d)   == host[d] # 0 => ~HasProcess(workers[d][host[d]])

\* A fallback is deciding how the current run ends.
Ending(d) == fallback[d] # "idle" /\ fallbackRun[d] = run[d]

\* Only the newest worker is in use, and while it is being started the
\* coroutine of the current run waits for it.
NewestInUse(d) ==
  /\ \A h \in Hosts : workers[d][h] \in Alive => h = host[d]
  /\ \A h \in Hosts : workers[d][h] = "preparing" => pc[d][run[d]] = "startup"

\* A startup belongs to the current run, which nothing settles meanwhile.
StartsAwaited(d) ==
  \A r \in Runs : pc[d][r] \in Starting =>
    r = run[d] /\ status[d] \in Active /\ stopper[d] # "again" /\ runHost[d][r] = host[d]

\* A coroutine that may still act works with the newest worker, and has
\* stopped it before it settles a failure.
LiveRunsOwn(d) ==
  \A r \in Runs : Live(d, r) =>
    /\ pc[d][r] \in Working => status[d] \in Active /\ runHost[d][r] = host[d]
    /\ pc[d][r] = "definition" => definition[d] = "none"
    /\ pc[d][r] \in {"failing", "truncating"} => AtRest(d)

\* A fallback acts alone and after the worker of its run.
FallbackOwns(d) ==
  /\ fallback[d] # "idle" => fallbackRun[d] <= run[d]
  /\ Ending(d) => /\ pc[d][run[d]] = "done" /\ fallbackHost[d] = host[d]
                  /\ AtRest(d) /\ definition[d] # "none"
  /\ Ending(d) /\ fallback[d] = "reading" => Down(d)

\* A stop concerns the newest worker; the one of a startup that was under way
\* is terminated by the startup itself, which the stop waits for.
StopOwns(d) ==
  /\ stopper[d] # "idle" => aborted[d] /\ stopHost[d] = host[d]
  /\ stopper[d] = "starting" /\ status[d] \in Active /\ host[d] # 0 /\ workers[d][host[d]] = "closing"
       => \E r \in Runs : pc[d][r] = "undo"

RecordOwns(d) ==
  /\ definition[d] = "none" => host[d] = 0
  /\ status[d] \in {"failed", "cancelled", "interrupted"} => Down(d)
  /\ ~resident[d] => status[d] \notin Active /\ AtRest(d)

Owned(d) ==
  /\ NewestInUse(d) /\ StartsAwaited(d) /\ LiveRunsOwn(d)
  /\ FallbackOwns(d) /\ StopOwns(d) /\ RecordOwns(d)

AllOwned == \A d \in Delegations \ overtaken : Owned(d)

-----------------------------------------------------------------------------
(* Steps of one delegation.                                                *)

LEMMA HostRange ==
  ASSUME TypeOK, NEW d \in Delegations
  PROVE  /\ host[d] \in 0..MaxHosts /\ (host[d] # 0 => host[d] \in Hosts)
         /\ \A r \in Runs : runHost[d][r] \in 0..MaxHosts
         /\ run[d] \in Nat /\ fallbackRun[d] \in Nat
         /\ workers[d] \in [Hosts -> WorkerStates]
BY ParametersAssumption DEF TypeOK, EntryTypes, RunTypes, FallbackTypes, Hosts

LEMMA OwnedFrame ==
  ASSUME NEW d \in Delegations, Owned(d),
         UNCHANGED <<status[d], resident[d], run[d], aborted[d], definition[d], host[d], workers[d], pc[d],
                     runHost[d], fallback[d], fallbackRun[d], fallbackHost[d], stopper[d], stopHost[d]>>
  PROVE  Owned(d)'
BY DEF Owned, NewestInUse, StartsAwaited, LiveRunsOwn, FallbackOwns, StopOwns, RecordOwns, AtRest, Down, Ending, Live

\* stopHost(k) terminates worker k unless it is not spawned yet.
LEMMA StopFades ==
  ASSUME TypeOK, NEW d \in Delegations, NEW k \in 0..MaxHosts,
         workers'[d] = workers[d] \/ workers'[d] = AfterStop(workers[d], k)
  PROVE  /\ \A h \in Hosts : workers[d][h] \notin {"booting", "up"} => workers'[d][h] = workers[d][h]
         /\ \A h \in Hosts : workers[d][h] \in {"booting", "up"} =>
              workers'[d][h] = workers[d][h] \/ (h = k /\ workers'[d][h] = "closing")
         /\ workers'[d] = AfterStop(workers[d], k) =>
              \A h \in Hosts : h = k /\ workers[d][h] # "preparing" => workers'[d][h] \notin Alive
<1>1. workers[d] \in [Hosts -> WorkerStates]
  BY HostRange
<1>2. ASSUME NEW h \in Hosts
      PROVE  /\ workers[d][h] \notin {"booting", "up"} => AfterStop(workers[d], k)[h] = workers[d][h]
             /\ workers[d][h] \in {"booting", "up"} =>
                  AfterStop(workers[d], k)[h] = IF h = k THEN "closing" ELSE workers[d][h]
  BY <1>1, AfterStopKeeps
<1>3. QED
  BY <1>2 DEF Alive

\* The coroutine of run r moves on; it may stop its worker as it does.
LEMMA OwnedMove ==
  ASSUME TypeOK, NEW d \in Delegations, Owned(d), NEW r \in Runs, NEW label,
         pc'[d] = [pc[d] EXCEPT ![r] = label],
         pc[d][r] \in Working, label \notin {"definition", "startup"},
         label # "done" => Live(d, r) \/ (label = "undo" /\ pc[d][r] \in Starting),
         label = "undo" => pc[d][r] \in Starting,
         pc[d][r] = "startup" => workers[d][runHost[d][r]] # "preparing" /\ label # "done",
         pc[d][r] = "undo" => StopReturned(d, runHost[d][r]) /\ workers'[d] = workers[d],
         label \in {"failing", "truncating"} => workers'[d] = AfterStop(workers[d], runHost[d][r]),
         \/ workers'[d] = workers[d]
         \/ workers'[d] = AfterStop(workers[d], runHost[d][r]) /\ (Live(d, r) \/ label = "undo"),
         UNCHANGED <<status[d], resident[d], run[d], aborted[d], definition[d], host[d], runHost[d],
                     fallback[d], fallbackRun[d], fallbackHost[d], stopper[d], stopHost[d]>>
  PROVE  Owned(d)'
<1> DEFINE k == runHost[d][r]
<1>1. \A s \in Runs : /\ s # r => pc'[d][s] = pc[d][s]
                      /\ s = r => pc'[d][s] = label
  BY DEF TypeOK, RunTypes
<1>2. /\ \A h \in Hosts : workers[d][h] \notin {"booting", "up"} => workers'[d][h] = workers[d][h]
      /\ \A h \in Hosts : workers[d][h] \in {"booting", "up"} =>
           workers'[d][h] = workers[d][h] \/ (h = k /\ workers'[d][h] = "closing")
      /\ workers'[d] = AfterStop(workers[d], k) =>
           \A h \in Hosts : h = k /\ workers[d][h] # "preparing" => workers'[d][h] \notin Alive
  BY HostRange, StopFades
<1>3. host[d] # 0 => host[d] \in Hosts
  BY HostRange
<1>4. /\ AtRest(d) => AtRest(d)'
      /\ Down(d) => Down(d)'
  BY <1>2, <1>3 DEF AtRest, Down, HasProcess, Alive
<1>5. NewestInUse(d)'
  <2>1. \A h \in Hosts : workers'[d][h] \in Alive => workers[d][h] \in Alive
    BY <1>2 DEF Alive
  <2>2. \A h \in Hosts : workers'[d][h] = "preparing" => workers[d][h] = "preparing"
    BY <1>2
  <2>3. ASSUME NEW h \in Hosts, workers[d][h] = "preparing" PROVE r # run[d]
    BY <2>3 DEF Owned, NewestInUse, StartsAwaited, Alive, Starting
  <2>4. \A h \in Hosts : workers'[d][h] = "preparing" => pc'[d][run[d]] = "startup"
    <3> SUFFICES ASSUME NEW h \in Hosts, workers'[d][h] = "preparing" PROVE pc'[d][run[d]] = "startup"
      OBVIOUS
    <3>1. pc[d][run[d]] = "startup" /\ r # run[d]
      BY <2>2, <2>3 DEF Owned, NewestInUse
    <3>2. QED
      BY <3>1
  <2>5. QED
    BY <2>1, <2>4 DEF Owned, NewestInUse
<1>6. StartsAwaited(d)'
  BY <1>1 DEF Owned, StartsAwaited, Starting
<1>7. LiveRunsOwn(d)'
  <2>1. Live(d, r) /\ label \in {"failing", "truncating"} => AtRest(d)'
    <3> SUFFICES ASSUME Live(d, r), label \in {"failing", "truncating"}, host[d] # 0
                 PROVE  workers'[d][host[d]] \notin Alive
      BY DEF AtRest
    <3>1. k = host[d] /\ r = run[d]
      BY DEF Owned, LiveRunsOwn, Live
    <3>2. workers[d][host[d]] # "preparing"
      BY <1>3, <3>1 DEF Owned, NewestInUse
    <3>3. QED
      BY <1>2, <1>3, <3>1, <3>2
  <2>2. ASSUME NEW s \in Runs, Live(d, s)'
        PROVE /\ pc'[d][s] \in Working => status[d] \in Active /\ runHost[d][s] = host[d]
              /\ pc'[d][s] = "definition" => definition[d] = "none"
              /\ pc'[d][s] \in {"failing", "truncating"} => AtRest(d)'
    <3>1. Live(d, s)
      BY <2>2 DEF Live
    <3>2. CASE s = r
      BY <1>1, <2>1, <3>1, <3>2 DEF Owned, LiveRunsOwn
    <3>3. CASE s # r
      BY <1>1, <1>4, <3>1, <3>3 DEF Owned, LiveRunsOwn
    <3>4. QED
      BY <3>2, <3>3
  <2>3. QED
    BY <2>2 DEF LiveRunsOwn
<1>8. FallbackOwns(d)'
  <2>1. Ending(d)' => Ending(d) /\ r # run[d] /\ pc'[d][run[d]] = "done"
    BY DEF Owned, FallbackOwns, Ending, Working, Racing, Starting
  <2>2. QED
    BY <1>4, <2>1 DEF Owned, FallbackOwns
<1>9. StopOwns(d)'
  <2> SUFFICES ASSUME stopper[d] = "starting", status[d] \in Active, host[d] # 0, workers'[d][host[d]] = "closing"
               PROVE  \E s \in Runs : pc'[d][s] = "undo"
    BY DEF Owned, StopOwns
  <2>1. ~Live(d, r)
    BY DEF Owned, StopOwns, Live
  <2>2. CASE workers[d][host[d]] = "closing"
    <3>1. PICK s \in Runs : pc[d][s] = "undo"
      BY <2>2 DEF Owned, StopOwns
    <3>2. runHost[d][s] = host[d]
      BY <3>1 DEF Owned, StartsAwaited, Starting
    <3>3. s # r
      BY <2>2, <3>1, <3>2 DEF StopReturned
    <3>4. QED
      BY <1>1, <3>1, <3>3
  <2>3. CASE workers[d][host[d]] # "closing"
    BY <1>1, <2>1, <2>3
  <2>4. QED
    BY <2>2, <2>3
<1>10. RecordOwns(d)'
  BY <1>4 DEF Owned, RecordOwns
<1>11. QED
  BY <1>5, <1>6, <1>7, <1>8, <1>9, <1>10 DEF Owned

\* A worker is created for run r, which is or becomes the current one.
LEMMA OwnedCreate ==
  ASSUME TypeOK, NEW d \in Delegations, Owned(d), NEW r \in Runs, AtRest(d),
         \A s \in Runs : pc[d][s] \notin Starting,
         run'[d] = r, host[d] < MaxHosts, host'[d] = host[d] + 1,
         pc'[d] = [pc[d] EXCEPT ![r] = "options"],
         runHost'[d] = [runHost[d] EXCEPT ![r] = host[d] + 1],
         workers'[d] = [workers[d] EXCEPT ![host[d] + 1] = "new"],
         status'[d] \in Active, resident'[d], definition'[d] # "none", stopper'[d] = "idle",
         fallback'[d] = "idle" \/ (UNCHANGED fallbackRun[d] /\ fallbackRun[d] < r)
  PROVE  Owned(d)'
<1> USE HostRange
<1>1. \A s \in Runs : /\ s # r => pc'[d][s] = pc[d][s]
                      /\ s = r => pc'[d][s] = "options" /\ runHost'[d][s] = host'[d]
  BY DEF TypeOK, RunTypes
<1>2. \A h \in Hosts : workers'[d][h] \notin Alive
  <2> SUFFICES ASSUME NEW h \in Hosts, h # host[d] + 1 PROVE workers[d][h] \notin Alive
    BY DEF Alive
  <2>1. QED
    BY DEF Owned, NewestInUse, AtRest, Hosts
<1>3. host'[d] # 0 /\ host'[d] \in Hosts
  BY ParametersAssumption DEF Hosts
<1>4. NewestInUse(d)'
  BY <1>2 DEF NewestInUse, Alive
<1>5. StartsAwaited(d)'
  BY <1>1 DEF StartsAwaited, Starting
<1>6. LiveRunsOwn(d)'
  <2> SUFFICES ASSUME NEW s \in Runs, Live(d, s)' PROVE s = r
    BY <1>1 DEF LiveRunsOwn
  <2>1. QED
    BY DEF Live
<1>7. FallbackOwns(d)'
  BY DEF FallbackOwns, Ending, Runs
<1>8. StopOwns(d)'
  BY DEF StopOwns
<1>9. RecordOwns(d)'
  BY DEF RecordOwns, Active
<1>10. QED
  BY <1>4, <1>5, <1>6, <1>7, <1>8, <1>9 DEF Owned

\* The live coroutine settles its run and returns.
LEMMA OwnedSettle ==
  ASSUME TypeOK, NEW d \in Delegations, Owned(d), NEW r \in Runs,
         NEW outcome \in {"completed", "failed", "truncated"},
         Live(d, r), pc[d][r] \in Working \ Starting, outcome = "failed" => Down(d),
         Settle(d, outcome), pc'[d] = [pc[d] EXCEPT ![r] = "done"],
         UNCHANGED <<resident[d], run[d], definition[d], host[d], runHost[d], stopper[d], stopHost[d]>>
  PROVE  Owned(d)'
<1> USE HostRange
<1>0. r = run[d] /\ status[d] \in Active /\ ~aborted[d] /\ stopper[d] = "idle" /\ ~Ending(d)
  <2>1. r = run[d] /\ status[d] \in Active /\ ~aborted[d]
    BY DEF Owned, LiveRunsOwn, Live
  <2>2. pc[d][run[d]] # "done"
    BY <2>1 DEF Working, Racing, Starting
  <2>3. QED
    BY <2>1, <2>2 DEF Owned, StopOwns, FallbackOwns
<1>1. \A s \in Runs : /\ s # r => pc'[d][s] = pc[d][s]
                      /\ s = r => pc'[d][s] = "done"
  BY DEF TypeOK, RunTypes
<1>2. \A s \in Runs : pc'[d][s] \notin Starting
  BY <1>0, <1>1 DEF Owned, StartsAwaited, Starting
<1>3. \A h \in Hosts : workers[d][h] # "preparing"
  BY <1>0 DEF Owned, NewestInUse, Starting
<1>4. CASE Finish(d, outcome)
  <2>1. /\ status'[d] = outcome /\ aborted'[d]
        /\ UNCHANGED <<fallback[d], fallbackRun[d], fallbackHost[d], workers[d]>>
    BY <1>4 DEF Finish, fallbackVars, TypeOK, EntryTypes
  <2>2. NewestInUse(d)'
    BY <1>3, <2>1 DEF Owned, NewestInUse
  <2>3. LiveRunsOwn(d)'
    BY <2>1 DEF LiveRunsOwn, Live
  <2>4. StartsAwaited(d)' /\ StopOwns(d)'
    BY <1>0, <1>2 DEF StartsAwaited, StopOwns
  <2>5. FallbackOwns(d)'
    BY <1>0, <2>1 DEF Owned, FallbackOwns, Ending
  <2>6. RecordOwns(d)'
    BY <1>0, <2>1 DEF Owned, RecordOwns, Down, Active
  <2>7. QED
    BY <2>2, <2>3, <2>4, <2>5, <2>6 DEF Owned
<1>5. CASE BeginFallback(d) /\ outcome = "failed" /\ CanFallback(d)
  <2>1. /\ UNCHANGED <<status[d], aborted[d]>>
        /\ fallback'[d] = "stopping" /\ fallbackRun'[d] = run[d] /\ fallbackHost'[d] = host[d]
        /\ workers'[d] = AfterStop(workers[d], host[d])
    BY <1>5 DEF BeginFallback, TypeOK, EntryTypes, RunTypes, FallbackTypes
  <2>2. /\ \A h \in Hosts : workers[d][h] \notin {"booting", "up"} => workers'[d][h] = workers[d][h]
        /\ \A h \in Hosts : workers[d][h] \in {"booting", "up"} =>
             workers'[d][h] = workers[d][h] \/ (h = host[d] /\ workers'[d][h] = "closing")
    BY <2>1, StopFades
  <2>3. Down(d)' /\ AtRest(d)'
    BY <1>5, <2>2 DEF Down, AtRest, HasProcess, Alive
  <2>4. NewestInUse(d)'
    BY <1>3, <2>2 DEF Owned, NewestInUse, Alive
  <2>5. LiveRunsOwn(d)'
    <3> SUFFICES ASSUME NEW s \in Runs, Live(d, s)' PROVE s = r
      BY <1>1 DEF LiveRunsOwn, Working, Racing, Starting
    <3>1. QED
      BY <1>0 DEF Live
  <2>6. StartsAwaited(d)' /\ StopOwns(d)'
    BY <1>0, <1>2 DEF StartsAwaited, StopOwns
  <2>7. FallbackOwns(d)'
    BY <1>0, <1>1, <1>5, <2>1, <2>3 DEF FallbackOwns, Ending, CanFallback
  <2>8. RecordOwns(d)'
    BY <1>0, <2>1, <2>3 DEF Owned, RecordOwns
  <2>9. QED
    BY <2>4, <2>5, <2>6, <2>7, <2>8 DEF Owned
<1>6. QED
  BY <1>0, <1>4, <1>5 DEF Settle, Terminal, Active

\* What the steps below leave alone of the other delegations.
OthersKept(d) ==
  \A e \in Delegations \ {d} :
    UNCHANGED <<status[e], resident[e], run[e], aborted[e], definition[e], host[e], workers[e], pc[e],
                runHost[e], fallback[e], fallbackRun[e], fallbackHost[e], stopper[e], stopHost[e]>>

LEMMA OthersOwned ==
  ASSUME NEW d \in Delegations, AllOwned, OthersKept(d), overtaken \subseteq overtaken',
         d \notin overtaken => Owned(d)'
  PROVE  AllOwned'
BY OwnedFrame DEF AllOwned, OthersKept

LEMMA SettleOthers ==
  ASSUME TypeOK, NEW d \in Delegations, NEW outcome \in Terminal, Settle(d, outcome), NEW e \in Delegations \ {d}
  PROVE  UNCHANGED <<status[e], aborted[e], workers[e], fallback[e], fallbackRun[e], fallbackHost[e]>>
BY DEF Settle, BeginFallback, Finish, fallbackVars, TypeOK, EntryTypes, RunTypes, FallbackTypes

LEMMA RunStepOthers ==
  ASSUME TypeOK, NEW d \in Delegations, NEW r \in Runs,
         RunStep(d, r) \/ BecomesIdle(d, r) \/ TurnLimit(d, r)
  PROVE  OthersKept(d) /\ overtaken' = overtaken
<1> USE DEF TypeOK, EntryTypes, RunTypes, OthersKept, Goto, entryVars, fallbackVars, stopVars, reconcileVars
<1>1. CASE Judge(d, r) \/ NudgeFails(d, r) \/ SettleStopped(d, r)
  <2>1. \E outcome \in Terminal : Settle(d, outcome)
    BY <1>1 DEF Judge, NudgeFails, SettleStopped, Terminal
  <2>2. QED
    BY <1>1, <2>1, SettleOthers DEF Judge, NudgeFails, SettleStopped
<1>2. CASE PrepareFails(d, r) \/ RunFails(d, r) \/ BestEffortRead(d, r)
  BY <1>2 DEF PrepareFails, RunFails, BestEffortRead, FailRun, Fail
<1>3. CASE StartDone(d, r)
  BY <1>3 DEF StartDone, Fail
<1>4. CASE StartFails(d, r)
  BY <1>4 DEF StartFails, Fail
<1>5. CASE DefinitionLoaded(d, r) \/ OptionsBuilt(d, r)
  BY <1>5 DEF DefinitionLoaded, OptionsBuilt, CreateWorker
<1>6. CASE Abandon(d, r) \/ UndoDone(d, r) \/ Nudge(d, r) \/ TurnLimit(d, r)
  BY <1>6 DEF Abandon, UndoDone, Nudge, TurnLimit
<1>7. CASE Advance(d, r) \/ BecomesIdle(d, r)
  BY <1>7 DEF Advance, BecomesIdle
<1>8. QED
  BY <1>1, <1>2, <1>3, <1>4, <1>5, <1>6, <1>7 DEF RunStep

\* Options built: the worker that was created for the run is being started.
LEMMA OwnedStartup ==
  ASSUME TypeOK, NEW d \in Delegations, Owned(d), StopHolds(d), NEW r \in Runs, OptionsBuilt(d, r)
  PROVE  Owned(d)'
<1> USE HostRange
<1>1. /\ pc[d][r] = "options" /\ Live(d, r)
      /\ pc'[d] = [pc[d] EXCEPT ![r] = "startup"]
      /\ workers'[d] = [workers[d] EXCEPT ![runHost[d][r]] = "preparing"]
      /\ UNCHANGED <<status[d], resident[d], run[d], aborted[d], definition[d], host[d], runHost[d],
                     fallback[d], fallbackRun[d], fallbackHost[d], stopper[d], stopHost[d]>>
  BY DEF OptionsBuilt, Goto, entryVars, fallbackVars, stopVars, TypeOK, RunTypes
<1>2. /\ r = run[d] /\ status[d] \in Active /\ runHost[d][r] = host[d] /\ host[d] \in Hosts
      /\ stopper[d] = "idle" /\ ~Ending(d)
  <2>1. r = run[d] /\ ~aborted[d] /\ status[d] \in Active /\ runHost[d][r] = host[d]
    BY <1>1 DEF Owned, LiveRunsOwn, Live, Working
  <2>2. runHost[d][r] # 0
    BY <1>1 DEF StopHolds
  <2>3. QED
    BY <1>1, <2>1, <2>2 DEF Owned, StopOwns, FallbackOwns
<1>3. \A s \in Runs : /\ s # r => pc'[d][s] = pc[d][s]
                      /\ s = r => pc'[d][s] = "startup"
  BY <1>1 DEF TypeOK, RunTypes
<1>4. \A h \in Hosts : h # host[d] => workers'[d][h] = workers[d][h]
  BY <1>1, <1>2
<1>5. NewestInUse(d)'
  BY <1>1, <1>2, <1>3, <1>4 DEF Owned, NewestInUse, Alive
<1>6. StartsAwaited(d)'
  BY <1>1, <1>2, <1>3 DEF Owned, StartsAwaited
<1>7. LiveRunsOwn(d)'
  <2> SUFFICES ASSUME NEW s \in Runs, Live(d, s)' PROVE s = r
    BY <1>1, <1>2, <1>3 DEF LiveRunsOwn
  <2>1. QED
    BY <1>1, <1>2 DEF Live
<1>8. FallbackOwns(d)' /\ StopOwns(d)'
  BY <1>1, <1>2 DEF Owned, FallbackOwns, StopOwns, Ending
<1>9. RecordOwns(d)'
  BY <1>1, <1>2 DEF Owned, RecordOwns, Active
<1>10. QED
  BY <1>5, <1>6, <1>7, <1>8, <1>9 DEF Owned

\* The worker answered, and the run goes on with it.
LEMMA OwnedStarted ==
  ASSUME TypeOK, NEW d \in Delegations, Owned(d), NEW r \in Runs, Live(d, r),
         pc[d][r] = "startup", workers[d][runHost[d][r]] = "booting",
         workers'[d] = [workers[d] EXCEPT ![runHost[d][r]] = "up"],
         status'[d] = "running", pc'[d] = [pc[d] EXCEPT ![r] = "baseline"],
         UNCHANGED <<resident[d], run[d], aborted[d], definition[d], host[d], runHost[d],
                     fallback[d], fallbackRun[d], fallbackHost[d], stopper[d], stopHost[d]>>
  PROVE  Owned(d)'
<1> USE HostRange
<1>1. /\ r = run[d] /\ status[d] \in Active /\ runHost[d][r] = host[d] /\ stopper[d] = "idle" /\ ~Ending(d)
  BY DEF Owned, StartsAwaited, StopOwns, FallbackOwns, Live, Starting
<1>2. \A s \in Runs : /\ s # r => pc'[d][s] = pc[d][s]
                      /\ s = r => pc'[d][s] = "baseline"
  BY DEF TypeOK, RunTypes
<1>3. \A s \in Runs : pc'[d][s] \notin Starting
  BY <1>1, <1>2 DEF Owned, StartsAwaited, Starting
<1>4. NewestInUse(d)'
  <2>1. \A h \in Hosts : h # host[d] => workers'[d][h] \notin Alive
    BY <1>1 DEF Owned, NewestInUse
  <2>2. host[d] \in Hosts => workers'[d][host[d]] = "up"
    BY <1>1
  <2>3. QED
    BY <2>1, <2>2 DEF NewestInUse, Alive
<1>5. LiveRunsOwn(d)'
  <2> SUFFICES ASSUME NEW s \in Runs, Live(d, s)' PROVE s = r
    BY <1>1, <1>2 DEF LiveRunsOwn, Active
  <2>1. QED
    BY <1>1 DEF Live
<1>6. StartsAwaited(d)' /\ FallbackOwns(d)' /\ StopOwns(d)'
  BY <1>1, <1>3 DEF Owned, StartsAwaited, FallbackOwns, StopOwns, Ending
<1>7. RecordOwns(d)'
  BY <1>1 DEF Owned, RecordOwns, Active
<1>8. QED
  BY <1>4, <1>5, <1>6, <1>7 DEF Owned

LEMMA RunStepOwned ==
  ASSUME TypeOK, RecordedIffRun, StopsHold, AllOwned, NEW d \in Delegations, NEW r \in Runs,
         RunStep(d, r) \/ BecomesIdle(d, r) \/ TurnLimit(d, r)
  PROVE  AllOwned'
<1>1. OthersKept(d) /\ overtaken' = overtaken
  BY RunStepOthers
<1> SUFFICES ASSUME Owned(d) PROVE Owned(d)'
  BY <1>1, OthersOwned DEF AllOwned
<1>2. StopHolds(d)
  BY DEF StopsHold
<1>3. CASE Judge(d, r) \/ NudgeFails(d, r)
  <2>1. /\ Live(d, r) /\ pc[d][r] \in Working \ Starting /\ pc'[d] = [pc[d] EXCEPT ![r] = "done"]
        /\ \E outcome \in {"completed", "truncated"} : Settle(d, outcome)
        /\ UNCHANGED <<resident[d], run[d], definition[d], host[d], runHost[d], stopper[d], stopHost[d]>>
    BY <1>3 DEF Judge, NudgeFails, Working, Racing, Starting, Goto, TypeOK, EntryTypes, RunTypes,
                entryVars, fallbackVars, stopVars
  <2>2. QED
    BY <2>1, OwnedSettle
<1>4. CASE SettleStopped(d, r)
  <2>1. /\ Live(d, r) /\ pc[d][r] \in {"failing", "truncating"} /\ pc'[d] = [pc[d] EXCEPT ![r] = "done"]
        /\ StopReturned(d, runHost[d][r])
        /\ UNCHANGED <<resident[d], run[d], definition[d], host[d], runHost[d], stopper[d], stopHost[d]>>
    BY <1>4 DEF SettleStopped, Goto, TypeOK, EntryTypes, RunTypes,
                entryVars, fallbackVars, stopVars
  <2>2. \E outcome \in {"failed", "truncated"} : Settle(d, outcome)
    BY <1>4 DEF SettleStopped
  <2>3. pc[d][r] \in Working \ Starting
    BY <2>1 DEF Working, Starting
  <2>4. Down(d)
    BY <2>1, <2>3 DEF Owned, LiveRunsOwn, AtRest, Down, StopReturned, HasProcess, Alive
  <2>5. QED
    BY <2>1, <2>2, <2>3, <2>4, OwnedSettle
<1>5. CASE Abandon(d, r) \/ UndoDone(d, r)
  <2>1. /\ pc[d][r] \in Working /\ pc[d][r] # "startup" /\ pc'[d] = [pc[d] EXCEPT ![r] = "done"]
        /\ pc[d][r] = "undo" => StopReturned(d, runHost[d][r])
        /\ workers'[d] = workers[d]
        /\ UNCHANGED <<status[d], resident[d], run[d], aborted[d], definition[d], host[d], runHost[d],
                       fallback[d], fallbackRun[d], fallbackHost[d], stopper[d], stopHost[d]>>
    BY <1>5 DEF Abandon, UndoDone, Working, Starting, Goto, TypeOK, EntryTypes, RunTypes,
                entryVars, fallbackVars, stopVars
  <2>2. QED
    BY <2>1, OwnedMove
<1>6. CASE Nudge(d, r) \/ TurnLimit(d, r) \/ Advance(d, r) \/ BecomesIdle(d, r)
  <2>0. /\ pc[d][r] \in Racing \cup {"baseline"} /\ Live(d, r)
        /\ \E label \in {"nudge", "best", "prompt", "idle", "nudgeIdle", "messages", "nudgeMessages"} :
             Goto(d, r, label)
    BY <1>6 DEF Nudge, TurnLimit, Advance, BecomesIdle, Racing
  <2>1. /\ pc[d][r] \in Racing \cup {"baseline"} /\ Live(d, r) /\ workers'[d] = workers[d]
        /\ \E label \in {"nudge", "best", "prompt", "idle", "nudgeIdle", "messages", "nudgeMessages"} :
             pc'[d] = [pc[d] EXCEPT ![r] = label]
        /\ UNCHANGED <<status[d], resident[d], run[d], aborted[d], definition[d], host[d], runHost[d],
                       fallback[d], fallbackRun[d], fallbackHost[d], stopper[d], stopHost[d]>>
    BY <1>6, <2>0 DEF Nudge, TurnLimit, Advance, BecomesIdle, Goto, TypeOK, EntryTypes, RunTypes,
                entryVars, fallbackVars, stopVars
  <2>2. pc[d][r] \in Working /\ pc[d][r] \notin {"startup", "undo"}
    BY <2>1 DEF Working, Racing
  <2>3. QED
    BY <2>1, <2>2, OwnedMove
<1>7. CASE PrepareFails(d, r) \/ RunFails(d, r) \/ BestEffortRead(d, r)
  <2>1. /\ pc[d][r] \in Working \ Starting /\ Live(d, r)
        /\ workers'[d] = AfterStop(workers[d], runHost[d][r])
        /\ \E label \in {"failing", "truncating"} : pc'[d] = [pc[d] EXCEPT ![r] = label]
        /\ UNCHANGED <<status[d], resident[d], run[d], aborted[d], definition[d], host[d], runHost[d],
                       fallback[d], fallbackRun[d], fallbackHost[d], stopper[d], stopHost[d]>>
    BY <1>7 DEF PrepareFails, RunFails, BestEffortRead, FailRun, Fail, Working, Racing, Starting, Goto,
                TypeOK, EntryTypes, RunTypes, entryVars, fallbackVars, stopVars
  <2>2. pc[d][r] \notin {"startup", "undo"}
    BY <2>1 DEF Starting
  <2>3. QED
    BY <2>1, <2>2, OwnedMove
<1>8. CASE StartFails(d, r)
  <2>1. /\ pc[d][r] = "startup" /\ workers[d][runHost[d][r]] # "preparing"
        /\ workers'[d] = AfterStop(workers[d], runHost[d][r])
        /\ \E label \in {"failing", "undo"} :
             pc'[d] = [pc[d] EXCEPT ![r] = label] /\ (label = "undo" \/ Live(d, r))
        /\ UNCHANGED <<status[d], resident[d], run[d], aborted[d], definition[d], host[d], runHost[d],
                       fallback[d], fallbackRun[d], fallbackHost[d], stopper[d], stopHost[d]>>
    BY <1>8 DEF StartFails, Fail, Goto, TypeOK, EntryTypes, RunTypes,
                entryVars, fallbackVars, stopVars
  <2>2. pc[d][r] \in Working /\ pc[d][r] \in Starting
    BY <2>1 DEF Working, Starting
  <2>3. QED
    BY <2>1, <2>2, OwnedMove
<1>9. CASE StartDone(d, r)
  <2>1. /\ pc[d][r] = "startup" /\ workers[d][runHost[d][r]] = "booting"
        /\ UNCHANGED <<resident[d], run[d], aborted[d], definition[d], host[d], runHost[d],
                       fallback[d], fallbackRun[d], fallbackHost[d], stopper[d], stopHost[d]>>
    BY <1>9 DEF StartDone, Goto, TypeOK, EntryTypes, RunTypes,
                entryVars, fallbackVars, stopVars
  <2>2. pc[d][r] \in Working /\ pc[d][r] \in Starting
    BY <2>1 DEF Working, Starting
  <2>3. status[d] \in Active
    BY <2>2 DEF Owned, StartsAwaited
  <2>4. CASE Live(d, r)
    <3>1. /\ workers'[d] = [workers[d] EXCEPT ![runHost[d][r]] = "up"]
          /\ status'[d] = "running" /\ pc'[d] = [pc[d] EXCEPT ![r] = "baseline"]
      BY <1>9, <2>3, <2>4 DEF StartDone, Active, Terminal, Goto, TypeOK, EntryTypes, RunTypes,
                entryVars, fallbackVars, stopVars
    <3>2. QED
      BY <2>1, <2>4, <3>1, OwnedStarted
  <2>5. CASE ~Live(d, r)
    <3>1. /\ workers'[d] = AfterStop(workers[d], runHost[d][r])
          /\ status'[d] = status[d]
          /\ \E label \in {"undo"} : pc'[d] = [pc[d] EXCEPT ![r] = label]
      BY <1>9, <2>5 DEF StartDone, Goto, TypeOK, EntryTypes, RunTypes,
                entryVars, fallbackVars, stopVars
    <3>2. QED
      BY <2>1, <2>2, <3>1, OwnedMove
  <2>6. QED
    BY <2>4, <2>5
<1>10. CASE OptionsBuilt(d, r)
  BY <1>2, <1>10, OwnedStartup
<1>11. CASE DefinitionLoaded(d, r)
  <2>1. /\ pc[d][r] = "definition" /\ Live(d, r)
        /\ host[d] < MaxHosts /\ host'[d] = host[d] + 1
        /\ pc'[d] = [pc[d] EXCEPT ![r] = "options"]
        /\ runHost'[d] = [runHost[d] EXCEPT ![r] = host[d] + 1]
        /\ workers'[d] = [workers[d] EXCEPT ![host[d] + 1] = "new"]
        /\ definition'[d] # "none"
        /\ UNCHANGED <<status[d], resident[d], run[d], fallback[d], fallbackRun[d], stopper[d]>>
    BY <1>11 DEF DefinitionLoaded, CreateWorker, Goto, TypeOK, EntryTypes, RunTypes,
                entryVars, fallbackVars, stopVars
  <2>2. r = run[d] /\ ~aborted[d] /\ status[d] \in Active /\ definition[d] = "none"
    BY <2>1 DEF Owned, LiveRunsOwn, Live, Working
  <2>3. AtRest(d) /\ resident[d] /\ stopper[d] = "idle"
    BY <2>2 DEF Owned, RecordOwns, StopOwns, AtRest
  <2>4. \A s \in Runs : pc[d][s] \notin Starting
    BY <2>1, <2>2 DEF Owned, StartsAwaited, Starting
  <2>5. fallback[d] = "idle" \/ fallbackRun[d] < r
    <3>1. ~Ending(d) /\ (fallback[d] # "idle" => fallbackRun[d] <= run[d])
      BY <2>1, <2>2 DEF Owned, FallbackOwns
    <3>2. QED
      BY <2>2, <3>1, HostRange DEF Ending
  <2>6. /\ run'[d] = r /\ status'[d] \in Active /\ resident'[d] /\ stopper'[d] = "idle"
        /\ fallback'[d] = "idle" \/ (UNCHANGED fallbackRun[d] /\ fallbackRun[d] < r)
    BY <2>1, <2>2, <2>3, <2>5
  <2>7. QED
    BY ZenonT(30), <2>1, <2>3, <2>4, <2>6, OwnedCreate
<1>12. QED
  BY <1>3, <1>4, <1>5, <1>6, <1>7, <1>8, <1>9, <1>10, <1>11 DEF RunStep

LEMMA FallbackOwned ==
  ASSUME TypeOK, RecordedIffRun, AllOwned, NEW d \in Delegations, FallbackStep(d)
  PROVE  AllOwned'
<1> USE DEF TypeOK, EntryTypes, RunTypes, FallbackTypes, runVars, stopVars, reconcileVars
<1>1. OthersKept(d) /\ overtaken' = overtaken
  BY DEF FallbackStep, FallbackStopped, FallbackRead, Launch, OthersKept
<1> SUFFICES ASSUME Owned(d) PROVE Owned(d)'
  BY <1>1, OthersOwned DEF AllOwned
<1> DEFINE kept == UNCHANGED <<resident[d], run[d], definition[d], host[d], workers[d], pc[d], runHost[d],
                               fallbackRun[d], fallbackHost[d], stopper[d], stopHost[d]>>
\* The fallback is over, or has the session read, and the record is untouched.
<1>2. CASE /\ kept /\ UNCHANGED <<status[d], aborted[d]>>
           /\ fallback'[d] = "idle" \/ (fallback'[d] = "reading" /\ fallback[d] # "idle" /\ (Ending(d) => Down(d)))
  BY <1>2 DEF Owned, NewestInUse, StartsAwaited, LiveRunsOwn, FallbackOwns, StopOwns, RecordOwns, AtRest, Down,
              Ending, Live
\* The fallback settles the run.
<1>3. CASE /\ kept /\ fallback'[d] = "idle" /\ Ending(d) /\ Down(d)
           /\ status'[d] \in {"failed", "cancelled"} /\ aborted'[d]
  <2>1. \A s \in Runs : pc[d][s] \notin Starting
    BY <1>3 DEF Owned, FallbackOwns, StartsAwaited, Starting
  <2>2. NewestInUse(d)'
    BY <1>3 DEF Owned, NewestInUse
  <2>3. LiveRunsOwn(d)' /\ StartsAwaited(d)' /\ FallbackOwns(d)'
    BY <1>3, <2>1 DEF LiveRunsOwn, StartsAwaited, FallbackOwns, Live, Ending
  <2>4. StopOwns(d)'
    BY <1>3 DEF Owned, StopOwns, Active
  <2>5. RecordOwns(d)'
    BY <1>3 DEF Owned, RecordOwns, Down, AtRest, Active
  <2>6. QED
    BY <2>2, <2>3, <2>4, <2>5 DEF Owned
<1>4. CASE FallbackStopped(d)
  <2>1. Ending(d) => Down(d)
    BY <1>4 DEF FallbackStopped, Owned, FallbackOwns, StopReturned, AtRest, Down, HasProcess, Alive
  <2>2. kept /\ fallback[d] # "idle"
    BY <1>4 DEF FallbackStopped
  <2>3. CASE status[d] \in Terminal \/ fallbackRun[d] # run[d] \/ ~(aborted[d] \/ stopRequested[d])
    <3>1. UNCHANGED <<status[d], aborted[d]>> /\ fallback'[d] \in {"idle", "reading"}
      BY <1>4, <2>3 DEF FallbackStopped
    <3>2. QED
      BY <1>2, <2>1, <2>2, <3>1
  <2>4. CASE ~(status[d] \in Terminal \/ fallbackRun[d] # run[d]) /\ (aborted[d] \/ stopRequested[d])
    <3>1. fallback'[d] = "idle" /\ status'[d] = "cancelled" /\ aborted'[d] /\ Ending(d)
      BY <1>4, <2>2, <2>4 DEF FallbackStopped, Ending
    <3>2. QED
      BY <1>3, <2>1, <2>2, <3>1
  <2>5. QED
    BY <2>3, <2>4
<1>5. CASE FallbackRead(d)
  <2>1. fallback[d] = "reading" /\ fallback'[d] = "idle"
    BY <1>5 DEF FallbackRead
  <2>2. Live(d, fallbackRun[d]) => Ending(d) /\ Down(d)
    BY <2>1 DEF Owned, FallbackOwns, Ending, Live
  <2>3. CASE UNCHANGED <<status, aborted, host, runVars>>
    BY <1>2, <1>5, <2>1, <2>3 DEF FallbackRead
  <2>4. CASE /\ Live(d, fallbackRun[d]) /\ UNCHANGED <<host, runVars>>
             /\ status' = [status EXCEPT ![d] = "failed"]
             /\ aborted' = [aborted EXCEPT ![d] = TRUE]
    BY <1>3, <1>5, <2>1, <2>2, <2>4 DEF FallbackRead
  <2>5. CASE /\ Live(d, fallbackRun[d]) /\ status[d] \in Active
             /\ Launch(d, fallbackRun[d])
             /\ workers' = [workers EXCEPT ![d][host[d] + 1] = "new"]
    <3>1. fallbackRun[d] = run[d] /\ run[d] \in Runs
      BY <2>5 DEF Live, RecordedIffRun, Recorded, Active
    <3>2. /\ host[d] < MaxHosts /\ host'[d] = host[d] + 1
          /\ pc'[d] = [pc[d] EXCEPT ![run[d]] = "options"]
          /\ runHost'[d] = [runHost[d] EXCEPT ![run[d]] = host[d] + 1]
          /\ workers'[d] = [workers[d] EXCEPT ![host[d] + 1] = "new"]
          /\ status'[d] = "running"
          /\ UNCHANGED <<resident[d], run[d], definition[d], stopper[d]>>
      BY <1>5, <2>5, <3>1 DEF FallbackRead, Launch
    <3>3. AtRest(d) /\ \A s \in Runs : pc[d][s] \notin Starting
      BY <2>2, <2>5 DEF Owned, FallbackOwns, StartsAwaited, Starting
    <3>4. resident[d] /\ stopper[d] = "idle"
      BY <2>5 DEF Owned, RecordOwns, StopOwns, Live
    <3>5. definition[d] # "none"
      BY <2>2, <2>5 DEF Owned, FallbackOwns
    <3> HIDE DEF TypeOK, EntryTypes, RunTypes, FallbackTypes
    <3>6. "running" \in Active
      BY DEF Active
    <3>7. QED
      BY <2>1, <3>1, <3>2, <3>3, <3>4, <3>5, <3>6, OwnedCreate
  <2>6. QED
    BY <1>5, <2>3, <2>4, <2>5 DEF FallbackRead
<1>6. QED
  BY <1>4, <1>5 DEF FallbackStep

-----------------------------------------------------------------------------
(* Starts, continues, stops and restarts.                                  *)

\* The worker of a delegation that is over is stopped; its entry may leave
\* the map.
LEMMA OwnedReap ==
  ASSUME TypeOK, NEW d \in Delegations, Owned(d), run[d] \in Runs, status[d] \notin Active,
         workers'[d] = AfterStop(workers[d], host[d]),
         UNCHANGED <<status[d], run[d], aborted[d], definition[d], host[d], pc[d], runHost[d],
                     fallback[d], fallbackRun[d], fallbackHost[d], stopper[d], stopHost[d]>>
  PROVE  Owned(d)'
<1> USE HostRange
<1>1. /\ \A h \in Hosts : workers[d][h] \notin {"booting", "up"} => workers'[d][h] = workers[d][h]
      /\ \A h \in Hosts : workers[d][h] \in {"booting", "up"} =>
           workers'[d][h] = workers[d][h] \/ (h = host[d] /\ workers'[d][h] = "closing")
      /\ \A h \in Hosts : h = host[d] /\ workers[d][h] # "preparing" => workers'[d][h] \notin Alive
  BY StopFades
<1>2. \A h \in Hosts : workers[d][h] # "preparing"
  BY DEF Owned, NewestInUse, StartsAwaited, Starting
<1>3. AtRest(d)' /\ (Down(d) => Down(d)')
  BY <1>1, <1>2 DEF AtRest, Down, HasProcess
<1>4. NewestInUse(d)'
  BY <1>1, <1>2 DEF Owned, NewestInUse, Alive
<1>5. StartsAwaited(d)'
  BY DEF Owned, StartsAwaited
<1>6. LiveRunsOwn(d)'
  BY <1>3 DEF Owned, LiveRunsOwn, Live
<1>7. FallbackOwns(d)'
  BY <1>3 DEF Owned, FallbackOwns, Ending
<1>8. StopOwns(d)' /\ RecordOwns(d)'
  BY <1>3 DEF Owned, StopOwns, RecordOwns
<1>9. QED
  BY <1>4, <1>5, <1>6, <1>7, <1>8 DEF Owned

LEMMA StartOwned ==
  ASSUME TypeOK, RecordedIffRun, AllOwned, NEW d \in Delegations,
         StartReserve(d) \/ StartCommit(d) \/ StartReject(d)
  PROVE  AllOwned'
<1>1. CASE StartReserve(d) \/ StartReject(d)
  <2>1. UNCHANGED <<entryVars, runVars, fallbackVars, stopVars, overtaken>>
    BY <1>1 DEF StartReserve, StartReject, reconcileVars
  <2>2. \A e \in Delegations : Owned(e) => Owned(e)'
    BY <2>1, OwnedFrame DEF entryVars, runVars, fallbackVars, stopVars
  <2>3. QED
    BY <2>1, <2>2 DEF AllOwned
<1>2. CASE StartCommit(d)
  <2>1. PICK gone \in SUBSET Delegations :
          /\ Evictable(d, gone)
          /\ resident' = [e \in Delegations |-> e = d \/ (resident[e] /\ e \notin gone)]
          /\ workers' = [EvictedWorkers(gone) EXCEPT ![d][1] = "new"]
    BY <1>2 DEF StartCommit
  <2>2. /\ starter[d] = "loading" /\ host[d] < MaxHosts
        /\ status' = [status EXCEPT ![d] = "running"]
        /\ run' = [run EXCEPT ![d] = 1]
        /\ definition' = [definition EXCEPT ![d] = "full"]
        /\ pc' = [pc EXCEPT ![d][1] = "options"]
        /\ host' = [host EXCEPT ![d] = @ + 1]
        /\ runHost' = [runHost EXCEPT ![d][1] = host[d] + 1]
        /\ UNCHANGED <<aborted, fallback, fallbackRun, fallbackHost, stopper, stopHost, overtaken>>
    BY <1>2 DEF StartCommit, Launch, fallbackVars, stopVars, reconcileVars
  <2> SUFFICES ASSUME NEW e \in Delegations \ overtaken, Owned(e) PROVE Owned(e)'
    BY <2>2 DEF AllOwned
  <2>3. CASE e # d
    <3>1. UNCHANGED <<status[e], run[e], aborted[e], definition[e], host[e], pc[e], runHost[e],
                      fallback[e], fallbackRun[e], fallbackHost[e], stopper[e], stopHost[e]>>
      BY <2>2, <2>3
    <3>2. CASE e \in gone
      <4>1. status[e] \in Terminal /\ run[e] \in Runs
        BY <2>1, <3>2 DEF Evictable, RecordedIffRun, Recorded, Terminal
      <4>2. workers'[e] = AfterStop(workers[e], host[e])
        BY <2>1, <2>3, <3>2 DEF EvictedWorkers
      <4>3. status[e] \notin Active
        BY <4>1 DEF Terminal, Active
      <4>4. QED
        BY <3>1, <4>1, <4>2, <4>3, OwnedReap
    <3>3. CASE e \notin gone
      <4>1. workers'[e] = workers[e] /\ resident'[e] = resident[e]
        BY <2>1, <2>3, <3>3 DEF EvictedWorkers, TypeOK, EntryTypes
      <4>2. QED
        BY <3>1, <4>1, OwnedFrame
    <3>4. QED
      BY <3>2, <3>3
  <2>4. CASE e = d
    <3>1. Untouched(d)
      BY <2>2 DEF RecordedIffRun, Recorded
    <3>2. /\ host[d] = 0 /\ stopper[d] = "idle" /\ fallback[d] = "idle" /\ AtRest(d)
          /\ \A s \in Runs : pc[d][s] \notin Starting
      BY <3>1 DEF Untouched, AtRest, Starting
    <3>3. workers'[d] = [workers[d] EXCEPT ![1] = "new"]
      <4>1. EvictedWorkers(gone)[d] = workers[d]
        BY <3>2 DEF EvictedWorkers, AfterStop
      <4>2. QED
        BY <2>1, <4>1 DEF EvictedWorkers
    <3>4. 1 \in Runs
      BY ParametersAssumption DEF Runs
    <3>5. /\ run'[d] = 1 /\ host'[d] = host[d] + 1
          /\ pc'[d] = [pc[d] EXCEPT ![1] = "options"]
          /\ runHost'[d] = [runHost[d] EXCEPT ![1] = host[d] + 1]
          /\ status'[d] = "running" /\ resident'[d] /\ definition'[d] = "full"
      BY <2>1, <2>2 DEF TypeOK, EntryTypes, RunTypes
    <3>6. "running" \in Active
      BY DEF Active
    <3>7. QED
      BY <2>2, <2>4, <3>2, <3>3, <3>4, <3>5, <3>6, OwnedCreate
  <2>5. QED
    BY <2>3, <2>4
<1>3. QED
  BY <1>1, <1>2

\* Here terminating a worker has to succeed.
LEMMA WorkerOwned ==
  ASSUME ~StopMayFail, TypeOK, AllOwned, NEW d \in Delegations, NEW k \in Hosts,
         WorkerStep(d, k) \/ WorkerExit(d, k)
  PROVE  AllOwned'
<1>1. /\ UNCHANGED <<status, resident, run, aborted, definition, host, pc, runHost, fallback, fallbackRun,
                     fallbackHost, stopper, stopHost, overtaken>>
      /\ \/ workers[d][k] = "preparing" /\ workers' = [workers EXCEPT ![d][k] = "booting"]
         \/ workers' = [workers EXCEPT ![d][k] = "gone"]
  <2>1. CASE Spawn(d, k)
    BY <2>1 DEF Spawn, entryVars, fallbackVars, stopVars, reconcileVars
  <2>2. CASE WorkerExit(d, k)
    BY <2>2 DEF WorkerExit, entryVars, fallbackVars, stopVars, reconcileVars
  <2>3. CASE CloseWorker(d, k)
    BY <2>3 DEF CloseWorker, entryVars, fallbackVars, stopVars, reconcileVars
  <2>4. QED
    BY <2>1, <2>2, <2>3 DEF WorkerStep
<1>2. OthersKept(d)
  BY <1>1 DEF OthersKept, TypeOK, RunTypes
<1> SUFFICES ASSUME Owned(d) PROVE Owned(d)'
  BY <1>1, <1>2, OthersOwned DEF AllOwned
<1> USE HostRange
<1>3. \A h \in Hosts : /\ h # k => workers'[d][h] = workers[d][h]
                       /\ h = k => \/ workers'[d][h] = "gone"
                                   \/ workers[d][h] = "preparing" /\ workers'[d][h] = "booting"
  BY <1>1 DEF TypeOK, RunTypes
<1>4. (AtRest(d) => AtRest(d)') /\ (Down(d) => Down(d)')
  BY <1>1, <1>3 DEF AtRest, Down, HasProcess, Alive
<1>5. NewestInUse(d)'
  BY <1>1, <1>3 DEF Owned, NewestInUse, Alive
<1>6. LiveRunsOwn(d)' /\ StartsAwaited(d)'
  BY <1>1, <1>4 DEF Owned, LiveRunsOwn, StartsAwaited, Live
<1>7. FallbackOwns(d)' /\ RecordOwns(d)'
  BY <1>1, <1>4 DEF Owned, FallbackOwns, RecordOwns, Ending
<1>8. StopOwns(d)'
  BY <1>1, <1>3 DEF Owned, StopOwns
<1>9. QED
  BY <1>5, <1>6, <1>7, <1>8 DEF Owned

LEMMA ContinueOwned ==
  ASSUME TypeOK, RecordedIffRun, AllOwned, NEW d \in Delegations, Continue(d)
  PROVE  AllOwned'
<1> DEFINE r == run[d] + 1
<1>1. OthersKept(d) /\ overtaken' = overtaken
  BY DEF Continue, CreateWorker, Goto, OthersKept, fallbackVars, stopVars, reconcileVars, TypeOK, EntryTypes, RunTypes
<1> SUFFICES ASSUME Owned(d) PROVE Owned(d)'
  BY <1>1, OthersOwned DEF AllOwned
<1>2. /\ r \in Runs /\ resident[d] /\ stopper[d] = "idle" /\ status[d] \in Terminal
      /\ run'[d] = r
      /\ UNCHANGED <<resident[d], fallback[d], fallbackRun[d], fallbackHost[d], stopper[d], stopHost[d], definition[d]>>
  BY DEF Continue, MayContinue, fallbackVars, stopVars, TypeOK, EntryTypes
<1>3. run[d] \in Runs /\ status[d] \notin Active
  BY <1>2 DEF RecordedIffRun, Recorded, Terminal, Active
<1>4. /\ \A s \in Runs : pc[d][s] \notin Starting
      /\ \A h \in Hosts : workers[d][h] # "preparing"
  BY <1>3 DEF Owned, NewestInUse, StartsAwaited, Starting
<1>5. fallback[d] = "idle" \/ fallbackRun[d] < r
  BY HostRange DEF Owned, FallbackOwns
<1>6. CASE /\ \E label \in {"definition", "baseline"} :
                pc' = [pc EXCEPT ![d][r] = label] /\ (label = "definition" => definition[d] = "none")
           /\ runHost' = [runHost EXCEPT ![d][r] = host[d]]
           /\ status'[d] \in Active
           /\ UNCHANGED <<host, workers>>
  <2>1. /\ \A s \in Runs : /\ s # r => pc'[d][s] = pc[d][s]
                           /\ s = r => pc'[d][s] \in {"definition", "baseline"} /\ runHost'[d][s] = host[d]
        /\ pc'[d][r] = "definition" => definition[d] = "none"
    BY <1>2, <1>6 DEF TypeOK, RunTypes
  <2>2. NewestInUse(d)'
    BY <1>4, <1>6 DEF Owned, NewestInUse
  <2>3. StartsAwaited(d)'
    BY <1>4, <2>1 DEF StartsAwaited, Starting
  <2>4. LiveRunsOwn(d)'
    <3> SUFFICES ASSUME NEW s \in Runs, Live(d, s)' PROVE s = r
      BY <1>2, <1>6, <2>1 DEF LiveRunsOwn
    <3>1. QED
      BY <1>2 DEF Live
  <2>5. FallbackOwns(d)' /\ StopOwns(d)'
    BY <1>2, <1>5, HostRange DEF FallbackOwns, StopOwns, Ending
  <2>6. RecordOwns(d)'
    BY <1>2, <1>6 DEF Owned, RecordOwns, Active
  <2>7. QED
    BY <2>2, <2>3, <2>4, <2>5, <2>6 DEF Owned
<1>7. CASE /\ definition[d] # "none"
           /\ host[d] # 0 => ~IsRunning(workers[d][host[d]])
           /\ status'[d] \in Active /\ CreateWorker(d, r)
  <2>1. /\ host[d] < MaxHosts /\ host'[d] = host[d] + 1
        /\ pc'[d] = [pc[d] EXCEPT ![r] = "options"]
        /\ runHost'[d] = [runHost[d] EXCEPT ![r] = host[d] + 1]
        /\ workers'[d] = [workers[d] EXCEPT ![host[d] + 1] = "new"]
    BY <1>7 DEF CreateWorker, Goto, TypeOK, EntryTypes, RunTypes
  <2>2. AtRest(d)
    BY <1>4, <1>7, HostRange DEF AtRest, Alive, IsRunning
  <2>3. /\ r \in Runs /\ run'[d] = r /\ resident'[d] /\ definition'[d] # "none" /\ stopper'[d] = "idle"
        /\ fallback'[d] = "idle" \/ (UNCHANGED fallbackRun[d] /\ fallbackRun[d] < r)
    BY <1>2, <1>5, <1>7
  <2> HIDE DEF r
  <2>4. QED
    BY <1>4, <1>7, <2>1, <2>2, <2>3, OwnedCreate
<1>8. status'[d] \in Active
  BY DEF Continue, TypeOK, EntryTypes, Active
<1>9. QED
  BY <1>6, <1>7, <1>8 DEF Continue, Goto

\* stopEntry: the delegation is active and not being stopped yet.
LEMMA OwnedStop ==
  ASSUME TypeOK, NEW d \in Delegations, Owned(d), status[d] \in Active, stopper[d] = "idle",
         aborted'[d], stopHost'[d] = host[d],
         stopper'[d] = IF host[d] # 0 /\ workers[d][host[d]] \in {"booting", "up", "closing"}
                       THEN "stopping" ELSE "starting",
         workers'[d] = AfterStop(workers[d], host[d]),
         UNCHANGED <<status[d], resident[d], run[d], definition[d], host[d], pc[d], runHost[d],
                     fallback[d], fallbackRun[d], fallbackHost[d]>>
  PROVE  Owned(d)'
<1> USE HostRange
<1>1. /\ \A h \in Hosts : workers[d][h] \notin {"booting", "up"} => workers'[d][h] = workers[d][h]
      /\ \A h \in Hosts : workers[d][h] \in {"booting", "up"} =>
           workers'[d][h] = workers[d][h] \/ (h = host[d] /\ workers'[d][h] = "closing")
  BY StopFades
<1>2. (AtRest(d) => AtRest(d)') /\ (Down(d) => Down(d)')
  BY <1>1 DEF AtRest, Down, HasProcess, Alive
<1>3. NewestInUse(d)'
  BY <1>1 DEF Owned, NewestInUse, Alive
<1>4. StartsAwaited(d)'
  BY DEF Owned, StartsAwaited
<1>5. LiveRunsOwn(d)'
  BY DEF LiveRunsOwn, Live
<1>6. FallbackOwns(d)'
  BY <1>2 DEF Owned, FallbackOwns, Ending
<1>7. StopOwns(d)'
  BY <1>1 DEF StopOwns
<1>8. RecordOwns(d)'
  BY <1>2 DEF Owned, RecordOwns
<1>9. QED
  BY <1>3, <1>4, <1>5, <1>6, <1>7, <1>8 DEF Owned

LEMMA StopEntriesOwned ==
  ASSUME TypeOK, RecordedIffRun, AllOwned, NEW ids \in SUBSET Delegations, NEW outcome,
         NEW over \in SUBSET {d \in Delegations : status[d] \in Terminal},
         StopEntries(ids, outcome), workers' = StoppedWorkers(Stoppable(ids) \cup over),
         UNCHANGED <<status, resident, run, definition, host, pc, runHost, fallbackVars, overtaken>>
  PROVE  AllOwned'
<1> SUFFICES ASSUME NEW e \in Delegations \ overtaken, Owned(e) PROVE Owned(e)'
  BY DEF AllOwned
<1>1. UNCHANGED <<fallback, fallbackRun, fallbackHost>>
  BY DEF fallbackVars
<1>2. CASE e \in Stoppable(ids)
  <2>1. status[e] \in Active /\ stopper[e] = "idle"
    BY <1>2 DEF Stoppable
  <2>2. /\ aborted'[e] /\ stopHost'[e] = host[e]
        /\ stopper'[e] = IF host[e] # 0 /\ workers[e][host[e]] \in {"booting", "up", "closing"}
                         THEN "stopping" ELSE "starting"
        /\ workers'[e] = AfterStop(workers[e], host[e])
    BY <1>2 DEF StopEntries, StoppedWorkers
  <2>3. QED
    BY <1>1, <2>1, <2>2, OwnedStop
<1>3. CASE e \notin Stoppable(ids)
  <2>1. UNCHANGED <<aborted[e], stopHost[e], stopper[e]>>
    BY <1>3 DEF StopEntries, TypeOK, EntryTypes, StopTypes
  <2>2. CASE e \in over
    <3>1. status[e] \notin Active /\ run[e] \in Runs
      BY <2>2 DEF RecordedIffRun, Recorded, Terminal, Active
    <3>2. workers'[e] = AfterStop(workers[e], host[e])
      BY <2>2 DEF StoppedWorkers
    <3>3. QED
      BY <1>1, <2>1, <3>1, <3>2, OwnedReap
  <2>3. CASE e \notin over
    <3>1. workers'[e] = workers[e]
      BY <1>3, <2>3 DEF StoppedWorkers
    <3>2. QED
      BY <1>1, <2>1, <3>1, OwnedFrame
  <2>4. QED
    BY <2>2, <2>3
<1>4. QED
  BY <1>2, <1>3

LEMMA UserStopOwned ==
  ASSUME TypeOK, RecordedIffRun, AllOwned
  PROVE  /\ \A d \in Delegations : StopOne(d) => AllOwned'
         /\ \A p \in Parents : StopParent(p) \/ ResumeParent(p) => AllOwned'
         /\ StopAll => AllOwned'
<1>1. ASSUME NEW ids \in SUBSET Delegations, workers' = StoppedWorkers(Stoppable(ids))
      PROVE  \E over \in SUBSET {d \in Delegations : status[d] \in Terminal} :
               workers' = StoppedWorkers(Stoppable(ids) \cup over)
  <2>1. {} \in SUBSET {d \in Delegations : status[d] \in Terminal} /\ Stoppable(ids) \cup {} = Stoppable(ids)
    OBVIOUS
  <2>2. workers' = StoppedWorkers(Stoppable(ids) \cup {})
    BY <1>1, <2>1
  <2>3. QED
    BY <2>1, <2>2
<1>2. ASSUME NEW d \in Delegations, StopOne(d) PROVE AllOwned'
  <2>1. /\ StopEntries({d}, "cancelled")
        /\ workers' = StoppedWorkers(Stoppable({d}))
        /\ UNCHANGED <<status, resident, run, definition, host, pc, runHost, fallbackVars, overtaken>>
    BY <1>2 DEF StopOne, reconcileVars
  <2>2. {d} \in SUBSET Delegations
    OBVIOUS
  <2>3. QED
    BY <1>1, <2>1, <2>2, StopEntriesOwned
<1>3. ASSUME NEW p \in Parents, StopParent(p) PROVE AllOwned'
  <2> DEFINE children == {d \in Delegations : ParentOf[d] = p}
  <2>1. /\ StopEntries(children, "cancelled")
        /\ workers' = StoppedWorkers(Stoppable(children))
        /\ UNCHANGED <<status, resident, run, definition, host, pc, runHost, fallbackVars, overtaken>>
    BY <1>3 DEF StopParent, reconcileVars
  <2>2. children \in SUBSET Delegations
    OBVIOUS
  <2> HIDE DEF children
  <2>3. QED
    BY <1>1, <2>1, <2>2, StopEntriesOwned
<1>4. ASSUME NEW p \in Parents, ResumeParent(p) PROVE AllOwned'
  BY <1>4, OwnedFrame DEF ResumeParent, AllOwned, entryVars, runVars, fallbackVars, stopVars, reconcileVars
<1>5. ASSUME StopAll PROVE AllOwned'
  <2> DEFINE known == {d \in Delegations : resident[d]}
             over == {d \in known : status[d] \in Terminal}
  <2>1. /\ StopEntries(known, "interrupted")
        /\ workers' = StoppedWorkers(Stoppable(known) \cup over)
        /\ UNCHANGED <<status, resident, run, definition, host, pc, runHost, fallbackVars, overtaken>>
    BY <1>5 DEF StopAll, reconcileVars
  <2>2. known \in SUBSET Delegations /\ over \in SUBSET {d \in Delegations : status[d] \in Terminal}
    OBVIOUS
  <2> HIDE DEF known, over
  <2>3. QED
    BY <2>1, <2>2, StopEntriesOwned
<1>6. QED
  BY <1>2, <1>3, <1>4, <1>5

\* entry.stopping is over and the run, unless it ended otherwise, stopped.
LEMMA OwnedStopped ==
  ASSUME TypeOK, NEW d \in Delegations, Owned(d), run[d] \in Runs, status[d] # "absent", StopSettles(d)
  PROVE  Owned(d)'
<1> USE HostRange
<1>1. /\ stopper[d] # "idle" /\ stopper'[d] = "idle" /\ stopHost[d] = host[d] /\ aborted[d]
      /\ UNCHANGED <<resident[d], run[d], definition[d], host[d], pc[d], runHost[d], stopHost[d]>>
  BY DEF StopSettles, Owned, StopOwns, TypeOK, StopTypes
<1>2. stopStatus[d] \in {"cancelled", "interrupted"} /\ Settle(d, stopStatus[d])
  BY DEF StopSettles, TypeOK, StopTypes
<1>3. \A s \in Runs : pc[d][s] \notin Starting
  BY DEF StopSettles, Owned, StartsAwaited
<1>4. \A h \in Hosts : workers[d][h] # "preparing"
  BY <1>3 DEF Owned, NewestInUse, Starting
<1>5. status[d] \in Active => Down(d)
  <2> SUFFICES ASSUME status[d] \in Active, host[d] # 0 PROVE ~HasProcess(workers[d][host[d]])
    BY DEF Down
  <2>1. CASE stopper[d] = "again"
    <3>1. workers[d][host[d]] = "gone"
      BY <1>1, <2>1 DEF StopSettles
    <3>2. QED
      BY <3>1 DEF HasProcess
  <2>2. CASE stopper[d] = "starting"
    <3>1. ~IsRunning(workers[d][host[d]])
      BY <1>1, <2>2 DEF StopSettles
    <3>2. workers[d][host[d]] # "closing"
      BY <1>3, <2>2 DEF Owned, StopOwns, Starting
    <3>3. QED
      BY <1>4, <3>1, <3>2 DEF HasProcess, IsRunning
  <2>3. QED
    BY <2>1, <2>2 DEF StopSettles
<1>6. /\ \/ status[d] \in Terminal /\ UNCHANGED status[d]
         \/ status[d] \in Active /\ status'[d] \in {"cancelled", "interrupted"}
      /\ aborted'[d]
      /\ UNCHANGED <<workers[d], fallback[d], fallbackRun[d], fallbackHost[d]>>
  BY <1>1, <1>2 DEF Settle, Finish, fallbackVars, TypeOK, EntryTypes, Statuses, Active, Terminal
<1>7. status'[d] \notin Active
  BY <1>6 DEF Active, Terminal
<1>8. NewestInUse(d)' /\ StartsAwaited(d)' /\ LiveRunsOwn(d)' /\ StopOwns(d)'
  BY <1>1, <1>3, <1>4, <1>6 DEF Owned, NewestInUse, StartsAwaited, LiveRunsOwn, StopOwns, Live
<1>9. FallbackOwns(d)'
  BY <1>1, <1>6 DEF Owned, FallbackOwns, Ending, AtRest, Down
<1>10. RecordOwns(d)'
  BY <1>1, <1>5, <1>6, <1>7 DEF Owned, RecordOwns, AtRest, Down
<1>11. QED
  BY <1>8, <1>9, <1>10 DEF Owned

LEMMA StopStepOwned ==
  ASSUME TypeOK, RecordedIffRun, AllOwned, NEW d \in Delegations, StopStep(d)
  PROVE  AllOwned'
<1>1. CASE StopSettles(d)
  <2>1. stopStatus[d] \in Terminal /\ Settle(d, stopStatus[d])
    BY <1>1 DEF StopSettles, TypeOK, StopTypes, Terminal
  <2>2. OthersKept(d) /\ overtaken' = overtaken
    BY <1>1, <2>1, SettleOthers DEF StopSettles, OthersKept, reconcileVars
  <2>3. status[d] # "absent" /\ run[d] \in Runs
    BY <1>1 DEF StopSettles, RecordedIffRun, Recorded, Untouched
  <2>4. d \notin overtaken => Owned(d)'
    BY <1>1, <2>3, OwnedStopped DEF AllOwned
  <2>5. QED
    BY <2>2, <2>4, OthersOwned
<1>2. CASE StopRejected(d) \/ StopHostDone(d)
  <2>1. /\ UNCHANGED <<entryVars, runVars, fallbackVars, stopHost, overtaken>>
        /\ \/ stopper' = [stopper EXCEPT ![d] = "idle"]
           \/ /\ stopper[d] = "stopping" /\ workers[d][stopHost[d]] = "gone"
              /\ stopper' = [stopper EXCEPT ![d] = "starting"]
    BY <1>2 DEF StopRejected, StopHostDone, reconcileVars
  <2>2. OthersKept(d)
    BY <2>1 DEF OthersKept, entryVars, runVars, fallbackVars, TypeOK, StopTypes
  <2>3. Owned(d) => Owned(d)'
    BY <2>1 DEF Owned, NewestInUse, StartsAwaited, LiveRunsOwn, FallbackOwns, StopOwns, RecordOwns, AtRest, Down,
                Ending, Live, entryVars, runVars, fallbackVars, TypeOK, StopTypes
  <2>4. QED
    BY <2>1, <2>2, <2>3, OthersOwned DEF AllOwned
<1>3. CASE StartingOver(d)
  <2>1. /\ UNCHANGED <<entryVars, pc, runHost, fallbackVars, stopHost, overtaken>>
        /\ stopper' = [stopper EXCEPT ![d] = "again"]
        /\ workers' = [workers EXCEPT ![d] = AfterStop(@, stopHost[d])]
        /\ stopper[d] = "starting"
        /\ \A s \in Runs : pc[d][s] \notin Starting
    BY <1>3 DEF StartingOver, reconcileVars
  <2>2. OthersKept(d)
    BY <2>1 DEF OthersKept, entryVars, fallbackVars
  <2> SUFFICES ASSUME Owned(d) PROVE Owned(d)'
    BY <2>1, <2>2, OthersOwned DEF AllOwned
  <2>3. /\ stopper'[d] = "again" /\ stopHost[d] = host[d] /\ aborted[d]
        /\ workers'[d] = AfterStop(workers[d], host[d])
        /\ UNCHANGED <<status[d], resident[d], run[d], aborted[d], definition[d], host[d], pc[d], runHost[d],
                       fallback[d], fallbackRun[d], fallbackHost[d], stopHost[d]>>
    BY <2>1 DEF Owned, StopOwns, entryVars, fallbackVars, TypeOK, RunTypes, StopTypes
  <2>4. /\ \A h \in Hosts : workers[d][h] \notin {"booting", "up"} => workers'[d][h] = workers[d][h]
        /\ \A h \in Hosts : workers[d][h] \in {"booting", "up"} =>
             workers'[d][h] = workers[d][h] \/ (h = host[d] /\ workers'[d][h] = "closing")
    BY <2>3, HostRange, StopFades
  <2>5. (AtRest(d) => AtRest(d)') /\ (Down(d) => Down(d)')
    BY <2>3, <2>4, HostRange DEF AtRest, Down, HasProcess, Alive
  <2>6. NewestInUse(d)'
    BY <2>3, <2>4 DEF Owned, NewestInUse, Alive
  <2>7. StartsAwaited(d)' /\ LiveRunsOwn(d)' /\ StopOwns(d)'
    BY <2>1, <2>3 DEF StartsAwaited, LiveRunsOwn, StopOwns, Live
  <2>8. FallbackOwns(d)' /\ RecordOwns(d)'
    BY <2>3, <2>5 DEF Owned, FallbackOwns, RecordOwns, Ending
  <2>9. QED
    BY <2>6, <2>7, <2>8 DEF Owned
<1>4. QED
  BY <1>1, <1>2, <1>3 DEF StopStep

\* A restart leaves nothing behind; reconciliation either leaves the run of
\* the record alone or is remembered.
LEMMA RestartOwned ==
  ASSUME TypeOK, AllOwned
  PROVE  /\ Restart => AllOwned'
         /\ \A d \in Delegations : ReconcileNext(d) => AllOwned'
         /\ \A d \in Delegations, found \in BOOLEAN : ReconcileRead(d, found) => AllOwned'
<1>1. Restart => AllOwned'
  <2> SUFFICES ASSUME Restart, NEW d \in Delegations PROVE Owned(d)'
    BY DEF AllOwned
  <2>1. /\ status'[d] \notin Active /\ host'[d] = 0 /\ fallback'[d] = "idle" /\ stopper'[d] = "idle"
        /\ \A h \in Hosts : workers'[d][h] = "none"
        /\ \A r \in Runs : pc'[d][r] = "none"
    BY DEF Restart, Hydrated, Active
  <2>2. QED
    BY <2>1 DEF Owned, NewestInUse, StartsAwaited, LiveRunsOwn, FallbackOwns, StopOwns, RecordOwns, AtRest, Down,
                Ending, Alive, Working, Racing, Starting
<1>2. ASSUME NEW d \in Delegations, ReconcileNext(d) PROVE AllOwned'
  BY <1>2, OwnedFrame DEF ReconcileNext, AllOwned, entryVars, runVars, fallbackVars, stopVars
<1>3. ASSUME NEW d \in Delegations, NEW found \in BOOLEAN, ReconcileRead(d, found) PROVE AllOwned'
  <2>1. /\ UNCHANGED <<resident, run, aborted, definition, host, runVars, fallbackVars, stopVars>>
        /\ overtaken \subseteq overtaken'
        /\ \A e \in Delegations \ {d} : UNCHANGED status[e]
        /\ d \notin overtaken' => status'[d] = status[d] \/ (status[d] \notin Active /\ status'[d] = "completed")
    BY <1>3 DEF ReconcileRead, TypeOK, EntryTypes
  <2>2. OthersKept(d)
    BY <2>1 DEF OthersKept, runVars, fallbackVars, stopVars
  <2>3. ASSUME Owned(d), d \notin overtaken' PROVE Owned(d)'
    <3>1. CASE status'[d] = status[d]
      BY <2>1, <2>3, <3>1, OwnedFrame DEF runVars, fallbackVars, stopVars
    <3>2. CASE status[d] \notin Active /\ status'[d] = "completed"
      BY <2>1, <2>3, <3>2
      DEF Owned, NewestInUse, StartsAwaited, LiveRunsOwn, FallbackOwns, StopOwns, RecordOwns, AtRest, Down,
          Ending, Live, Active, runVars, fallbackVars, stopVars
    <3>3. QED
      BY <2>1, <2>3, <3>1, <3>2
  <2>4. QED
    BY <2>1, <2>2, <2>3, OwnedFrame DEF AllOwned, OthersKept
<1>4. QED
  BY <1>1, <1>2, <1>3

-----------------------------------------------------------------------------
(* What follows for the processes of a delegation.                         *)

\* Every process of a delegation belongs to its newest worker and to the run
\* or the stop that is responsible for it.
THEOREM WorkersAreOwned == ASSUME ~StopMayFail PROVE Spec => []AllOwned
<1>1. Init => AllOwned
  BY DEF Init, AllOwned, Owned, NewestInUse, StartsAwaited, LiveRunsOwn, FallbackOwns, StopOwns, RecordOwns, AtRest,
         Down, Ending, Alive, Active, Working, Racing, Starting
<1>2. TypeOK /\ RecordedIffRun /\ StopsHold /\ AllOwned /\ [Next]_vars => AllOwned'
  <2> SUFFICES ASSUME TypeOK, RecordedIffRun, StopsHold, AllOwned, [Next]_vars PROVE AllOwned'
    OBVIOUS
  <2>1. CASE UNCHANGED vars
    BY <2>1, OwnedFrame DEF AllOwned, vars, entryVars, runVars, fallbackVars, stopVars, reconcileVars
  <2>2. CASE Next
    BY <2>2, StartOwned, RunStepOwned, WorkerOwned, FallbackOwned, ContinueOwned, UserStopOwned, StopStepOwned,
       RestartOwned
    DEF Next, StartStep
  <2>3. QED
    BY <2>1, <2>2
<1>3. QED
  BY <1>1, <1>2, TypeCorrect, RecordsCorrect, StopsAreKept, PTL DEF Spec

\* A delegation never has two workers on its session, and none once it has
\* failed or was stopped, through any sequence of starts, stops, continues,
\* fallbacks and restarts, as long as terminating a process succeeds and
\* reconciliation did not write over a run under way.
THEOREM WorkersAccounted == ASSUME ~StopMayFail PROVE Spec => []WorkersAccountedFor
<1>1. AllOwned => OneWorkerPerSession
  BY DEF AllOwned, Owned, NewestInUse, OneWorkerPerSession, Alive
<1>2. AllOwned => NoWorkerBehindFailure
  BY DEF AllOwned, Owned, RecordOwns, Down, NoWorkerBehindFailure
<1>3. AllOwned => WorkersAccountedFor
  BY <1>1, <1>2 DEF WorkersAccountedFor
<1>4. QED
  BY <1>3, WorkersAreOwned, PTL

\* An entry that has left the map left no worker in use behind, so closing
\* the window reaches every process there is.
THEOREM EvictionReaps == ASSUME ~StopMayFail PROVE Spec => []EvictedHasNoWorker
<1>1. AllOwned => EvictedHasNoWorker
  BY ParametersAssumption DEF AllOwned, Owned, NewestInUse, RecordOwns, AtRest, EvictedHasNoWorker, Alive, Hosts
<1>2. QED
  BY <1>1, WorkersAreOwned, PTL

-----------------------------------------------------------------------------
(* The contract: status and run number only go through its transitions,    *)
(* apart from a restart, which ends all runs at once, and reconciliation,  *)
(* which turns a failed record into a completed one.                       *)

\* From the first prompt to the last answer of a run.
Underway == {"baseline", "best", "truncating"} \cup Racing

\* A run that prompts has been activated: a report, or a cut one, never comes
\* from a record that is still pending.
PromptsRun ==
  \A d \in Delegations, r \in Runs : Live(d, r) /\ pc[d][r] \in Underway => status[d] # "pending"

\* Only continue makes a record pending, and its run has not prompted then.
LEMMA ContinuePending ==
  ASSUME TypeOK, PromptsRun, NEW d \in Delegations, Continue(d)
  PROVE  PromptsRun'
<1> SUFFICES ASSUME NEW e \in Delegations, NEW s \in Runs, Live(e, s)', pc'[e][s] \in Underway,
                    status'[e] = "pending"
             PROVE  FALSE
  BY DEF PromptsRun
<1> USE DEF TypeOK, EntryTypes, RunTypes, Live
<1>1. /\ run' = [run EXCEPT ![d] = @ + 1] /\ aborted' = [aborted EXCEPT ![d] = FALSE]
      /\ run[d] + 1 \in Runs
  BY DEF Continue
<1>2. CASE e = d
  <2>1. s = run[d] + 1
    BY <1>1, <1>2 DEF Runs
  <2>2. pc'[d][s] \in {"definition", "options"} \/ status'[d] = "running"
    BY <1>1, <2>1 DEF Continue, CreateWorker, Goto
  <2>3. QED
    BY <1>2, <2>2 DEF Underway, Racing
<1>3. CASE e # d
  <2>1. UNCHANGED <<run[e], aborted[e]>>
    BY <1>1, <1>3
  <2>2. UNCHANGED <<status[e], pc[e]>>
    BY <1>3 DEF Continue, CreateWorker, Goto
  <2>3. QED
    BY <2>1, <2>2 DEF PromptsRun
<1>4. QED
  BY <1>2, <1>3

\* A run only enters that stretch when it is activated.
LEMMA RunStepPending ==
  ASSUME TypeOK, PromptsRun, NEW d \in Delegations, NEW r \in Runs,
         RunStep(d, r) \/ BecomesIdle(d, r) \/ TurnLimit(d, r)
  PROVE  PromptsRun'
<1> SUFFICES ASSUME NEW e \in Delegations, NEW s \in Runs, Live(e, s)', pc'[e][s] \in Underway,
                    status'[e] = "pending"
             PROVE  FALSE
  BY DEF PromptsRun
<1> USE DEF TypeOK, EntryTypes, RunTypes
<1>1. run' = run
  BY DEF RunStep, BecomesIdle, TurnLimit, Abandon, PrepareFails, RunFails, FailRun, DefinitionLoaded,
      OptionsBuilt, StartDone, StartFails, UndoDone, Advance, Judge, Nudge, NudgeFails, BestEffortRead,
      SettleStopped, entryVars
<1>2. status[e] = "pending" /\ ~aborted[e] => pc[e][s] \notin Underway
  BY <1>1 DEF PromptsRun, Live
<1>3. CASE Judge(d, r) \/ NudgeFails(d, r) \/ SettleStopped(d, r)
  <2>1. PICK outcome \in Terminal : Settle(d, outcome)
    BY <1>3 DEF Judge, NudgeFails, SettleStopped, Terminal
  <2>2. pc' = [pc EXCEPT ![d][r] = "done"]
    BY <1>3 DEF Judge, NudgeFails, SettleStopped, Goto
  <2>3. pc'[e][s] = pc[e][s]
    BY <2>2 DEF Underway, Racing
  <2>4. status[e] = "pending" /\ ~aborted[e]
    BY <2>1 DEF Settle, BeginFallback, Finish, Terminal, Live
  <2>5. QED
    BY <1>2, <2>3, <2>4
<1>4. CASE StartDone(d, r)
  <2>1. status[e] = "pending" /\ ~aborted[e]
    BY <1>4 DEF StartDone, Live
  <2>2. pc'[e][s] \in {"failing", "undo"} \/ pc'[e][s] = pc[e][s]
    <3>1. CASE e = d
      BY <1>4, <3>1 DEF StartDone, Fail, Goto
    <3>2. CASE e # d
      BY <1>4, <3>2 DEF StartDone, Fail, Goto
    <3>3. QED
      BY <3>1, <3>2
  <2>3. QED
    BY <1>2, <2>1, <2>2 DEF Underway, Racing
<1>5. CASE ~(Judge(d, r) \/ NudgeFails(d, r) \/ SettleStopped(d, r) \/ StartDone(d, r))
  <2>1. status' = status /\ aborted' = aborted
    BY <1>5
    DEF RunStep, BecomesIdle, TurnLimit, Abandon, PrepareFails, RunFails, FailRun, DefinitionLoaded,
      OptionsBuilt, StartFails, UndoDone, Advance, Nudge, BestEffortRead, entryVars
  <2>2. status[e] = "pending" /\ ~aborted[e]
    BY <2>1 DEF Live
  <2>3. /\ \A f \in Delegations, t \in Runs : <<f, t>> # <<d, r>> => pc'[f][t] = pc[f][t]
        /\ pc'[d][r] \in Underway => pc[d][r] \in Underway
    <3>1. CASE Abandon(d, r) \/ OptionsBuilt(d, r) \/ UndoDone(d, r) \/ Nudge(d, r) \/ TurnLimit(d, r) \/ BestEffortRead(d, r)
      BY <3>1 DEF Abandon, OptionsBuilt, UndoDone, Nudge, TurnLimit, BestEffortRead, Goto, Underway, Racing
    <3>2. CASE StartFails(d, r) \/ PrepareFails(d, r) \/ RunFails(d, r)
      BY <3>2 DEF StartFails, PrepareFails, RunFails, FailRun, Fail, Goto, Underway, Racing
    <3>3. CASE Advance(d, r) \/ BecomesIdle(d, r)
      BY <3>3 DEF Advance, BecomesIdle, Goto, Underway, Racing
    <3>4. CASE DefinitionLoaded(d, r)
      BY <3>4 DEF DefinitionLoaded, CreateWorker, Goto, Underway, Racing
    <3>5. QED
      BY <1>5, <3>1, <3>2, <3>3, <3>4 DEF RunStep
  <2>4. QED
    BY <1>2, <2>2, <2>3
<1>6. QED
  BY <1>3, <1>4, <1>5

\* A stop by the user, of one delegation or of many, is stopEntry for each.
LEMMA UserStopsEntries ==
  ASSUME \/ \E d \in Delegations : StopOne(d)
         \/ \E p \in Parents : StopParent(p)
         \/ StopAll
  PROVE  \E ids \in SUBSET Delegations, outcome \in Statuses : StopEntries(ids, outcome)
<1>1. {"cancelled", "interrupted"} \subseteq Statuses
  BY DEF Statuses, Terminal
<1>2. ASSUME NEW d \in Delegations, StopOne(d)
      PROVE  \E ids \in SUBSET Delegations : StopEntries(ids, "cancelled")
  <2>1. {d} \in SUBSET Delegations /\ StopEntries({d}, "cancelled")
    BY <1>2 DEF StopOne
  <2>2. QED
    BY <2>1
<1>3. ASSUME NEW p \in Parents, StopParent(p)
      PROVE  \E ids \in SUBSET Delegations : StopEntries(ids, "cancelled")
  <2> DEFINE children == {d \in Delegations : ParentOf[d] = p}
  <2>1. children \in SUBSET Delegations /\ StopEntries(children, "cancelled")
    BY <1>3 DEF StopParent
  <2>2. QED
    BY <2>1
<1>4. ASSUME StopAll PROVE \E ids \in SUBSET Delegations : StopEntries(ids, "interrupted")
  <2> DEFINE known == {d \in Delegations : resident[d]}
  <2>1. known \in SUBSET Delegations /\ StopEntries(known, "interrupted")
    BY <1>4 DEF StopAll
  <2>2. QED
    BY <2>1
<1>5. QED
  BY <1>1, <1>2, <1>3, <1>4

\* No other step makes a record pending, revives a signal or moves a run on.
LEMMA OtherStepsPending ==
  ASSUME TypeOK, PromptsRun, Next,
         ~ \E d \in Delegations : Continue(d),
         ~ \E d \in Delegations, r \in Runs : RunStep(d, r) \/ BecomesIdle(d, r) \/ TurnLimit(d, r)
  PROVE  PromptsRun'
<1> SUFFICES ASSUME NEW e \in Delegations, NEW s \in Runs, Live(e, s)', pc'[e][s] \in Underway,
                    status'[e] = "pending"
             PROVE  FALSE
  BY DEF PromptsRun
<1> USE DEF TypeOK, EntryTypes, RunTypes
<1> DEFINE Before == status[e] = "pending" /\ ~aborted[e] /\ run[e] = run'[e] /\ pc[e][s] = pc'[e][s]
<1>1. ASSUME NEW d \in Delegations, FallbackStep(d) PROVE Before
  <2>1. CASE FallbackStopped(d)
    BY <2>1 DEF FallbackStopped, runVars, Live
  <2>2. CASE FallbackRead(d)
    BY <2>2 DEF FallbackRead, Launch, runVars, Underway, Racing, Live
  <2>3. QED
    BY <1>1, <2>1, <2>2 DEF FallbackStep
<1>2. ASSUME NEW d \in Delegations, StopStep(d) PROVE Before
  <2>1. CASE StopRejected(d) \/ StopHostDone(d) \/ StartingOver(d)
    BY <2>1 DEF StopRejected, StopHostDone, StartingOver, entryVars, runVars, Live
  <2>2. CASE StopSettles(d)
    <3>1. /\ stopStatus[d] \in Terminal /\ Settle(d, stopStatus[d])
          /\ UNCHANGED <<run, pc>>
      BY <2>2 DEF StopSettles, StopTypes, Terminal
    <3>2. status[e] = "pending" /\ ~aborted[e]
      BY <3>1 DEF Settle, BeginFallback, Finish, Terminal, Live
    <3>3. QED
      BY <3>1, <3>2
  <2>3. QED
    BY <1>2, <2>1, <2>2 DEF StopStep
<1>3. ASSUME NEW d \in Delegations, StartReserve(d) \/ StartReject(d) \/ ReconcileNext(d) PROVE Before
  BY <1>3 DEF StartReserve, StartReject, ReconcileNext, entryVars, runVars, Live
<1>4. ASSUME NEW d \in Delegations, NEW found \in BOOLEAN, ReconcileRead(d, found) PROVE Before
  BY <1>4 DEF ReconcileRead, runVars, Live
<1>5. ASSUME NEW d \in Delegations, StartCommit(d) PROVE Before
  <2>1. /\ status' = [status EXCEPT ![d] = "running"] /\ run' = [run EXCEPT ![d] = 1]
        /\ pc' = [pc EXCEPT ![d][1] = "options"] /\ UNCHANGED aborted
    BY <1>5 DEF StartCommit, Launch
  <2>2. QED
    BY <2>1 DEF Live
<1>6. ASSUME NEW d \in Delegations, NEW h \in Hosts, WorkerStep(d, h) \/ WorkerExit(d, h) PROVE Before
  BY <1>6 DEF WorkerStep, Spawn, CloseWorker, WorkerExit, entryVars, Live
<1>7. ASSUME \/ \E d \in Delegations : StopOne(d)
             \/ \E p \in Parents : StopParent(p) \/ ResumeParent(p)
             \/ StopAll
      PROVE  Before
  <2>1. UNCHANGED <<status, run, pc>>
    BY <1>7 DEF StopOne, StopParent, ResumeParent, StopAll, entryVars, runVars
  <2>2. aborted[e] => aborted'[e]
    <3>1. \/ aborted' = aborted
          \/ \E ids \in SUBSET Delegations, outcome \in Statuses : StopEntries(ids, outcome)
      BY <1>7, UserStopsEntries DEF ResumeParent, entryVars
    <3>2. QED
      BY <3>1 DEF StopEntries
  <2>3. QED
    BY <2>1, <2>2 DEF Live
<1>8. ASSUME Restart PROVE FALSE
  <2>1. pc'[e][s] = "none"
    BY <1>8 DEF Restart
  <2>2. QED
    BY <2>1 DEF Underway, Racing
<1>9. QED
  <2>1. Before
    BY <1>1, <1>2, <1>3, <1>4, <1>5, <1>6, <1>7, <1>8 DEF Next, StartStep
  <2>2. QED
    BY <2>1 DEF PromptsRun, Live

\* A run that prompts has been activated.
THEOREM PromptsActivated == Spec => []PromptsRun
<1>1. Init => PromptsRun
  BY DEF Init, PromptsRun
<1>2. TypeOK /\ PromptsRun /\ [Next]_vars => PromptsRun'
  <2> SUFFICES ASSUME TypeOK, PromptsRun, [Next]_vars PROVE PromptsRun'
    OBVIOUS
  <2>1. CASE UNCHANGED vars
    BY <2>1 DEF PromptsRun, Live, vars, entryVars, runVars
  <2>2. CASE Next
    BY <2>2, ContinuePending, RunStepPending, OtherStepsPending
  <2>3. QED
    BY <2>1, <2>2
<1>3. QED
  BY <1>1, <1>2, TypeCorrect, PTL DEF Spec

\* The steps of the contract, as changes of one delegation's status and run.
LEMMA ContractSteps ==
  ASSUME NEW d \in Delegations
  PROVE  /\ status[d] = "absent" /\ status' = [status EXCEPT ![d] = "running"] /\ run' = [run EXCEPT ![d] = 1]
              => Contract!Next
         /\ \A next \in Active :
              status[d] \in Terminal /\ status' = [status EXCEPT ![d] = next] /\ run' = [run EXCEPT ![d] = @ + 1]
                => Contract!Next
         /\ status[d] = "pending" /\ status' = [status EXCEPT ![d] = "running"] /\ UNCHANGED run
              => Contract!Next
         /\ \A outcome \in Terminal :
              status[d] = "running" /\ status' = [status EXCEPT ![d] = outcome] /\ UNCHANGED run
                => Contract!Next
         /\ \A outcome \in {"failed", "cancelled", "interrupted"} :
              status[d] = "pending" /\ status' = [status EXCEPT ![d] = outcome] /\ UNCHANGED run
                => Contract!Next
BY DEF Contract!Next, Contract!Open, Contract!Rerun, Contract!Activate, Contract!Close,
       Contract!Active, Contract!Terminal, Active, Terminal

\* Settling closes the run, begins the fallback or changes nothing; a report
\* is only settled for a run that is running.
LEMMA SettleCloses ==
  ASSUME TypeOK, NEW d \in Delegations, NEW outcome \in Terminal, Settle(d, outcome), UNCHANGED run,
         status[d] # "absent",
         status[d] = "pending" => outcome \in {"failed", "cancelled", "interrupted"}
  PROVE  Contract!Next \/ UNCHANGED <<status, run>>
<1>1. CASE status[d] \in Terminal \/ BeginFallback(d)
  BY <1>1 DEF Settle, BeginFallback
<1>2. CASE status[d] \notin Terminal /\ Finish(d, outcome)
  <2>1. status[d] \in {"pending", "running"} /\ status' = [status EXCEPT ![d] = outcome]
    BY <1>2 DEF Finish, TypeOK, EntryTypes, Statuses, Active
  <2>2. QED
    BY <2>1, ContractSteps
<1>3. QED
  BY <1>1, <1>2 DEF Settle

LEMMA RunStepContract ==
  ASSUME TypeOK, RecordedIffRun, PromptsRun, NEW d \in Delegations, NEW r \in Runs,
         RunStep(d, r) \/ BecomesIdle(d, r) \/ TurnLimit(d, r)
  PROVE  Contract!Next \/ UNCHANGED <<status, run>>
<1>1. run' = run
  BY DEF RunStep, BecomesIdle, TurnLimit, Abandon, PrepareFails, RunFails, FailRun, DefinitionLoaded,
      OptionsBuilt, StartDone, StartFails, UndoDone, Advance, Judge, Nudge, NudgeFails, BestEffortRead,
      SettleStopped, entryVars
<1>2. status[d] = "absent" => pc[d][r] = "none"
  BY DEF RecordedIffRun, Recorded, Untouched
<1>3. CASE Judge(d, r) \/ NudgeFails(d, r) \/ SettleStopped(d, r)
  <2>1. PICK outcome \in Terminal :
          /\ Settle(d, outcome)
          /\ outcome = "failed" \/ pc[d][r] \in Underway
    BY <1>3 DEF Judge, NudgeFails, SettleStopped, Terminal, Underway, Racing
  <2>2. Live(d, r) /\ pc[d][r] # "none"
    BY <1>3 DEF Judge, NudgeFails, SettleStopped
  <2>3. status[d] = "pending" => outcome = "failed"
    BY <2>1, <2>2 DEF PromptsRun
  <2>4. QED
    BY <1>1, <1>2, <2>1, <2>2, <2>3, SettleCloses
<1>4. CASE StartDone(d, r)
  <2>1. \/ UNCHANGED status
        \/ status[d] \in {"pending", "running"} /\ status' = [status EXCEPT ![d] = "running"]
    BY <1>2, <1>4 DEF StartDone, TypeOK, EntryTypes, Statuses, Active
  <2>2. status[d] = "running" /\ status' = [status EXCEPT ![d] = "running"] => UNCHANGED status
    BY DEF TypeOK, EntryTypes
  <2>3. QED
    BY <1>1, <2>1, <2>2, ContractSteps
<1>5. CASE ~(Judge(d, r) \/ NudgeFails(d, r) \/ SettleStopped(d, r) \/ StartDone(d, r))
  BY <1>1, <1>5
  DEF RunStep, BecomesIdle, TurnLimit, Abandon, PrepareFails, RunFails, FailRun, DefinitionLoaded,
      OptionsBuilt, StartFails, UndoDone, Advance, Nudge, BestEffortRead, entryVars
<1>6. QED
  BY <1>3, <1>4, <1>5

\* A fallback cancels, fails or launches the run it was begun for.
LEMMA FallbackContract ==
  ASSUME TypeOK, RecordedIffRun, NEW d \in Delegations, FallbackStep(d)
  PROVE  Contract!Next \/ UNCHANGED <<status, run>>
<1>1. run' = run
  BY DEF FallbackStep, FallbackStopped, FallbackRead
<1>2. status[d] # "absent"
  BY DEF FallbackStep, FallbackStopped, FallbackRead, RecordedIffRun, Recorded, Untouched
<1>3. \/ UNCHANGED status
      \/ /\ status[d] \in {"pending", "running"}
         /\ \E outcome \in {"cancelled", "failed", "running"} : status' = [status EXCEPT ![d] = outcome]
  <2>1. status[d] \notin Terminal => status[d] \in {"pending", "running"}
    BY <1>2 DEF TypeOK, EntryTypes, Statuses, Active
  <2>2. CASE FallbackStopped(d)
    BY <2>1, <2>2 DEF FallbackStopped
  <2>3. CASE FallbackRead(d)
    BY <2>1, <2>3 DEF FallbackRead, Launch, Active, Terminal
  <2>4. QED
    BY <2>2, <2>3 DEF FallbackStep
<1>4. status[d] = "running" /\ status' = [status EXCEPT ![d] = "running"] => UNCHANGED status
  BY DEF TypeOK, EntryTypes
<1>5. {"cancelled", "failed"} \subseteq Terminal
  BY DEF Terminal
<1>6. QED
  BY <1>1, <1>3, <1>4, <1>5, ContractSteps

\* continue begins a further run of a record that is terminal.
LEMMA ContinueContract ==
  ASSUME TypeOK, NEW d \in Delegations, Continue(d)
  PROVE  Contract!Next
<1>1. /\ status[d] \in Terminal
      /\ \E next \in Active : status' = [status EXCEPT ![d] = next]
      /\ run' = [run EXCEPT ![d] = run[d] + 1]
  BY DEF Continue, MayContinue, Active
<1>2. QED
  BY <1>1, ContractSteps

LEMMA StartContract ==
  ASSUME TypeOK, RecordedIffRun, NEW d \in Delegations, StartCommit(d)
  PROVE  Contract!Next
<1>1. /\ starter[d] = "loading"
      /\ status' = [status EXCEPT ![d] = "running"]
      /\ run' = [run EXCEPT ![d] = 1]
  BY DEF StartCommit, Launch
<1>2. status[d] = "absent"
  BY <1>1 DEF RecordedIffRun, Recorded
<1>3. QED
  BY <1>1, <1>2, ContractSteps

LEMMA StopStepContract ==
  ASSUME TypeOK, RecordedIffRun, NEW d \in Delegations, StopStep(d)
  PROVE  Contract!Next \/ UNCHANGED <<status, run>>
<1>1. CASE StopRejected(d) \/ StopHostDone(d) \/ StartingOver(d)
  BY <1>1 DEF StopRejected, StopHostDone, StartingOver, entryVars
<1>2. CASE StopSettles(d)
  <2>1. /\ stopper[d] # "idle" /\ UNCHANGED run
        /\ stopStatus[d] \in {"cancelled", "interrupted"} /\ Settle(d, stopStatus[d])
    BY <1>2 DEF StopSettles, TypeOK, StopTypes
  <2>2. status[d] # "absent" /\ stopStatus[d] \in Terminal
    BY <2>1 DEF RecordedIffRun, Recorded, Untouched, Terminal
  <2>3. QED
    BY <2>1, <2>2, SettleCloses
<1>3. QED
  BY <1>1, <1>2 DEF StopStep

\* Status and run number of every delegation go through the transitions of
\* assertDelegationTransition only, except in a restart and when
\* reconciliation has read a session file.
KeepsContract ==
  [][restarts' # restarts \/ reconciling' # reconciling \/ Contract!Next]_(Contract!vars)

\* A terminal status is final within its run, only continue begins another,
\* and a report only comes from a run that was running: however stops,
\* continues, fallbacks and late startups interleave.
THEOREM ContractKept == Spec => KeepsContract
<1>1. ASSUME TypeOK, RecordedIffRun, PromptsRun, Next, restarts' = restarts, reconciling' = reconciling
      PROVE  Contract!Next \/ UNCHANGED <<status, run>>
  <2>1. ASSUME NEW d \in Delegations, StartReserve(d) \/ StartReject(d) \/ StopOne(d)
        PROVE  UNCHANGED <<status, run>>
    BY <2>1 DEF StartReserve, StartReject, StopOne, entryVars
  <2>2. ASSUME NEW d \in Delegations, NEW h \in Hosts, WorkerStep(d, h) \/ WorkerExit(d, h)
        PROVE  UNCHANGED <<status, run>>
    BY <2>2 DEF WorkerStep, Spawn, CloseWorker, WorkerExit, entryVars
  <2>3. ASSUME NEW d \in Delegations, ReconcileNext(d) PROVE UNCHANGED <<status, run>>
    BY <2>3 DEF ReconcileNext, entryVars
  <2>4. ASSUME NEW d \in Delegations, NEW found \in BOOLEAN, ReconcileRead(d, found) PROVE FALSE
    BY <1>1, <2>4 DEF ReconcileRead
  <2>5. ASSUME NEW p \in Parents, StopParent(p) \/ ResumeParent(p) PROVE UNCHANGED <<status, run>>
    BY <2>5 DEF StopParent, ResumeParent, entryVars
  <2>6. StopAll => UNCHANGED <<status, run>>
    BY DEF StopAll
  <2>7. ~Restart
    <3>1. restarts \in Nat
      BY <1>1, ParametersAssumption DEF TypeOK, ReconcileTypes
    <3>2. Restart => restarts' = restarts + 1
      BY DEF Restart
    <3>3. QED
      BY <1>1, <3>1, <3>2
  <2>8. QED
    BY <1>1, <2>1, <2>2, <2>3, <2>4, <2>5, <2>6, <2>7, RunStepContract, FallbackContract, ContinueContract,
       StartContract, StopStepContract DEF Next, StartStep
<1>2. TypeOK /\ RecordedIffRun /\ PromptsRun /\ [Next]_vars
        => [restarts' # restarts \/ reconciling' # reconciling \/ Contract!Next]_(Contract!vars)
  BY <1>1 DEF Contract!vars, vars, entryVars
<1>3. QED
  BY <1>2, TypeCorrect, RecordsCorrect, PromptsActivated, PTL DEF Spec, KeepsContract

\* Only a restart and the reconciliation after it write what they share.
LEMMA OnlyRestartReconciles ==
  ASSUME Next, ~Restart,
         \A d \in Delegations : ~ReconcileNext(d) /\ \A found \in BOOLEAN : ~ReconcileRead(d, found)
  PROVE  UNCHANGED reconcileVars
<1>1. ASSUME NEW d \in Delegations, NEW r \in Runs, RunStep(d, r) \/ BecomesIdle(d, r) \/ TurnLimit(d, r)
      PROVE  UNCHANGED reconcileVars
  BY <1>1
  DEF RunStep, BecomesIdle, TurnLimit, Abandon, PrepareFails, RunFails, FailRun, DefinitionLoaded,
      OptionsBuilt, StartDone, StartFails, UndoDone, Advance, Judge, Nudge, NudgeFails, BestEffortRead,
      SettleStopped
<1>2. ASSUME NEW d \in Delegations, NEW h \in Hosts, WorkerStep(d, h) \/ WorkerExit(d, h)
      PROVE  UNCHANGED reconcileVars
  BY <1>2 DEF WorkerStep, Spawn, CloseWorker, WorkerExit
<1>3. ASSUME NEW d \in Delegations, StartReserve(d) \/ StartStep(d) \/ FallbackStep(d) \/ Continue(d)
      PROVE  UNCHANGED reconcileVars
  BY <1>3 DEF StartReserve, StartStep, StartCommit, StartReject, FallbackStep, FallbackStopped, FallbackRead, Continue
<1>4. ASSUME NEW d \in Delegations, StopOne(d) \/ StopStep(d)
      PROVE  UNCHANGED reconcileVars
  BY <1>4 DEF StopOne, StopStep, StopRejected, StopHostDone, StartingOver, StopSettles
<1>5. ASSUME (\E p \in Parents : StopParent(p) \/ ResumeParent(p)) \/ StopAll
      PROVE  UNCHANGED reconcileVars
  BY <1>5 DEF StopParent, ResumeParent, StopAll
<1>6. QED
  BY <1>1, <1>2, <1>3, <1>4, <1>5 DEF Next

\* Nothing is read back, and nothing reconciled, while the application runs.
NothingReconciled == toReconcile = {} /\ reconciling = {}

\* While the application runs the coordinator implements the contract of a
\* delegation.
THEOREM ContractImplemented == MaxRestarts = 0 => (Spec => ImplementsContract)
<1> SUFFICES ASSUME MaxRestarts = 0 PROVE Spec => ImplementsContract
  OBVIOUS
<1>1. Init => NothingReconciled /\ Contract!Init
  BY DEF Init, NothingReconciled, Contract!Init
<1>2. TypeOK /\ TypeOK' => restarts' = restarts
  BY DEF TypeOK, ReconcileTypes
<1>3. TypeOK /\ NothingReconciled /\ [Next]_vars => NothingReconciled'
  <2> SUFFICES ASSUME TypeOK, NothingReconciled, [Next]_vars PROVE NothingReconciled'
    OBVIOUS
  <2>1. CASE UNCHANGED reconcileVars \/ UNCHANGED vars
    BY <2>1 DEF NothingReconciled, reconcileVars, vars
  <2>2. ~Restart
    BY DEF Restart, TypeOK, ReconcileTypes
  <2>3. ASSUME NEW d \in Delegations PROVE ~ReconcileNext(d) /\ \A found \in BOOLEAN : ~ReconcileRead(d, found)
    BY DEF ReconcileNext, ReconcileRead, NothingReconciled
  <2>4. CASE Next
    BY <2>1, <2>2, <2>3, <2>4, OnlyRestartReconciles
  <2>5. QED
    BY <2>1, <2>4
<1>4. TypeOK /\ TypeOK' /\ NothingReconciled /\ NothingReconciled'
        => (restarts' # restarts \/ reconciling' # reconciling \/ Contract!Next => Contract!Next)
  BY <1>2 DEF NothingReconciled
<1>5. QED
  BY <1>1, <1>3, <1>4, TypeCorrect, ContractKept, PTL
  DEF Spec, ImplementsContract, Contract!Spec, KeepsContract

-----------------------------------------------------------------------------
(* Old runs, also when a worker survives its termination.                  *)

\* Only the current run is ever starting a worker, and nothing settles it
\* meanwhile; a coroutine that may still act belongs to an active record; a
\* fallback is tried once and its run has returned; a stop has aborted.
Current(d) ==
  /\ \A r \in Runs : pc[d][r] \in Starting => r = run[d] /\ status[d] \in Active /\ stopper[d] # "again"
  /\ \A r \in Runs : Live(d, r) /\ pc[d][r] \in Working => status[d] \in Active
  /\ fallback[d] # "idle" => fellBack[d] /\ fallbackRun[d] <= run[d]
  /\ Ending(d) => pc[d][run[d]] = "done"
  /\ stopper[d] # "idle" => aborted[d]

RunsAreCurrent == \A d \in Delegations \ overtaken : Current(d)

LEMMA CurrentFrame ==
  ASSUME NEW d \in Delegations, Current(d),
         UNCHANGED <<status[d], run[d], aborted[d], fellBack[d], pc[d], fallback[d], fallbackRun[d], stopper[d]>>
  PROVE  Current(d)'
BY DEF Current, Ending, Live

\* Settling the outcome of the coroutine of run r, which returns.
LEMMA CurrentSettles ==
  ASSUME TypeOK, NEW d \in Delegations, Current(d), NEW r \in Runs, NEW outcome \in Terminal,
         Live(d, r), pc[d][r] \in Working \ Starting,
         Settle(d, outcome), pc' = [pc EXCEPT ![d][r] = "done"], UNCHANGED <<run, stopper>>
  PROVE  Current(d)'
<1> USE DEF TypeOK, EntryTypes, RunTypes, FallbackTypes
<1>1. /\ run[d] = r /\ status[d] \in Active /\ ~aborted[d]
      /\ \A s \in Runs : pc[d][s] \notin Starting
      /\ \A s \in Runs : pc'[d][s] \notin Starting
      /\ pc'[d][r] = "done" /\ stopper[d] = "idle"
  BY DEF Current, Live, Starting
<1>2. /\ \/ status'[d] = outcome /\ aborted'[d] /\ UNCHANGED <<fallback[d], fallbackRun[d], fellBack[d]>>
         \/ /\ UNCHANGED <<status[d], aborted[d]>> /\ fallbackRun'[d] = run[d] /\ fellBack'[d]
  BY <1>1 DEF Settle, BeginFallback, Finish, Active, Terminal, fallbackVars
<1>3. run[d] \in Nat /\ run'[d] = run[d]
  BY ParametersAssumption
<1>4. Ending(d)' => pc'[d][run'[d]] = "done"
  BY <1>1, <1>3 DEF Ending
<1>5. \A s \in Runs : Live(d, s)' /\ pc'[d][s] \in Working => status'[d] \in Active
  BY <1>1, <1>2, <1>3 DEF Live, Working, Starting, Racing
<1>6. fallback'[d] # "idle" => fellBack'[d] /\ fallbackRun'[d] <= run'[d]
  BY <1>2, <1>3 DEF Current
<1>7. QED
  BY <1>1, <1>4, <1>5, <1>6 DEF Current

\* The coroutine of run r moves on.
LEMMA CurrentMoves ==
  ASSUME TypeOK, NEW d \in Delegations, Current(d), NEW r \in Runs, NEW label,
         pc' = [pc EXCEPT ![d][r] = label], pc[d][r] \in Working,
         label \in Starting => Live(d, r) \/ pc[d][r] \in Starting,
         label # "done" => Live(d, r) \/ label \in Starting,
         status'[d] = status[d] \/ status'[d] = "running",
         UNCHANGED <<run[d], aborted[d], fellBack[d], fallback[d], fallbackRun[d], stopper[d]>>
  PROVE  Current(d)'
<1> USE DEF TypeOK, EntryTypes, RunTypes
<1>1. pc'[d][r] = label /\ \A s \in Runs \ {r} : pc'[d][s] = pc[d][s]
  OBVIOUS
<1>2. status[d] \in Active => status'[d] \in Active
  BY DEF Active
<1>3. label \in Starting => r = run[d] /\ status[d] \in Active /\ stopper[d] # "again"
  BY DEF Current, Live
<1>4. Live(d, r) => status[d] \in Active
  BY DEF Current
<1>5. label # "done" => ~Ending(d) \/ r # run[d]
  BY DEF Current, Working, Racing, Starting
<1>6. \A s \in Runs : pc'[d][s] \in Starting => s = run'[d] /\ status'[d] \in Active /\ stopper'[d] # "again"
  BY <1>1, <1>2, <1>3 DEF Current
<1>7. \A s \in Runs : Live(d, s)' /\ pc'[d][s] \in Working => status'[d] \in Active
  BY <1>1, <1>2, <1>4 DEF Current, Live
<1>8. Ending(d)' => pc'[d][run'[d]] = "done"
  <2>1. r = run[d] \/ pc'[d][run[d]] = pc[d][run[d]]
    OBVIOUS
  <2>2. QED
    BY <1>1, <1>5, <2>1 DEF Current, Ending
<1>9. QED
  BY <1>6, <1>7, <1>8 DEF Current

LEMMA RunStepCurrent ==
  ASSUME TypeOK, NEW d \in Delegations, Current(d), NEW r \in Runs,
         RunStep(d, r) \/ BecomesIdle(d, r) \/ TurnLimit(d, r)
  PROVE  Current(d)'
<1> USE DEF Goto, Working, Racing, Starting
<1>1. CASE Judge(d, r) \/ NudgeFails(d, r) \/ SettleStopped(d, r)
  <2>1. PICK outcome \in Terminal : Settle(d, outcome)
    BY <1>1 DEF Judge, NudgeFails, SettleStopped, Terminal
  <2>2. /\ Live(d, r) /\ pc[d][r] \in Working \ Starting
        /\ pc' = [pc EXCEPT ![d][r] = "done"] /\ UNCHANGED <<run, stopper>>
    BY <1>1 DEF Judge, NudgeFails, SettleStopped, stopVars
  <2>3. QED
    BY <2>1, <2>2, CurrentSettles
<1>2. CASE ~(Judge(d, r) \/ NudgeFails(d, r) \/ SettleStopped(d, r))
  <2>1. /\ UNCHANGED <<run, aborted, fellBack, fallback, fallbackRun, stopper>>
        /\ status'[d] = status[d] \/ status'[d] = "running"
    BY <1>2
    DEF RunStep, BecomesIdle, TurnLimit, Abandon, PrepareFails, RunFails, FailRun, DefinitionLoaded,
      OptionsBuilt, StartDone, StartFails, UndoDone, Advance, Nudge, BestEffortRead,
      entryVars, fallbackVars, stopVars, TypeOK, EntryTypes
  <2>2. /\ pc[d][r] \in Working
        /\ \E label :
             /\ pc' = [pc EXCEPT ![d][r] = label]
             /\ label \in Starting => Live(d, r) \/ pc[d][r] \in Starting
             /\ label # "done" => Live(d, r) \/ label \in Starting
    <3>1. CASE Abandon(d, r) \/ OptionsBuilt(d, r) \/ UndoDone(d, r) \/ Nudge(d, r) \/ TurnLimit(d, r) \/ BestEffortRead(d, r)
      BY <3>1 DEF Abandon, OptionsBuilt, UndoDone, Nudge, TurnLimit, BestEffortRead
    <3>2. CASE StartFails(d, r) \/ StartDone(d, r) \/ PrepareFails(d, r) \/ RunFails(d, r)
      BY <3>2 DEF StartFails, StartDone, PrepareFails, RunFails, FailRun, Fail
    <3>3. CASE Advance(d, r) \/ BecomesIdle(d, r) \/ DefinitionLoaded(d, r)
      BY <3>3 DEF Advance, BecomesIdle, DefinitionLoaded, CreateWorker
    <3>4. QED
      BY <1>2, <3>1, <3>2, <3>3 DEF RunStep
  <2>3. QED
    BY <2>1, <2>2, CurrentMoves
<1>3. QED
  BY <1>1, <1>2

LEMMA FallbackCurrent ==
  ASSUME TypeOK, RecordedIffRun, NEW d \in Delegations, Current(d), FallbackStep(d)
  PROVE  Current(d)'
<1> USE DEF TypeOK, EntryTypes, RunTypes, FallbackTypes
<1>1. /\ UNCHANGED <<run[d], fellBack[d], fallbackRun[d], stopper[d]>>
      /\ run[d] \in Runs
  BY DEF FallbackStep, FallbackStopped, FallbackRead, stopVars, RecordedIffRun, Recorded, Untouched
<1>2. CASE FallbackStopped(d) \/ (FallbackRead(d) /\ UNCHANGED pc)
  <2>1. /\ UNCHANGED pc
        /\ fallback'[d] # "idle" => fallback[d] # "idle"
        /\ \/ UNCHANGED <<status[d], aborted[d]>>
           \/ aborted'[d] /\ Ending(d)
    <3>1. CASE FallbackStopped(d)
      BY <3>1 DEF FallbackStopped, Ending, runVars
    <3>2. CASE FallbackRead(d) /\ UNCHANGED pc /\ ~Launch(d, fallbackRun[d])
      BY <3>2 DEF FallbackRead, Ending, Live
    <3>3. ~(FallbackRead(d) /\ UNCHANGED pc /\ Launch(d, fallbackRun[d]))
      <4> SUFFICES ASSUME FallbackRead(d), UNCHANGED pc, Launch(d, fallbackRun[d]) PROVE FALSE
        OBVIOUS
      <4>1. fallback[d] = "reading" /\ pc'[d][fallbackRun[d]] = "options" /\ fallbackRun[d] = run[d]
        BY <1>1 DEF FallbackRead, Launch, Live
      <4>2. QED
        BY <4>1 DEF Current, Ending
    <3>4. QED
      BY <1>2, <3>1, <3>2, <3>3
  <2>2. Ending(d) => \A r \in Runs : pc[d][r] \notin Starting
    BY DEF Current, Starting
  <2>3. QED
    <3>1. CASE UNCHANGED <<status[d], aborted[d]>>
      BY <1>1, <2>1, <3>1 DEF Current, Ending, Live
    <3>2. CASE aborted'[d] /\ Ending(d)
      BY <1>1, <2>1, <2>2, <3>2 DEF Current, Ending, Live
    <3>3. QED
      BY <2>1, <3>1, <3>2
<1>3. CASE FallbackRead(d) /\ pc' # pc
  <2>1. /\ Live(d, fallbackRun[d]) /\ fallback[d] = "reading" /\ fallback'[d] = "idle"
        /\ status'[d] = "running" /\ pc' = [pc EXCEPT ![d][fallbackRun[d]] = "options"]
        /\ aborted' = aborted
    BY <1>3 DEF FallbackRead, Launch, runVars
  <2>2. \A r \in Runs : pc'[d][r] \notin Starting
    BY <1>1, <2>1 DEF Current, Ending, Live, Starting
  <2>3. QED
    BY <1>1, <2>1, <2>2 DEF Current, Active, Ending
<1>4. QED
  BY <1>2, <1>3 DEF FallbackStep

LEMMA ContinueCurrent ==
  ASSUME TypeOK, NEW d \in Delegations, Current(d), Continue(d)
  PROVE  Current(d)'
<1> USE DEF TypeOK, EntryTypes, RunTypes, FallbackTypes
<1>1. /\ run'[d] = run[d] + 1 /\ run[d] + 1 \in Runs /\ run[d] \in Nat
      /\ status[d] \in Terminal /\ status'[d] \in Active
      /\ stopper'[d] = "idle" /\ UNCHANGED <<fellBack[d], fallback[d], fallbackRun[d]>>
  BY ParametersAssumption DEF Continue, MayContinue, Active, fallbackVars, stopVars
<1>2. \E label \in {"definition", "baseline", "options"} : pc' = [pc EXCEPT ![d][run[d] + 1] = label]
  BY DEF Continue, CreateWorker, Goto
<1>3. \A r \in Runs : pc'[d][r] \notin Starting
  <2>1. \A r \in Runs : pc[d][r] \notin Starting
    BY <1>1 DEF Current, Active, Terminal
  <2>2. QED
    BY <1>1, <1>2, <2>1 DEF Starting
<1>4. fallback[d] # "idle" => fallbackRun[d] <= run[d] /\ fallbackRun[d] \in Nat
  BY ParametersAssumption DEF Current
<1>5. ~Ending(d)'
  BY <1>1, <1>4 DEF Ending
<1>6. QED
  BY <1>1, <1>3, <1>4, <1>5 DEF Current

LEMMA StartCurrent ==
  ASSUME TypeOK, RecordedIffRun, NEW d \in Delegations, StartCommit(d)
  PROVE  Current(d)'
<1> USE DEF TypeOK, EntryTypes, RunTypes, FallbackTypes
<1>1. /\ status'[d] = "running" /\ pc' = [pc EXCEPT ![d][1] = "options"]
      /\ UNCHANGED <<fallback, stopper>>
  BY DEF StartCommit, Launch, fallbackVars, stopVars
<1>2. Untouched(d)
  BY DEF StartCommit, RecordedIffRun, Recorded
<1>3. \A r \in Runs : pc'[d][r] \notin Starting
  BY <1>1, <1>2 DEF Untouched, Starting
<1>4. QED
  BY <1>1, <1>2, <1>3 DEF Current, Ending, Untouched, Active

\* Stopping aborts the run; the outcome waits until nothing is starting.
LEMMA StopEntriesCurrent ==
  ASSUME TypeOK, NEW ids \in SUBSET Delegations, NEW outcome, StopEntries(ids, outcome),
         UNCHANGED <<status, run, pc, fellBack, fallback, fallbackRun>>,
         NEW d \in Delegations, Current(d)
  PROVE  Current(d)'
<1>1. CASE d \in Stoppable(ids)
  BY <1>1 DEF StopEntries, Stoppable, Current, Ending, Live
<1>2. CASE d \notin Stoppable(ids)
  <2>1. UNCHANGED <<aborted[d], stopper[d]>>
    BY <1>2 DEF StopEntries, TypeOK, EntryTypes
  <2>2. QED
    BY <2>1, CurrentFrame
<1>3. QED
  BY <1>1, <1>2

LEMMA StopStepCurrent ==
  ASSUME TypeOK, NEW d \in Delegations, Current(d), StopStep(d)
  PROVE  Current(d)'
<1> USE DEF TypeOK, EntryTypes, RunTypes, FallbackTypes, StopTypes
<1>1. CASE StopRejected(d) \/ StopHostDone(d) \/ StartingOver(d)
  <2>1. UNCHANGED <<status, run, aborted, fellBack, pc, fallback, fallbackRun>>
    BY <1>1 DEF StopRejected, StopHostDone, StartingOver, entryVars, runVars, fallbackVars
  <2>2. /\ stopper'[d] = "again" => \A r \in Runs : pc[d][r] \notin Starting
        /\ stopper[d] # "idle"
    BY <1>1 DEF StopRejected, StopHostDone, StartingOver
  <2>3. QED
    BY <2>1, <2>2 DEF Current, Ending, Live
<1>2. CASE StopSettles(d)
  <2>1. /\ stopper[d] # "idle" /\ stopper'[d] = "idle" /\ UNCHANGED <<run, pc>>
        /\ stopStatus[d] \in Terminal \ {"failed"} /\ Settle(d, stopStatus[d])
        /\ stopper[d] # "again" => \A r \in Runs : pc[d][r] \notin Starting
    BY <1>2 DEF StopSettles, Terminal
  <2>2. \A r \in Runs : pc[d][r] \notin Starting
    BY <2>1 DEF Current
  <2>3. /\ aborted'[d] /\ UNCHANGED <<fellBack[d], fallback[d], fallbackRun[d]>>
    BY <2>1 DEF Current, Settle, Finish, fallbackVars
  <2>4. QED
    BY <2>1, <2>2, <2>3 DEF Current, Ending, Live
<1>3. QED
  BY <1>1, <1>2 DEF StopStep

LEMMA UserStopCurrent ==
  ASSUME TypeOK, NEW d \in Delegations, Current(d),
         \/ \E e \in Delegations : StopOne(e)
         \/ \E p \in Parents : StopParent(p) \/ ResumeParent(p)
         \/ StopAll
  PROVE  Current(d)'
<1>1. CASE \E p \in Parents : ResumeParent(p)
  BY <1>1, CurrentFrame DEF ResumeParent, entryVars, runVars, fallbackVars, stopVars
<1>2. CASE ~ \E p \in Parents : ResumeParent(p)
  <2>1. UNCHANGED <<status, run, pc, fellBack, fallback, fallbackRun>>
    BY <1>2 DEF StopOne, StopParent, StopAll, fallbackVars
  <2>2. PICK ids \in SUBSET Delegations, outcome \in Statuses : StopEntries(ids, outcome)
    BY <1>2, UserStopsEntries
  <2>3. QED
    BY <2>1, <2>2, StopEntriesCurrent
<1>3. QED
  BY <1>1, <1>2

\* A step of one delegation leaves what Current says of the others alone.
LEMMA OthersCurrent ==
  ASSUME TypeOK, NEW d \in Delegations, NEW e \in Delegations \ {d}, Current(e),
         \/ \E r \in Runs : RunStep(d, r) \/ BecomesIdle(d, r) \/ TurnLimit(d, r)
         \/ FallbackStep(d) \/ Continue(d) \/ StartStep(d) \/ StopStep(d)
  PROVE  Current(e)'
<1> USE DEF TypeOK, EntryTypes, RunTypes, FallbackTypes, StopTypes, entryVars, runVars, fallbackVars, stopVars
<1> DEFINE Same == UNCHANGED <<status[e], run[e], aborted[e], fellBack[e], pc[e], fallback[e], fallbackRun[e], stopper[e]>>
<1>1. ASSUME NEW r \in Runs, RunStep(d, r) \/ BecomesIdle(d, r) \/ TurnLimit(d, r) PROVE Same
  <2>1. OthersKept(d)
    BY <1>1, RunStepOthers
  <2>2. fellBack'[e] = fellBack[e]
    <3>1. CASE Judge(d, r) \/ NudgeFails(d, r) \/ SettleStopped(d, r)
      <4>1. PICK outcome \in Terminal : Settle(d, outcome)
        BY <3>1 DEF Judge, NudgeFails, SettleStopped, Terminal
      <4>2. QED
        BY <4>1 DEF Settle, BeginFallback, Finish
    <3>2. CASE ~(Judge(d, r) \/ NudgeFails(d, r) \/ SettleStopped(d, r))
      BY <1>1, <3>2
      DEF RunStep, BecomesIdle, TurnLimit, Abandon, PrepareFails, RunFails, FailRun, DefinitionLoaded,
        OptionsBuilt, StartDone, StartFails, UndoDone, Advance, Nudge, BestEffortRead
    <3>3. QED
      BY <3>1, <3>2
  <2>3. QED
    BY <2>1, <2>2 DEF OthersKept
<1>2. CASE FallbackStep(d)
  BY <1>2, CurrentFrame DEF FallbackStep, FallbackStopped, FallbackRead, Launch
<1>3. CASE Continue(d)
  BY <1>3, CurrentFrame DEF Continue, CreateWorker, Goto
<1>4. CASE StartStep(d)
  BY <1>4, CurrentFrame DEF StartStep, StartCommit, StartReject, Launch
<1>5. CASE StopRejected(d) \/ StopHostDone(d) \/ StartingOver(d)
  BY <1>5, CurrentFrame DEF StopRejected, StopHostDone, StartingOver
<1>6. CASE StopSettles(d)
  BY <1>6, CurrentFrame DEF StopSettles, Settle, BeginFallback, Finish
<1>7. QED
  BY <1>1, <1>2, <1>3, <1>4, <1>5, <1>6, CurrentFrame DEF StopStep

LEMMA CurrentStep ==
  ASSUME TypeOK, RecordedIffRun, RunsAreCurrent, Next
  PROVE  RunsAreCurrent'
<1> SUFFICES ASSUME NEW e \in Delegations, e \notin overtaken' PROVE Current(e)'
  BY DEF RunsAreCurrent
<1> USE DEF entryVars, runVars, fallbackVars, stopVars
<1>1. CASE Restart
  BY <1>1 DEF Restart, Current, Ending, Starting, Working, Racing
<1>2. CASE ~Restart
  <2>1. overtaken \subseteq overtaken'
    <3>1. ASSUME NEW d \in Delegations, ReconcileNext(d) \/ \E found \in BOOLEAN : ReconcileRead(d, found)
          PROVE  overtaken \subseteq overtaken'
      BY <3>1 DEF ReconcileNext, ReconcileRead
    <3>2. QED
      BY <1>2, <3>1, OnlyRestartReconciles DEF reconcileVars
  <2>2. Current(e)
    BY <2>1 DEF RunsAreCurrent
  <2>3. ASSUME NEW d \in Delegations, NEW r \in Runs, RunStep(d, r) \/ BecomesIdle(d, r) \/ TurnLimit(d, r)
        PROVE  Current(e)'
    BY <2>2, <2>3, RunStepCurrent, OthersCurrent
  <2>4. ASSUME NEW d \in Delegations, FallbackStep(d) PROVE Current(e)'
    BY <2>2, <2>4, FallbackCurrent, OthersCurrent
  <2>5. ASSUME NEW d \in Delegations, Continue(d) PROVE Current(e)'
    BY <2>2, <2>5, ContinueCurrent, OthersCurrent
  <2>6. ASSUME NEW d \in Delegations, StopStep(d) PROVE Current(e)'
    BY <2>2, <2>6, StopStepCurrent, OthersCurrent
  <2>7. ASSUME NEW d \in Delegations, StartStep(d) PROVE Current(e)'
    <3>1. StartReject(d) => Current(e)'
      BY <2>2, CurrentFrame DEF StartReject
    <3>2. QED
      BY <2>2, <2>7, <3>1, StartCurrent, OthersCurrent DEF StartStep
  <2>8. ASSUME NEW d \in Delegations, StartReserve(d) \/ ReconcileNext(d) PROVE Current(e)'
    BY <2>2, <2>8, CurrentFrame DEF StartReserve, ReconcileNext
  <2>9. ASSUME NEW d \in Delegations, NEW h \in Hosts, WorkerStep(d, h) \/ WorkerExit(d, h) PROVE Current(e)'
    BY <2>2, <2>9, CurrentFrame DEF WorkerStep, Spawn, CloseWorker, WorkerExit
  <2>10. ASSUME NEW d \in Delegations, NEW found \in BOOLEAN, ReconcileRead(d, found) PROVE Current(e)'
    <3>1. /\ status'[e] = status[e] \/ status[e] \notin Active
          /\ UNCHANGED <<run, aborted, fellBack, pc, fallback, fallbackRun, stopper>>
      BY <2>10 DEF ReconcileRead, TypeOK, EntryTypes
    <3>2. QED
      BY <2>2, <3>1 DEF Current, Ending, Live
  <2>11. CASE \/ \E d \in Delegations : StopOne(d)
              \/ \E p \in Parents : StopParent(p) \/ ResumeParent(p)
              \/ StopAll
    BY <2>2, <2>11, UserStopCurrent
  <2>12. QED
    BY <1>2, <2>3, <2>4, <2>5, <2>6, <2>7, <2>8, <2>9, <2>10, <2>11 DEF Next
<1>3. QED
  BY <1>1, <1>2

\* Only the current run of a delegation is ever starting a worker or settling
\* a record, also when a worker survives its termination.
THEOREM RunsStayCurrent == Spec => []RunsAreCurrent
<1>1. Init => RunsAreCurrent
  BY DEF Init, RunsAreCurrent, Current, Ending, Starting, Working, Racing
<1>2. TypeOK /\ RecordedIffRun /\ RunsAreCurrent /\ [Next]_vars => RunsAreCurrent'
  <2> SUFFICES ASSUME TypeOK, RecordedIffRun, RunsAreCurrent, [Next]_vars PROVE RunsAreCurrent'
    OBVIOUS
  <2>1. CASE UNCHANGED vars
    BY <2>1, CurrentFrame
    DEF RunsAreCurrent, vars, entryVars, runVars, fallbackVars, stopVars, reconcileVars
  <2>2. QED
    BY <2>1, CurrentStep
<1>3. QED
  BY <1>1, <1>2, TypeCorrect, RecordsCorrect, PTL DEF Spec

-----------------------------------------------------------------------------
(* What old runs still do.                                                 *)

\* A coroutine of an earlier run can only return.
LEMMA StaleRunReturns ==
  ASSUME TypeOK, RunsAreCurrent, NEW d \in Delegations \ overtaken, NEW e \in Delegations, NEW s \in Runs, NEW r \in Runs,
         RunStep(e, s) \/ BecomesIdle(e, s) \/ TurnLimit(e, s),
         r # run[d], pc'[d][r] # pc[d][r]
  PROVE  UNCHANGED <<status[d], aborted[d], host[d], workers[d]>>
<1>1. e = d
  BY RunStepOthers DEF OthersKept
<1>2. s = r
  <2> SUFFICES ASSUME s # r PROVE pc'[d][r] = pc[d][r]
    OBVIOUS
  <2>1. \E label : Goto(e, s, label)
    BY DEF RunStep, BecomesIdle, TurnLimit, Abandon, PrepareFails, RunFails, FailRun, Fail, DefinitionLoaded,
           CreateWorker, OptionsBuilt, StartDone, StartFails, UndoDone, Advance, Judge, Nudge, NudgeFails,
           BestEffortRead, SettleStopped
  <2>2. QED
    BY <2>1 DEF Goto, TypeOK, RunTypes
<1>3. ~Live(d, r) /\ pc[d][r] \notin Starting
  BY DEF RunsAreCurrent, Current, Live
<1>4. Abandon(d, r)
  BY <1>1, <1>2, <1>3
  DEF RunStep, BecomesIdle, TurnLimit, PrepareFails, RunFails, FailRun, DefinitionLoaded, OptionsBuilt, StartDone,
      StartFails, UndoDone, Advance, Judge, Nudge, NudgeFails, BestEffortRead, SettleStopped, Starting
<1>5. QED
  BY <1>4 DEF Abandon, entryVars

\* No coroutine begins a fallback while another one is under way.
LEMMA OneFallback ==
  ASSUME TypeOK, RunsAreCurrent, NEW d \in Delegations \ overtaken, NEW e \in Delegations, NEW s \in Runs,
         RunStep(e, s) \/ BecomesIdle(e, s) \/ TurnLimit(e, s), fallback[d] # "idle"
  PROVE  fallback'[d] = fallback[d]
<1> SUFFICES ASSUME fallback'[d] # fallback[d] PROVE FALSE
  OBVIOUS
<1>1. e = d
  BY RunStepOthers DEF OthersKept
<1>2. Judge(e, s) \/ NudgeFails(e, s) \/ SettleStopped(e, s)
  BY DEF RunStep, BecomesIdle, TurnLimit, Abandon, PrepareFails, RunFails, FailRun, DefinitionLoaded, OptionsBuilt,
         StartDone, StartFails, UndoDone, Advance, Nudge, BestEffortRead, fallbackVars
<1>3. ~fellBack[d]
  BY <1>1, <1>2 DEF Judge, NudgeFails, SettleStopped, Settle, CanFallback, Finish, fallbackVars
<1>4. QED
  BY <1>3 DEF RunsAreCurrent, Current

\* The fallback of an earlier run gives up.
LEMMA StaleFallbackReturns ==
  ASSUME TypeOK, NEW d \in Delegations, NEW e \in Delegations, FallbackStep(e),
         \/ fallback'[d] # fallback[d] /\ fallbackRun[d] # run[d]
         \/ \E r \in Runs : r # run[d] /\ pc'[d][r] # pc[d][r]
  PROVE  UNCHANGED <<status[d], aborted[d], host[d], workers[d]>>
<1> USE DEF TypeOK, EntryTypes, RunTypes, FallbackTypes, runVars
<1>1. CASE FallbackStopped(e)
  BY <1>1 DEF FallbackStopped
<1>2. CASE FallbackRead(e)
  <2>1. CASE UNCHANGED <<status, aborted, host, runVars>>
    BY <2>1
  <2>2. CASE Live(e, fallbackRun[e])
    <3>1. e # d
      <4> SUFFICES ASSUME e = d PROVE FALSE
        OBVIOUS
      <4>1. fallbackRun[d] = run[d]
        BY <2>2 DEF Live
      <4>2. \A r \in Runs : r # run[d] => pc'[d][r] = pc[d][r]
        BY <1>2, <4>1 DEF FallbackRead, Launch
      <4>3. QED
        BY <4>1, <4>2
    <3>2. QED
      BY <1>2, <3>1 DEF FallbackRead, Launch
  <2>3. QED
    BY <1>2, <2>1, <2>2 DEF FallbackRead
<1>3. QED
  BY <1>1, <1>2 DEF FallbackStep

\* The other steps move no coroutine and no fallback without beginning a run.
LEMMA OtherStepsKeep ==
  ASSUME TypeOK, RecordedIffRun, NEW d \in Delegations, Next, run'[d] = run[d], restarts' = restarts,
         \A e \in Delegations, r \in Runs : ~RunStep(e, r) /\ ~BecomesIdle(e, r) /\ ~TurnLimit(e, r),
         \A e \in Delegations : ~FallbackStep(e)
  PROVE  fallback'[d] = fallback[d] /\ pc'[d] = pc[d]
<1> USE DEF runVars, fallbackVars
<1>1. ASSUME NEW e \in Delegations, StartReserve(e) \/ StartStep(e) PROVE fallback'[d] = fallback[d] /\ pc'[d] = pc[d]
  <2>1. CASE StartReserve(e) \/ StartReject(e)
    BY <2>1 DEF StartReserve, StartReject
  <2>2. CASE StartCommit(e)
    <3>1. e # d
      BY <2>2 DEF StartCommit, RecordedIffRun, Recorded, Untouched, TypeOK, EntryTypes
    <3>2. QED
      BY <2>2, <3>1 DEF StartCommit, Launch
  <2>3. QED
    BY <1>1, <2>1, <2>2 DEF StartStep
<1>2. ASSUME NEW e \in Delegations, Continue(e) PROVE fallback'[d] = fallback[d] /\ pc'[d] = pc[d]
  <2>1. e # d
    BY <1>2, HostRange DEF Continue, TypeOK, EntryTypes
  <2>2. QED
    BY <1>2, <2>1 DEF Continue, CreateWorker, Goto, TypeOK, RunTypes
<1>3. ASSUME NEW e \in Delegations, NEW h \in Hosts, WorkerStep(e, h) \/ WorkerExit(e, h)
      PROVE  fallback'[d] = fallback[d] /\ pc'[d] = pc[d]
  BY <1>3 DEF WorkerStep, Spawn, CloseWorker, WorkerExit
<1>4. ASSUME NEW e \in Delegations, StopStep(e) PROVE fallback'[d] = fallback[d] /\ pc'[d] = pc[d]
  <2>1. CASE StopSettles(e)
    BY <2>1 DEF StopSettles, Settle, BeginFallback, Finish, TypeOK, StopTypes
  <2>2. QED
    BY <1>4, <2>1 DEF StopStep, StopRejected, StopHostDone, StartingOver
<1>5. CASE \/ \E e \in Delegations : StopOne(e) \/ ReconcileNext(e) \/ \E found \in BOOLEAN : ReconcileRead(e, found)
           \/ \E p \in Parents : StopParent(p) \/ ResumeParent(p)
           \/ StopAll
  BY <1>5 DEF StopOne, ReconcileNext, ReconcileRead, StopParent, ResumeParent, StopAll
<1>6. ~Restart
  <2>1. restarts \in Int
    BY ParametersAssumption DEF TypeOK, ReconcileTypes
  <2>2. Restart => restarts' = restarts + 1
    BY Zenon DEF Restart
  <2>3. QED
    BY <2>1, <2>2
<1>7. QED
  BY <1>1, <1>2, <1>3, <1>4, <1>5, <1>6 DEF Next

\* A coroutine or a fallback of an earlier run never touches the record, the
\* signal or the worker of a later one, also when a worker survives.
THEOREM StaleRunsInert == Spec => StaleRunsAreInert
<1> DEFINE Stale(d) ==
      \/ \E r \in Runs : r < run[d] /\ pc[d][r] # "none" /\ pc'[d][r] # pc[d][r]
      \/ fallback'[d] # fallback[d] /\ fallback[d] # "idle" /\ fallbackRun[d] < run[d]
<1>1. ASSUME TypeOK, RecordedIffRun, RunsAreCurrent, Next, NEW d \in Delegations \ overtaken, Stale(d),
             run'[d] = run[d], restarts' = restarts
      PROVE  UNCHANGED <<status[d], aborted[d], host[d], workers[d]>>
  <2>1. /\ (fallback'[d] # fallback[d] /\ fallback[d] # "idle") \/ \E r \in Runs : r # run[d] /\ pc'[d][r] # pc[d][r]
        /\ ~(\E r \in Runs : r # run[d] /\ pc'[d][r] # pc[d][r])
             => fallback'[d] # fallback[d] /\ fallbackRun[d] # run[d]
    BY <1>1, HostRange DEF Runs
  <2>2. CASE \E e \in Delegations, s \in Runs : RunStep(e, s) \/ BecomesIdle(e, s) \/ TurnLimit(e, s)
    BY <1>1, <2>1, <2>2, StaleRunReturns, OneFallback
  <2>3. CASE \E e \in Delegations : FallbackStep(e)
    BY <1>1, <2>1, <2>3, StaleFallbackReturns
  <2>4. QED
    BY <1>1, <2>1, <2>2, <2>3, OtherStepsKeep
<1>2. TypeOK /\ RecordedIffRun /\ RunsAreCurrent /\ [Next]_vars => [StaleRunsKeep]_vars
  BY <1>1 DEF StaleRunsKeep
<1>3. QED
  BY <1>2, TypeCorrect, RecordsCorrect, RunsStayCurrent, PTL DEF Spec, StaleRunsAreInert

---------------------------------------------------------------------------
(* SessionReplay: its types, that nothing enters a transcript twice, and,  *)
(* where an answer to get_messages is the last line of its chunk, that a   *)
(* transcript has no gap and a replay closes the one it is for.  Two       *)
(* numbers carry the proofs.  The lines of stdout continue where AgentHost *)
(* stopped counting, so an answer that is read reflects exactly the events *)
(* numbered so far; and what a view still lacks, from its snapshot or from *)
(* its last event on, is on its way in the channel.                        *)

\* The pipe hands over one line at a time, so that nothing follows an answer
\* to get_messages in its chunk.
OneLine == MaxChunk = 1

-----------------------------------------------------------------------------
(* The worker's output and the calls.                                      *)

IsEvent(m) == m.type = "event"

\* The lines not read yet: every event not numbered yet, in order, and
\* answers that reflect the events before them and none behind.
StdoutInOrder ==
  /\ chunk <= MaxChunk
  /\ \A i \in 1..Len(stdout) :
       stdout[i].n \in seq..wrote /\ (IsEvent(stdout[i]) => stdout[i].n > seq)
  /\ \A i, j \in 1..Len(stdout) :
       i < j => stdout[i].n <= stdout[j].n /\ (IsEvent(stdout[j]) => stdout[i].n < stdout[j].n)
  /\ \A k \in (seq + 1)..wrote : \E i \in 1..Len(stdout) : IsEvent(stdout[i]) /\ stdout[i].n = k

\* A line that answers a call belongs to that call's one question.
AnswersInOrder ==
  /\ \A i \in 1..Len(stdout) : ~IsEvent(stdout[i]) => phase[stdout[i].call] = "stdout"
  /\ \A i, j \in 1..Len(stdout) :
       ~IsEvent(stdout[i]) /\ ~IsEvent(stdout[j]) /\ i # j => stdout[i].call # stdout[j].call

\* The numbers a snapshot is sent with: what it reflects, and the cut.
Fits(m) ==
  /\ m.n <= m.last /\ m.last <= seq
  /\ OneLine => m.n = m.last

\* A view is opened, answered and only then replayed; what agent:start holds
\* back is the snapshot of a view it opened.
CallsInOrder ==
  /\ \A v \in Views : phase[<<v, "open">>] # "none" => v <= view
  /\ \A v \in Views : phase[<<v, "replay">>] # "none" =>
       phase[<<v, "open">>] = "done" /\ afterSeq[v] <= seq
  /\ \A v \in Views : phase[<<v, "open">>] = "held" =>
       path[v] = "start" /\ answer[v].view = v /\ answer[v].replay = {} /\ Fits(answer[v])
  /\ \A c \in Calls : phase[c] = "answered" =>
       reflected[c] <= seq /\ (OneLine => reflected[c] = seq /\ chunk = 0)

-----------------------------------------------------------------------------
(* The channel.                                                            *)

\* Every event after the n-th is still on its way.
RestComing(n) ==
  \A k \in (n + 1)..seq : \E i \in 1..Len(channel) : IsEvent(channel[i]) /\ channel[i].n = k

EventsBefore(i, n) == \A j \in 1..(i - 1) : IsEvent(channel[j]) => channel[j].n <= n
EventsAfter(i, n)  == \A j \in (i + 1)..Len(channel) : IsEvent(channel[j]) => channel[j].n > n

EventsInOrder ==
  /\ \A i \in 1..Len(channel) : IsEvent(channel[i]) => channel[i].n <= seq
  /\ \A i, j \in 1..Len(channel) :
       i < j /\ IsEvent(channel[i]) /\ IsEvent(channel[j]) => channel[i].n < channel[j].n

\* The one snapshot of a view; one that was not held back is followed by
\* every later event.
SnapshotFits(i) ==
  LET m == channel[i] IN
  /\ phase[<<m.view, "open">>] = "done" /\ phase[<<m.view, "replay">>] = "none"
  /\ m.replay = {} /\ Fits(m)
  /\ path[m.view] = "attach" => EventsBefore(i, m.last) /\ RestComing(m.last)

SnapshotsFit ==
  /\ \A i \in 1..Len(channel) : channel[i].type = "snapshot" => SnapshotFits(i)
  /\ \A i, j \in 1..Len(channel) :
       channel[i].type = "snapshot" /\ channel[j].type = "snapshot" /\ i # j
         => channel[i].view # channel[j].view

\* A replay has every event from the one asked for to the last one sent
\* before it.
ReplayFits(i) ==
  LET m == channel[i] IN
  /\ phase[<<m.view, "replay">>] # "none"
  /\ \E to \in afterSeq[m.view]..seq : m.replay = (afterSeq[m.view] + 1)..to /\ EventsAfter(i, to)

\* A snapshot in place of a replay is never held back.
ResyncFits(i) ==
  LET m == channel[i] IN
  /\ phase[<<m.view, "replay">>] # "none"
  /\ afterSeq[m.view] <= m.last /\ Fits(m)
  /\ EventsBefore(i, m.last) /\ RestComing(m.last)

RepliesFit ==
  \A i \in 1..Len(channel) :
    /\ channel[i].type = "replay" => ReplayFits(i)
    /\ channel[i].type = "resync" => ResyncFits(i)

-----------------------------------------------------------------------------
(* The view.                                                               *)

\* The structural events of a sequence come once, in order, and none is
\* newer than n.
OnceIn(s)    == \A i, j \in 1..Len(s) : i < j /\ s[i] \notin Updates /\ s[j] \notin Updates => s[i] < s[j]
AtMost(s, n) == \A i \in 1..Len(s) : s[i] \notin Updates => s[i] <= n

Covered(n) == 1..n \subseteq ToSet(shown \o pending)

\* Only updates wait for a frame, and no structural event is ahead of the
\* number the view has reached.
InStep ==
  /\ eventSeq <= seq
  /\ \A i \in 1..Len(pending) : pending[i] \in Updates
  /\ AtMost(shown, eventSeq)

\* What a live view lacks is on its way, and it never falls back behind the
\* number it asked its replay with.
ViewInOrder ==
  /\ live => view \in Views /\ phase[<<view, "replay">>] # "none" /\ afterSeq[view] <= eventSeq
  /\ live /\ OpenedBy("attach") => RestComing(eventSeq)
  /\ OneLine /\ live /\ OpenedBy("attach") => Covered(eventSeq)
  /\ OneLine /\ live => Covered(afterSeq[view])

IInv ==
  /\ SRTypeOK /\ StdoutInOrder /\ AnswersInOrder /\ CallsInOrder
  /\ EventsInOrder /\ SnapshotsFit /\ RepliesFit
  /\ InStep /\ StructuralOnce /\ ViewInOrder

-----------------------------------------------------------------------------
(* Operators of the model.                                                 *)

\* The numbers an interval is put in order into.
LEMMA IntervalInOrder ==
  ASSUME NEW a \in Nat, NEW b \in Nat, a <= b
  PROVE  InOrder((a + 1)..b) = [i \in 1..(b - a) |-> a + i]
PROOF
<1>1. Cardinality((a + 1)..b) = b - a
  <2>1. a + 1 \in Int /\ b \in Int
    OBVIOUS
  <2>2. Cardinality((a + 1)..b) = IF a + 1 > b THEN 0 ELSE b - (a + 1) + 1
    BY <2>1, FS_Interval
  <2> QED BY <2>2
<1>2. ASSUME NEW i \in 1..(b - a)
      PROVE  (CHOOSE n \in (a + 1)..b : Cardinality({m \in (a + 1)..b : m <= n}) = i) = a + i
  <2>1. ASSUME NEW n \in (a + 1)..b
        PROVE  Cardinality({m \in (a + 1)..b : m <= n}) = n - a
    <3>1. {m \in (a + 1)..b : m <= n} = (a + 1)..n
      OBVIOUS
    <3>2. a + 1 \in Int /\ n \in Int /\ n >= a + 1
      OBVIOUS
    <3>3. Cardinality((a + 1)..n) = IF a + 1 > n THEN 0 ELSE n - (a + 1) + 1
      BY <3>2, FS_Interval
    <3>4. Cardinality((a + 1)..n) = n - a
      BY <3>2, <3>3
    <3> QED BY <3>1, <3>4, Zenon
  <2>2. a + i \in (a + 1)..b /\ (a + i) - a = i
    OBVIOUS
  <2>3. Cardinality({m \in (a + 1)..b : m <= a + i}) = i
    BY <2>1, <2>2
  <2>4. \A n \in (a + 1)..b : Cardinality({m \in (a + 1)..b : m <= n}) = i => n = a + i
    BY <2>1
  <2> QED BY <2>2, <2>3, <2>4
<1> QED BY <1>1, <1>2 DEF InOrder

LEMMA NothingInOrder == InOrder({}) = <<>>
PROOF
<1>1. Cardinality({}) = 0
  BY FS_EmptySet
<1> QED BY <1>1 DEF InOrder

\* The number a view reaches with what it has not seen of a replay.
LEMMA HighestOfInterval ==
  ASSUME NEW a \in Nat, NEW b \in Nat, NEW least \in Nat, least <= a
  PROVE  Highest((a + 1)..b, least) = IF a < b THEN b ELSE least
PROOF
<1> DEFINE T == ((a + 1)..b) \cup {least}
           top == IF a < b THEN b ELSE least
<1>1. top \in T /\ \A m \in T : m <= top
  OBVIOUS
<1>2. ASSUME NEW n \in T, \A m \in T : m <= n
      PROVE  n = top
  BY <1>1, <1>2
<1> QED BY <1>1, <1>2 DEF Highest

LEMMA HighestOfNothing ==
  ASSUME NEW least \in Nat
  PROVE  Highest({}, least) = least
BY DEF Highest

\* What is new to the view in a replay of all events from one on.
LEMMA FreshOfInterval ==
  ASSUME NEW a \in Nat, NEW b \in Nat, eventSeq \in Nat
  PROVE  Fresh((a + 1)..b) = ((IF a < eventSeq THEN eventSeq ELSE a) + 1)..b
BY DEF Fresh

\* The constants.
LEMMA ArgumentsAreNumbers ==
  /\ Updates \subseteq Nat
  /\ Capacity \in Nat /\ MaxChunk \in Nat \ {0}
  /\ MayStart \in BOOLEAN
  /\ MaxEvents \in Nat /\ MaxViews \in Nat
BY BoundsAssumption

\* The buffer gives out all events after a number it still reaches back to.
LEMMA ReplayIsInterval ==
  ASSUME SRTypeOK, NEW after \in Nat, ~ReplayGap(after)
  PROVE  ReplaySince(after) = (after + 1)..seq
PROOF
<1>1. seq \in 0..MaxEvents /\ replayFloorSeq \in 0..seq /\ MaxEvents \in Nat
  BY ArgumentsAreNumbers DEF SRTypeOK
<1>2. replayFloorSeq <= after
  BY <1>1 DEF ReplayGap
<1> QED BY <1>1, <1>2 DEF ReplaySince, Events

LEMMA NothingSinceCut ==
  ASSUME SRTypeOK
  PROVE  ReplaySince(Cut) = {}
PROOF
<1>1. seq \in 0..MaxEvents /\ MaxEvents \in Nat
  BY ArgumentsAreNumbers DEF SRTypeOK
<1> QED BY <1>1 DEF ReplaySince, Cut, Events

-----------------------------------------------------------------------------
(* The messages.                                                           *)

LEMMA KindsOfLines ==
  ASSUME NEW m \in Lines
  PROVE  /\ m.type = "event" \/ m.type = "messages"
         /\ m.type = "event" => m.n \in Events
         /\ m.type = "messages" => m.n \in 0..MaxEvents /\ m.call \in Calls
BY DEF Lines

LEMMA KindsOfMessages ==
  ASSUME NEW m \in Messages
  PROVE  /\ m.type \in {"event", "snapshot", "replay", "resync"}
         /\ m.type = "event" => m.n \in Events
         /\ m.type = "snapshot" => /\ m \in Snapshots /\ m.view \in Views
                                   /\ m.n \in 0..MaxEvents /\ m.last \in 0..MaxEvents
                                   /\ m.replay \in SUBSET Events
         /\ m.type = "replay" => m.view \in Views /\ m.replay \in SUBSET Events
         /\ m.type = "resync" => m.view \in Views /\ m.n \in 0..MaxEvents /\ m.last \in 0..MaxEvents
BY DEF Messages, Snapshots

\* A line more at the end, and the first one gone.
LEMMA AppendedTo ==
  ASSUME NEW S, NEW s \in Seq(S), NEW x \in S
  PROVE  /\ Append(s, x) \in Seq(S) /\ Len(Append(s, x)) = Len(s) + 1
         /\ \A i \in 1..Len(s) : Append(s, x)[i] = s[i]
         /\ Append(s, x)[Len(s) + 1] = x
OBVIOUS

LEMMA FirstGone ==
  ASSUME NEW S, NEW s \in Seq(S), s # <<>>
  PROVE  /\ Tail(s) \in Seq(S) /\ Len(Tail(s)) = Len(s) - 1 /\ Len(s) \in Nat \ {0}
         /\ \A i \in 1..(Len(s) - 1) : Tail(s)[i] = s[i + 1]
         /\ Head(s) = s[1] /\ s[1] \in S
OBVIOUS

-----------------------------------------------------------------------------
(* Types.                                                                  *)

LEMMA InitTypes == SRInit => SRTypeOK
PROOF
<1> SUFFICES ASSUME SRInit PROVE SRTypeOK
  OBVIOUS
<1> USE ArgumentsAreNumbers
<1>1. /\ wrote \in 0..MaxEvents
      /\ stdout \in Seq(Lines) /\ chunk \in 0..Len(stdout)
      /\ seq \in 0..wrote /\ replayFloorSeq \in 0..seq /\ snapshotSeq \in 0..seq
  BY DEF SRInit
<1>2. phase \in [Calls -> Phases]
  BY DEF SRInit, Phases
<1>3. path \in [Views -> {"start", "attach"}] /\ reflected \in [Calls -> 0..MaxEvents]
  BY DEF SRInit
<1>4. answer \in [Views -> Snapshots]
  BY DEF SRInit, Snapshots
<1>5. /\ afterSeq \in [Views -> 0..MaxEvents]
      /\ channel \in Seq(Messages)
  BY DEF SRInit
<1>6. /\ view \in 0..MaxViews /\ eventSeq \in 0..MaxEvents
  BY DEF SRInit
<1>8. live = FALSE /\ shown = <<>> /\ pending = <<>>
  BY DEF SRInit
<1>7. <<>> \in Seq(Events)
  OBVIOUS
<1> QED BY <1>1, <1>2, <1>3, <1>4, <1>5, <1>6, <1>7, <1>8, Zenon DEF SRTypeOK

\* The numbers there are.
LEMMA Numbers ==
  ASSUME SRTypeOK
  PROVE  /\ wrote \in Nat /\ wrote <= MaxEvents /\ MaxEvents \in Nat /\ MaxViews \in Nat
         /\ chunk \in Nat /\ chunk <= Len(stdout) /\ Len(stdout) \in Nat /\ Len(channel) \in Nat
         /\ seq \in Nat /\ seq <= wrote
         /\ replayFloorSeq \in Nat /\ replayFloorSeq <= seq
         /\ snapshotSeq \in Nat /\ snapshotSeq <= seq
         /\ view \in Nat /\ view <= MaxViews /\ eventSeq \in Nat /\ eventSeq <= MaxEvents
BY ArgumentsAreNumbers DEF SRTypeOK

\* The line that is handled next is the event that gets the next number, or
\* an answer that reflects the events numbered so far.
LEMMA NextLine ==
  ASSUME SRTypeOK, StdoutInOrder, chunk > 0
  PROVE  /\ stdout # <<>> /\ Head(stdout) = stdout[1] /\ stdout[1] \in Lines
         /\ IsEvent(stdout[1]) => stdout[1].n = seq + 1 /\ seq + 1 <= wrote
         /\ ~IsEvent(stdout[1]) => stdout[1].n = seq /\ stdout[1].call \in Calls
         /\ Tail(stdout) \in Seq(Lines) /\ Len(Tail(stdout)) = Len(stdout) - 1
         /\ \A i \in 1..(Len(stdout) - 1) : Tail(stdout)[i] = stdout[i + 1]
PROOF
<1>1. stdout \in Seq(Lines) /\ stdout # <<>> /\ Len(stdout) > 0
  BY Numbers DEF SRTypeOK
<1>2. /\ Tail(stdout) \in Seq(Lines) /\ Len(Tail(stdout)) = Len(stdout) - 1
      /\ \A i \in 1..(Len(stdout) - 1) : Tail(stdout)[i] = stdout[i + 1]
      /\ Head(stdout) = stdout[1] /\ stdout[1] \in Lines
  BY <1>1, FirstGone
<1>3. /\ stdout[1].n \in seq..wrote /\ (IsEvent(stdout[1]) => stdout[1].n > seq)
      /\ \A i \in 1..Len(stdout) :
           1 < i => stdout[1].n <= stdout[i].n /\ (IsEvent(stdout[i]) => stdout[1].n < stdout[i].n)
      /\ \A k \in (seq + 1)..wrote : \E i \in 1..Len(stdout) : IsEvent(stdout[i]) /\ stdout[i].n = k
  BY <1>1, Numbers DEF StdoutInOrder
<1>4. ASSUME stdout[1].n > seq
      PROVE  IsEvent(stdout[1]) /\ stdout[1].n = seq + 1
  <2>1. seq + 1 \in (seq + 1)..wrote
    <3>1. stdout[1].n \in seq..wrote
      BY <1>3
    <3> QED BY <1>4, <3>1, Numbers
  <2>2. PICK i \in 1..Len(stdout) : IsEvent(stdout[i]) /\ stdout[i].n = seq + 1
    BY <1>3, <2>1
  <2>3. i = 1
    <3>1. stdout[1].n \in Int /\ stdout[1].n > seq
      BY <1>3, <1>4, Numbers
    <3>2. 1 < i => stdout[1].n < stdout[i].n
      BY <1>3, <2>2
    <3> QED BY <2>2, <3>1, <3>2, Numbers
  <2> QED BY <2>2, <2>3
<1>5. ~IsEvent(stdout[1]) => stdout[1].call \in Calls
  BY <1>2, KindsOfLines DEF IsEvent
<1>6. IsEvent(stdout[1]) => stdout[1].n = seq + 1 /\ seq + 1 <= wrote
  BY <1>3, <1>4, Numbers
<1>7. ~IsEvent(stdout[1]) => stdout[1].n = seq
  BY <1>3, <1>4, Numbers
<1> QED BY <1>1, <1>2, <1>5, <1>6, <1>7

LEMMA NextMessage ==
  ASSUME SRTypeOK, channel # <<>>
  PROVE  /\ Len(channel) \in Nat \ {0} /\ Head(channel) = channel[1] /\ channel[1] \in Messages
         /\ Tail(channel) \in Seq(Messages) /\ Len(Tail(channel)) = Len(channel) - 1
         /\ \A i \in 1..(Len(channel) - 1) : Tail(channel)[i] = channel[i + 1]
PROOF
<1>1. channel \in Seq(Messages)
  BY DEF SRTypeOK
<1> QED BY <1>1, FirstGone

LEMMA SentTypes ==
  ASSUME SRTypeOK, NEW m \in Messages
  PROVE  Append(channel, m) \in Seq(Messages)
BY DEF SRTypeOK

LEMMA WorkerTypes ==
  ASSUME SRTypeOK, Write \/ \E c \in Calls : Answer(c)
  PROVE  SRTypeOK'
PROOF
<1>1. CASE Write
  <2>1. wrote' \in 0..MaxEvents /\ wrote + 1 \in Events
    BY <1>1, Numbers DEF Write, Events
  <2>2. [type |-> "event", n |-> wrote + 1] \in Lines
    BY <2>1 DEF Lines
  <2>3. stdout' \in Seq(Lines) /\ Len(stdout') = Len(stdout) + 1
    BY <1>1, <2>2, AppendedTo DEF Write, SRTypeOK
  <2>4. chunk' \in 0..Len(stdout')
    BY <1>1, <2>3, Numbers DEF Write
  <2>5. seq' \in 0..wrote' /\ replayFloorSeq' \in 0..seq' /\ snapshotSeq' \in 0..seq'
    BY <1>1, Numbers DEF Write, hostVars
  <2> QED BY <1>1, <2>1, <2>3, <2>4, <2>5, Zenon DEF Write, SRTypeOK, hostVars, callVars, rendererVars
<1>2. ASSUME NEW c \in Calls, Answer(c)
      PROVE  SRTypeOK'
  <2>1. [type |-> "messages", n |-> wrote, call |-> c] \in Lines
    BY Numbers DEF Lines
  <2>2. stdout' \in Seq(Lines) /\ Len(stdout') = Len(stdout) + 1
    BY <1>2, <2>1, AppendedTo DEF Answer, SRTypeOK
  <2>3. chunk' \in 0..Len(stdout')
    BY <1>2, <2>2, Numbers DEF Answer
  <2>4. phase' \in [Calls -> Phases]
    BY <1>2 DEF Answer, SRTypeOK, Phases
  <2> QED BY <1>2, <2>2, <2>3, <2>4, Zenon DEF Answer, SRTypeOK, hostVars, rendererVars
<1> QED BY <1>1, <1>2

LEMMA HostTypes ==
  ASSUME SRTypeOK, StdoutInOrder, (\E k \in 1..MaxChunk : Read(k)) \/ HandleEvent \/ HandleResponse
  PROVE  SRTypeOK'
PROOF
<1>1. ASSUME NEW k \in 1..MaxChunk, Read(k)
      PROVE  SRTypeOK'
  <2>1. chunk' \in 0..Len(stdout')
    BY <1>1, Numbers, ArgumentsAreNumbers DEF Read
  <2> QED BY <1>1, <2>1, Zenon DEF Read, SRTypeOK, hostVars, callVars, rendererVars
<1>2. CASE HandleEvent
  <2>1. chunk > 0 /\ IsEvent(stdout[1]) /\ seq' = seq + 1 /\ seq + 1 <= wrote
    BY <1>2, NextLine DEF HandleEvent, IsEvent
  <2>2. stdout' \in Seq(Lines) /\ Len(stdout') = Len(stdout) - 1
    BY <1>2, <2>1, NextLine DEF HandleEvent
  <2>7. /\ chunk' = chunk - 1 /\ wrote' = wrote /\ snapshotSeq' = snapshotSeq
        /\ replayFloorSeq' \in Evicted(replayFloorSeq, seq + 1)
    BY <1>2, Zenon DEF HandleEvent
  <2>8. /\ chunk \in Nat /\ chunk <= Len(stdout) /\ Len(stdout) \in Nat
        /\ seq \in Nat /\ replayFloorSeq \in Nat /\ snapshotSeq \in Nat /\ snapshotSeq <= seq
    BY Numbers
  <2>9. wrote' \in 0..MaxEvents
    BY <2>7 DEF SRTypeOK
  <2>10. chunk' \in 0..Len(stdout')
    BY <2>1, <2>2, <2>7, <2>8
  <2>3. seq' \in 0..wrote'
    BY <2>1, <2>7, <2>8, <2>9
  <2>4. replayFloorSeq' \in 0..seq' /\ snapshotSeq' \in 0..seq'
    BY <2>1, <2>7, <2>8 DEF Evicted
  <2>5. [type |-> "event", n |-> seq + 1] \in Messages
    BY <2>1, Numbers DEF Messages, Events
  <2>6. channel' \in Seq(Messages)
    BY <1>2, <2>5, SentTypes DEF HandleEvent
  <2> QED BY <1>2, <2>2, <2>3, <2>4, <2>6, <2>9, <2>10, Zenon DEF HandleEvent, SRTypeOK, callVars, rendererVars
<1>3. CASE HandleResponse
  <2>1. chunk > 0 /\ ~IsEvent(stdout[1]) /\ Head(stdout) = stdout[1]
    BY <1>3, NextLine DEF HandleResponse, IsEvent
  <2>2. stdout' \in Seq(Lines) /\ Len(stdout') = Len(stdout) - 1
    BY <1>3, <2>1, NextLine DEF HandleResponse
  <2>3. chunk' \in 0..Len(stdout')
    BY <1>3, <2>1, <2>2, Numbers DEF HandleResponse
  <2>4. stdout[1].call \in Calls /\ stdout[1].n \in 0..MaxEvents
    BY <2>1, NextLine, Numbers
  <2>5. phase' \in [Calls -> Phases]
    BY <1>3, <2>4 DEF HandleResponse, SRTypeOK, Phases
  <2>6. reflected' \in [Calls -> 0..MaxEvents]
    BY <1>3, <2>1, <2>4 DEF HandleResponse, SRTypeOK
  <2> QED BY <1>3, <2>2, <2>3, <2>5, <2>6, Zenon DEF HandleResponse, SRTypeOK, hostVars, rendererVars
<1> QED BY <1>1, <1>2, <1>3

LEMMA CallTypes ==
  ASSUME SRTypeOK, NEW v \in Views,
         AskSnapshot(v) \/ TakeSnapshot(v) \/ AnswerStart(v) \/ HandleReplay(v) \/ Resync(v)
  PROVE  SRTypeOK'
PROOF
<1> <<v, "open">> \in Calls /\ <<v, "replay">> \in Calls
  BY DEF Calls
<1>1. CASE AskSnapshot(v)
  <2>1. phase' \in [Calls -> Phases]
    BY <1>1 DEF AskSnapshot, SRTypeOK, Phases
  <2> QED BY <1>1, <2>1, Zenon DEF AskSnapshot, SRTypeOK, hostVars, rendererVars
<1>2. CASE TakeSnapshot(v)
  <2> DEFINE a == [type |-> "snapshot", view |-> v, n |-> reflected[<<v, "open">>], last |-> Cut,
                   replay |-> ReplaySince(Cut)]
  <2>1. a \in Snapshots
    <3>1. reflected[<<v, "open">>] \in 0..MaxEvents
      BY DEF SRTypeOK
    <3>2. Cut \in 0..MaxEvents
      BY Numbers DEF Cut
    <3>3. ReplaySince(Cut) \in SUBSET Events
      BY DEF ReplaySince
    <3> QED BY <3>1, <3>2, <3>3 DEF Snapshots
  <2>2. a \in Messages
    BY <2>1 DEF Messages
  <2>3. answer' \in [Views -> Snapshots]
    BY <1>2, <2>1 DEF TakeSnapshot, SRTypeOK
  <2>4. phase' \in [Calls -> Phases]
    BY <1>2 DEF TakeSnapshot, SRTypeOK, Phases
  <2>5. channel' \in Seq(Messages)
    <3>1. channel' = Append(channel, a) \/ channel' = channel
      BY <1>2 DEF TakeSnapshot
    <3>2. channel \in Seq(Messages)
      BY DEF SRTypeOK
    <3> QED BY <2>2, <3>1, <3>2, SentTypes
  <2>6. snapshotSeq' \in 0..seq /\ seq' = seq
    BY <1>2, Numbers DEF TakeSnapshot, Cut
  <2> QED BY <1>2, <2>3, <2>4, <2>5, <2>6, Zenon DEF TakeSnapshot, SRTypeOK, rendererVars
<1>3. CASE AnswerStart(v)
  <2>1. phase' \in [Calls -> Phases]
    BY <1>3 DEF AnswerStart, SRTypeOK, Phases
  <2>2. answer[v] \in Messages
    BY DEF SRTypeOK, Messages
  <2>3. channel' \in Seq(Messages)
    BY <1>3, <2>2, SentTypes DEF AnswerStart
  <2> QED BY <1>3, <2>1, <2>3, Zenon DEF AnswerStart, SRTypeOK, hostVars, rendererVars
<1>4. CASE HandleReplay(v)
  <2> DEFINE a == [type |-> "replay", view |-> v, replay |-> ReplaySince(afterSeq[v])]
  <2>1. a \in Messages
    BY DEF Messages, ReplaySince
  <2>2. phase' \in [Calls -> Phases]
    BY <1>4 DEF HandleReplay, SRTypeOK, Phases
  <2>3. channel' \in Seq(Messages)
    <3>1. channel' = Append(channel, a) \/ channel' = channel
      BY <1>4 DEF HandleReplay
    <3>2. channel \in Seq(Messages)
      BY DEF SRTypeOK
    <3> QED BY <2>1, <3>1, <3>2, SentTypes
  <2> QED BY <1>4, <2>2, <2>3, Zenon DEF HandleReplay, SRTypeOK, hostVars, rendererVars
<1>5. CASE Resync(v)
  <2> DEFINE a == [type |-> "resync", view |-> v, n |-> reflected[<<v, "replay">>], last |-> Cut]
  <2>1. a \in Messages
    <3>1. reflected[<<v, "replay">>] \in 0..MaxEvents
      BY DEF SRTypeOK
    <3>2. Cut \in 0..MaxEvents
      BY Numbers DEF Cut
    <3> QED BY <3>1, <3>2 DEF Messages
  <2>2. phase' \in [Calls -> Phases]
    BY <1>5 DEF Resync, SRTypeOK, Phases
  <2>3. channel' \in Seq(Messages)
    BY <1>5, <2>1, SentTypes DEF Resync
  <2>4. snapshotSeq' \in 0..seq /\ seq' = seq
    BY <1>5, Numbers DEF Resync, Cut
  <2> QED BY <1>5, <2>2, <2>3, <2>4, Zenon DEF Resync, SRTypeOK, rendererVars
<1> QED BY <1>1, <1>2, <1>3, <1>4, <1>5

\* The numbers of a replay.
LEMMA ReplayBounds ==
  ASSUME SRTypeOK, NEW i \in 1..Len(channel), channel[i].type = "replay"
  PROVE  /\ channel[i].view \in Views /\ afterSeq[channel[i].view] \in Nat
         /\ afterSeq[channel[i].view] <= MaxEvents
PROOF
<1>1. channel[i] \in Messages
  BY DEF SRTypeOK
<1>2. channel[i].view \in Views
  BY <1>1, KindsOfMessages
<1> QED BY <1>2, Numbers DEF SRTypeOK

\* Where what the view takes from a replay begins, and where it ends.
Begin(m)     == IF afterSeq[m.view] < eventSeq THEN eventSeq ELSE afterSeq[m.view]
Final(m, to) == IF Begin(m) < to THEN to ELSE Begin(m)

\* What a replay adds to the transcript of the view, and how far it gets.
LEMMA ReplayAdds ==
  ASSUME SRTypeOK, NEW m, NEW to \in 0..seq, afterSeq[m.view] \in 0..MaxEvents,
         m.replay = (afterSeq[m.view] + 1)..to
  PROVE  /\ Begin(m) \in Nat /\ Final(m, to) \in Nat
         /\ eventSeq <= Begin(m) /\ Begin(m) <= Final(m, to) /\ Final(m, to) <= MaxEvents
         /\ Fresh(m.replay) = (Begin(m) + 1)..Final(m, to)
         /\ InOrder(Fresh(m.replay)) = [i \in 1..(Final(m, to) - Begin(m)) |-> Begin(m) + i]
         /\ Highest(Fresh(m.replay), eventSeq) = IF Begin(m) < to THEN to ELSE eventSeq
PROOF
<1> DEFINE f == afterSeq[m.view]
<1>1. /\ f \in Nat /\ f <= MaxEvents /\ eventSeq \in Nat /\ eventSeq <= MaxEvents
      /\ to \in Nat /\ to <= seq /\ seq <= MaxEvents /\ seq \in Nat /\ MaxEvents \in Nat
  BY Numbers
<1>2. /\ Begin(m) \in Nat /\ Final(m, to) \in Nat
      /\ eventSeq <= Begin(m) /\ Begin(m) <= Final(m, to) /\ Final(m, to) <= MaxEvents
      /\ Begin(m) < Final(m, to) <=> Begin(m) < to
  BY <1>1 DEF Begin, Final
<1>3. Fresh(m.replay) = (Begin(m) + 1)..Final(m, to)
  <2>1. Fresh(m.replay) = (Begin(m) + 1)..to
    BY <1>1, FreshOfInterval DEF Begin
  <2> QED BY <1>1, <1>2, <2>1 DEF Final
<1>4. InOrder(Fresh(m.replay)) = [i \in 1..(Final(m, to) - Begin(m)) |-> Begin(m) + i]
  BY <1>2, <1>3, IntervalInOrder
<1>5. Highest(Fresh(m.replay), eventSeq) = IF Begin(m) < Final(m, to) THEN Final(m, to) ELSE eventSeq
  BY <1>1, <1>2, <1>3, HighestOfInterval
<1>6. Begin(m) < to => Final(m, to) = to
  BY DEF Final
<1> QED BY <1>2, <1>3, <1>4, <1>5, <1>6

LEMMA UpToTypes ==
  ASSUME NEW n \in 0..MaxEvents
  PROVE  UpTo(n) \in Seq(Events) /\ Len(UpTo(n)) = n /\ \A i \in 1..n : UpTo(n)[i] = i
PROOF
<1>1. n \in Nat /\ \A i \in 1..n : i \in Events
  BY ArgumentsAreNumbers DEF Events
<1> QED BY <1>1 DEF UpTo

LEMMA ReceivedTypes ==
  ASSUME NEW a \in Nat, NEW b \in Nat, a <= b, b <= MaxEvents
  PROVE  /\ [i \in 1..(b - a) |-> a + i] \in Seq(Events)
         /\ Len([i \in 1..(b - a) |-> a + i]) = b - a
PROOF
<1>1. b - a \in Nat /\ \A i \in 1..(b - a) : a + i \in Events
  BY ArgumentsAreNumbers DEF Events
<1> QED BY <1>1

LEMMA Joined ==
  ASSUME NEW S, NEW s \in Seq(S), NEW t \in Seq(S)
  PROVE  /\ s \o t \in Seq(S) /\ Len(s \o t) = Len(s) + Len(t)
         /\ Len(s) \in Nat /\ Len(t) \in Nat
         /\ \A i \in 1..Len(s) : (s \o t)[i] = s[i]
         /\ \A i \in 1..Len(t) : (s \o t)[Len(s) + i] = t[i]
OBVIOUS

\* What a snapshot shows: its replay is always empty.
LEMMA SnapshotShows ==
  ASSUME SRTypeOK, SnapshotsFit, channel # <<>>, Head(channel).type = "snapshot"
  PROVE  /\ Head(channel).replay = {} /\ Head(channel).view \in Views
         /\ Head(channel).n \in 0..MaxEvents /\ Head(channel).last \in 0..MaxEvents
         /\ Fits(Head(channel))
         /\ UpTo(Head(channel).n) \o InOrder(Head(channel).replay) = UpTo(Head(channel).n)
         /\ Highest(Head(channel).replay, Head(channel).last) = Head(channel).last
PROOF
<1> DEFINE m == Head(channel)
<1>1. m = channel[1] /\ Len(channel) \in Nat \ {0} /\ m \in Messages
  BY NextMessage
<1>2. m.replay = {} /\ Fits(m)
  <2>1. 1 \in 1..Len(channel) /\ channel[1].type = "snapshot"
    BY <1>1
  <2>2. channel[1].replay = {} /\ Fits(channel[1])
    BY <2>1, Zenon DEF SnapshotsFit, SnapshotFits
  <2> QED BY <1>1, <2>2
<1>3. m.view \in Views /\ m.n \in 0..MaxEvents /\ m.last \in 0..MaxEvents
  BY <1>1, KindsOfMessages
<1>4. UpTo(m.n) \o InOrder(m.replay) = UpTo(m.n)
  <2>1. UpTo(m.n) \in Seq(Events)
    BY <1>3, UpToTypes
  <2>2. \A s \in Seq(Events) : s \o <<>> = s
    OBVIOUS
  <2>3. InOrder(m.replay) = <<>>
    BY <1>2, NothingInOrder
  <2> QED BY <2>1, <2>2, <2>3
<1>5. Highest(m.replay, m.last) = m.last
  <2>1. m.last \in Nat
    BY <1>3
  <2> QED BY <1>2, <2>1, HighestOfNothing
<1> QED BY <1>2, <1>3, <1>4, <1>5

LEMMA RendererTypes ==
  ASSUME SRTypeOK, SnapshotsFit, RepliesFit, Renderer \/ Flush
  PROVE  SRTypeOK'
PROOF
<1>0. shown \in Seq(Events) /\ pending \in Seq(Events) /\ channel \in Seq(Messages)
  BY DEF SRTypeOK
<1> DEFINE m == Head(channel)
<1>1. CASE ReceiveEvent
  <2>1. channel # <<>> /\ m.type = "event" /\ channel' = Tail(channel)
    BY <1>1 DEF ReceiveEvent
  <2>2. m \in Messages /\ Tail(channel) \in Seq(Messages)
    BY <2>1, NextMessage
  <2>3. m.n \in Events /\ m.n \in 0..MaxEvents
    BY <2>1, <2>2, KindsOfMessages, ArgumentsAreNumbers DEF Events
  <2>4. eventSeq' \in 0..MaxEvents
    BY <1>1, <2>3 DEF ReceiveEvent, SRTypeOK
  <2>5. pending' \in Seq(Events) /\ shown' \in Seq(Events)
    <3>1. Append(pending, m.n) \in Seq(Events) /\ Append(shown \o pending, m.n) \in Seq(Events)
      BY <1>0, <2>3, AppendedTo, Joined
    <3>2. <<>> \in Seq(Events)
      OBVIOUS
    <3> QED BY <1>0, <1>1, <3>1, <3>2, Zenon DEF ReceiveEvent, PushedAtOnce
  <2> QED BY <1>1, <2>1, <2>2, <2>4, <2>5, Zenon DEF ReceiveEvent, SRTypeOK, hostVars, callVars
<1>2. CASE ReceiveSnapshot
  <2>1. channel # <<>> /\ m.type = "snapshot" /\ channel' = Tail(channel)
    BY <1>2 DEF ReceiveSnapshot
  <2>2. Tail(channel) \in Seq(Messages)
    BY <2>1, NextMessage
  <2>3. /\ m.last \in 0..MaxEvents /\ UpTo(m.n) \o InOrder(m.replay) = UpTo(m.n)
        /\ Highest(m.replay, m.last) = m.last /\ UpTo(m.n) \in Seq(Events)
    BY <2>1, SnapshotShows, UpToTypes
  <2>4. CASE m.view # view
    BY <1>2, <2>1, <2>2, <2>4, Zenon DEF ReceiveSnapshot, SRTypeOK, hostVars
  <2>5. CASE m.view = view
    <3>1. /\ shown' = UpTo(m.n) /\ eventSeq' = m.last /\ live' = TRUE
          /\ afterSeq' = [afterSeq EXCEPT ![view] = m.last]
          /\ phase' = [phase EXCEPT ![<<view, "replay">>] = "sent"]
      BY <1>2, <2>3, <2>5, Zenon DEF ReceiveSnapshot
    <3>2. phase' \in [Calls -> Phases] /\ afterSeq' \in [Views -> 0..MaxEvents]
      BY <2>3, <3>1 DEF SRTypeOK, Phases
    <3>3. live' \in BOOLEAN
      BY <3>1
    <3> QED BY <1>2, <2>1, <2>2, <2>3, <3>1, <3>2, <3>3, Zenon DEF ReceiveSnapshot, SRTypeOK, hostVars
  <2> QED BY <2>4, <2>5
<1>3. CASE ReceiveReplay
  <2>1. channel # <<>> /\ channel' = Tail(channel) /\ m.type \in {"replay", "resync"}
    BY <1>3 DEF ReceiveReplay
  <2>2. m = channel[1] /\ Len(channel) \in Nat \ {0} /\ m \in Messages /\ Tail(channel) \in Seq(Messages)
    BY <2>1, NextMessage
  <2>3. eventSeq' \in 0..MaxEvents /\ shown' \in Seq(Events)
    <3>1. CASE m.view # view \/ ~live
      BY <1>0, <1>3, <3>1, Zenon DEF ReceiveReplay, SRTypeOK
    <3>2. CASE m.view = view /\ live /\ m.type = "replay"
      <4>1. /\ shown' = shown \o InOrder(Fresh(m.replay)) /\ eventSeq' = Highest(Fresh(m.replay), eventSeq)
        BY <1>3, <3>2 DEF ReceiveReplay
      <4>2. PICK to \in afterSeq[m.view]..seq : m.replay = (afterSeq[m.view] + 1)..to
        <5>1. 1 \in 1..Len(channel) /\ channel[1].type = "replay"
          BY <2>2, <3>2
        <5>2. ReplayFits(1)
          BY <5>1, Zenon DEF RepliesFit
        <5> QED BY <2>2, <5>2 DEF ReplayFits
      <4>3. afterSeq[m.view] \in 0..MaxEvents
        BY <2>2, <3>2, KindsOfMessages DEF SRTypeOK
      <4>4. to \in 0..seq
        BY <4>2, <4>3
      <4>5. InOrder(Fresh(m.replay)) \in Seq(Events)
        <5>1. /\ Begin(m) \in Nat /\ Final(m, to) \in Nat /\ Begin(m) <= Final(m, to) /\ Final(m, to) <= MaxEvents
              /\ InOrder(Fresh(m.replay)) = [i \in 1..(Final(m, to) - Begin(m)) |-> Begin(m) + i]
          BY <4>2, <4>3, <4>4, ReplayAdds
        <5> HIDE DEF m
        <5> QED BY <5>1, ReceivedTypes
      <4>6. Highest(Fresh(m.replay), eventSeq) \in 0..MaxEvents
        <5>1. Highest(Fresh(m.replay), eventSeq) \in {to, eventSeq}
          BY <4>2, <4>3, <4>4, ReplayAdds
        <5> QED BY <4>4, <5>1, Numbers
      <4> QED BY <1>0, <4>1, <4>5, <4>6, Joined
    <3>3. CASE m.view = view /\ live /\ m.type = "resync"
      <4>1. shown' = UpTo(m.n) /\ eventSeq' = m.last
        BY <1>3, <3>3 DEF ReceiveReplay
      <4> QED BY <2>2, <3>3, <4>1, KindsOfMessages, UpToTypes
    <3> QED BY <2>1, <3>1, <3>2, <3>3
  <2> QED BY <1>3, <2>1, <2>2, <2>3, Zenon DEF ReceiveReplay, SRTypeOK, hostVars, callVars
<1>4. CASE Flush
  <2>1. shown' \in Seq(Events) /\ pending' \in Seq(Events)
    BY <1>0, <1>4, Joined DEF Flush
  <2> QED BY <1>4, <2>1, Zenon DEF Flush, SRTypeOK, hostVars, callVars
<1> QED BY <1>1, <1>2, <1>3, <1>4 DEF Renderer

LEMMA OpenTypes ==
  ASSUME SRTypeOK, NEW how \in {"start", "attach"}, OpenView(how)
  PROVE  SRTypeOK'
PROOF
<1>1. view' \in 0..MaxViews /\ eventSeq' \in 0..MaxEvents
  BY Numbers DEF OpenView
<1>2. live' \in BOOLEAN /\ shown' \in Seq(Events) /\ pending' \in Seq(Events)
  <2>1. live' = FALSE /\ shown' = <<>> /\ pending' = <<>>
    BY DEF OpenView
  <2>2. <<>> \in Seq(Events)
    OBVIOUS
  <2> QED BY <2>1, <2>2, Zenon
<1>3. phase' \in [Calls -> Phases] /\ path' \in [Views -> {"start", "attach"}]
  BY DEF OpenView, SRTypeOK, Phases
<1> QED BY <1>1, <1>2, <1>3, Zenon DEF OpenView, SRTypeOK, hostVars

-----------------------------------------------------------------------------
(* Steps.                                                                  *)

LEMMA Steps ==
  ASSUME SRNext
  PROVE  \/ Write \/ (\E c \in Calls : Answer(c))
         \/ (\E k \in 1..MaxChunk : Read(k)) \/ HandleEvent \/ HandleResponse
         \/ \E v \in Views : AskSnapshot(v) \/ TakeSnapshot(v) \/ AnswerStart(v) \/ HandleReplay(v) \/ Resync(v)
         \/ ReceiveEvent \/ ReceiveSnapshot \/ ReceiveReplay \/ Flush
         \/ \E how \in {"start", "attach"} : OpenView(how)
BY DEF SRNext, Main, Renderer, Paths

\* Only the worker writes, and only AgentHost reads and counts.
LEMMA OutputIsKept ==
  ASSUME (\E v \in Views : AskSnapshot(v) \/ TakeSnapshot(v) \/ AnswerStart(v) \/ HandleReplay(v) \/ Resync(v))
         \/ ReceiveEvent \/ ReceiveSnapshot \/ ReceiveReplay \/ Flush
         \/ \E how \in {"start", "attach"} : OpenView(how)
  PROVE  stdout' = stdout /\ chunk' = chunk /\ wrote' = wrote /\ seq' = seq /\ reflected' = reflected
BY Zenon DEF AskSnapshot, TakeSnapshot, AnswerStart, HandleReplay, Resync, ReceiveEvent, ReceiveSnapshot,
   ReceiveReplay, Flush, OpenView, hostVars, callVars

LEMMA TypesKept ==
  ASSUME IInv, SRNext
  PROVE  SRTypeOK'
PROOF
<1>1. SRTypeOK /\ StdoutInOrder /\ SnapshotsFit /\ RepliesFit
  BY DEF IInv
<1> QED BY <1>1, Steps, WorkerTypes, HostTypes, CallTypes, RendererTypes, OpenTypes, Zenon DEF Renderer

LEMMA InitStdout == SRInit => StdoutInOrder /\ AnswersInOrder
BY ArgumentsAreNumbers DEF SRInit, StdoutInOrder, AnswersInOrder

LEMMA WriteKeepsOrder ==
  ASSUME SRTypeOK, StdoutInOrder, Write
  PROVE  StdoutInOrder'
PROOF
<1> DEFINE N == Len(stdout)
           new == [type |-> "event", n |-> wrote + 1]
<1>1. /\ stdout' = Append(stdout, new) /\ chunk' = chunk /\ seq' = seq /\ wrote' = wrote + 1
      /\ stdout \in Seq(Lines) /\ new \in Lines
  <2>1. new \in Lines
    BY Numbers DEF Write, Lines, Events
  <2> QED BY <2>1 DEF Write, SRTypeOK, hostVars
<1>2. /\ Len(stdout') = N + 1 /\ \A i \in 1..N : stdout'[i] = stdout[i]
      /\ stdout'[N + 1] = new /\ N \in Nat
  BY <1>1, AppendedTo
<1>3. IsEvent(new) /\ new.n = wrote + 1
  BY DEF IsEvent
<1>4. wrote \in Nat /\ seq \in Nat /\ seq <= wrote
  BY Numbers
<1>5. \A i \in 1..N : /\ stdout[i].n \in seq..wrote /\ (IsEvent(stdout[i]) => stdout[i].n > seq)
  BY Zenon DEF StdoutInOrder
<1>6. \A i \in 1..Len(stdout') :
        stdout'[i].n \in seq..(wrote + 1) /\ (IsEvent(stdout'[i]) => stdout'[i].n > seq)
  <2> HIDE DEF new
  <2> QED BY <1>2, <1>3, <1>4, <1>5 DEF IsEvent
<1>7. \A i, j \in 1..Len(stdout') :
        i < j => stdout'[i].n <= stdout'[j].n /\ (IsEvent(stdout'[j]) => stdout'[i].n < stdout'[j].n)
  <2>1. SUFFICES ASSUME NEW i \in 1..(N + 1), NEW j \in 1..(N + 1), i < j
                 PROVE  stdout'[i].n <= stdout'[j].n /\ (IsEvent(stdout'[j]) => stdout'[i].n < stdout'[j].n)
    BY <1>2
  <2>2. i \in 1..N /\ stdout'[i] = stdout[i]
    BY <1>2, <2>1
  <2>3. CASE j \in 1..N
    BY <1>2, <2>1, <2>2, <2>3 DEF StdoutInOrder
  <2>4. CASE j = N + 1
    <3> HIDE DEF new
    <3> QED BY <1>2, <1>3, <1>4, <1>5, <2>2, <2>4
  <2> QED BY <1>2, <2>3, <2>4
<1>8. \A k \in (seq + 1)..(wrote + 1) : \E i \in 1..Len(stdout') : IsEvent(stdout'[i]) /\ stdout'[i].n = k
  <2>1. SUFFICES ASSUME NEW k \in (seq + 1)..(wrote + 1)
                 PROVE  \E i \in 1..(N + 1) : IsEvent(stdout'[i]) /\ stdout'[i].n = k
    BY <1>2
  <2>2. CASE k = wrote + 1
    <3> HIDE DEF new
    <3> QED BY <1>2, <1>3, <2>2
  <2>3. CASE k <= wrote
    <3>1. PICK i \in 1..N : IsEvent(stdout[i]) /\ stdout[i].n = k
      BY <1>4, <2>3 DEF StdoutInOrder
    <3> QED BY <1>2, <3>1
  <2> QED BY <1>4, <2>2, <2>3
<1>9. chunk' <= MaxChunk
  BY <1>1 DEF StdoutInOrder
<1> QED BY <1>1, <1>6, <1>7, <1>8, <1>9 DEF StdoutInOrder, IsEvent

LEMMA AnswerKeepsOrder ==
  ASSUME SRTypeOK, StdoutInOrder, NEW c \in Calls, Answer(c)
  PROVE  StdoutInOrder'
PROOF
<1> DEFINE N == Len(stdout)
           new == [type |-> "messages", n |-> wrote, call |-> c]
<1>1. /\ stdout' = Append(stdout, new) /\ chunk' = chunk /\ seq' = seq /\ wrote' = wrote
      /\ stdout \in Seq(Lines) /\ new \in Lines
  <2>1. new \in Lines
    BY Numbers DEF Lines
  <2> QED BY <2>1 DEF Answer, SRTypeOK, hostVars
<1>2. /\ Len(stdout') = N + 1 /\ \A i \in 1..N : stdout'[i] = stdout[i]
      /\ stdout'[N + 1] = new /\ N \in Nat
  BY <1>1, AppendedTo
<1>3. ~IsEvent(new) /\ new.n = wrote
  BY DEF IsEvent
<1>4. wrote \in Nat /\ seq \in Nat /\ seq <= wrote
  BY Numbers
<1>5. \A i \in 1..N : /\ stdout[i].n \in seq..wrote /\ (IsEvent(stdout[i]) => stdout[i].n > seq)
  BY Zenon DEF StdoutInOrder
<1>6. \A i \in 1..Len(stdout') :
        stdout'[i].n \in seq..wrote /\ (IsEvent(stdout'[i]) => stdout'[i].n > seq)
  <2> HIDE DEF new
  <2> QED BY <1>2, <1>3, <1>4, <1>5 DEF IsEvent
<1>7. \A i, j \in 1..Len(stdout') :
        i < j => stdout'[i].n <= stdout'[j].n /\ (IsEvent(stdout'[j]) => stdout'[i].n < stdout'[j].n)
  <2>1. SUFFICES ASSUME NEW i \in 1..(N + 1), NEW j \in 1..(N + 1), i < j
                 PROVE  stdout'[i].n <= stdout'[j].n /\ (IsEvent(stdout'[j]) => stdout'[i].n < stdout'[j].n)
    BY <1>2
  <2>2. i \in 1..N /\ stdout'[i] = stdout[i]
    BY <1>2, <2>1
  <2>3. CASE j \in 1..N
    BY <1>2, <2>1, <2>2, <2>3 DEF StdoutInOrder
  <2>4. CASE j = N + 1
    <3> HIDE DEF new
    <3> QED BY <1>2, <1>3, <1>4, <1>5, <2>2, <2>4
  <2> QED BY <1>2, <2>3, <2>4
<1>8. \A k \in (seq + 1)..wrote : \E i \in 1..Len(stdout') : IsEvent(stdout'[i]) /\ stdout'[i].n = k
  <2>1. SUFFICES ASSUME NEW k \in (seq + 1)..wrote
                 PROVE  \E i \in 1..(N + 1) : IsEvent(stdout'[i]) /\ stdout'[i].n = k
    BY <1>2
  <2>2. PICK i \in 1..N : IsEvent(stdout[i]) /\ stdout[i].n = k
    BY <1>4 DEF StdoutInOrder
  <2> QED BY <1>2, <2>2
<1>9. chunk' <= MaxChunk
  BY <1>1 DEF StdoutInOrder
<1> QED BY <1>1, <1>6, <1>7, <1>8, <1>9 DEF StdoutInOrder, IsEvent

\* The rest of the lines, when the first one is done with.
LEMMA HandledKeepsOrder ==
  ASSUME SRTypeOK, StdoutInOrder, HandleEvent \/ HandleResponse
  PROVE  StdoutInOrder'
PROOF
<1> DEFINE N == Len(stdout)
<1>1. chunk > 0 /\ stdout' = Tail(stdout) /\ chunk' = chunk - 1 /\ wrote' = wrote
  BY DEF HandleEvent, HandleResponse
<1>2. /\ Len(stdout') = N - 1 /\ N \in Nat \ {0}
      /\ \A i \in 1..(N - 1) : stdout'[i] = stdout[i + 1]
      /\ Head(stdout) = stdout[1]
  BY <1>1, NextLine, Numbers
<1>3. wrote \in Nat /\ seq \in Nat /\ seq <= wrote /\ chunk \in Nat /\ MaxChunk \in Nat
  BY Numbers, ArgumentsAreNumbers
<1>4. chunk' <= MaxChunk
  <2>1. chunk <= MaxChunk
    BY DEF StdoutInOrder
  <2> QED BY <1>1, <1>3, <2>1
<1>5. /\ \A i \in 1..N : stdout[i].n \in seq..wrote /\ (IsEvent(stdout[i]) => stdout[i].n > seq)
      /\ \A i, j \in 1..N :
           i < j => stdout[i].n <= stdout[j].n /\ (IsEvent(stdout[j]) => stdout[i].n < stdout[j].n)
      /\ \A k \in (seq + 1)..wrote : \E i \in 1..N : IsEvent(stdout[i]) /\ stdout[i].n = k
  BY Zenon DEF StdoutInOrder
<1>6. \A i, j \in 1..Len(stdout') :
        i < j => stdout'[i].n <= stdout'[j].n /\ (IsEvent(stdout'[j]) => stdout'[i].n < stdout'[j].n)
  <2>1. SUFFICES ASSUME NEW i \in 1..(N - 1), NEW j \in 1..(N - 1), i < j
                 PROVE  stdout'[i].n <= stdout'[j].n /\ (IsEvent(stdout'[j]) => stdout'[i].n < stdout'[j].n)
    BY <1>2
  <2>2. i + 1 \in 1..N /\ j + 1 \in 1..N /\ i + 1 < j + 1
    BY <1>2, <2>1
  <2>3. stdout'[i] = stdout[i + 1] /\ stdout'[j] = stdout[j + 1]
    BY <1>2
  <2> QED BY <1>5, <2>2, <2>3
<1>7. CASE HandleEvent
  <2>1. IsEvent(stdout[1]) /\ seq' = seq + 1
    BY <1>2, <1>7 DEF HandleEvent, IsEvent
  <2>2. stdout[1].n = seq + 1
    BY <1>1, <2>1, NextLine
  <2>3. \A i \in 1..Len(stdout') :
          stdout'[i].n \in seq'..wrote /\ (IsEvent(stdout'[i]) => stdout'[i].n > seq')
    <3>1. SUFFICES ASSUME NEW i \in 1..(N - 1)
                   PROVE  stdout'[i].n \in seq'..wrote /\ (IsEvent(stdout'[i]) => stdout'[i].n > seq')
      BY <1>2
    <3>2. i + 1 \in 1..N /\ 1 \in 1..N /\ 1 < i + 1 /\ stdout'[i] = stdout[i + 1]
      BY <1>2
    <3>3. /\ stdout[1].n <= stdout[i + 1].n /\ (IsEvent(stdout[i + 1]) => stdout[1].n < stdout[i + 1].n)
          /\ stdout[i + 1].n \in seq..wrote
      BY <1>5, <3>2
    <3> QED BY <1>3, <2>1, <2>2, <3>2, <3>3
  <2>4. \A k \in (seq' + 1)..wrote : \E i \in 1..Len(stdout') : IsEvent(stdout'[i]) /\ stdout'[i].n = k
    <3>1. SUFFICES ASSUME NEW k \in (seq + 2)..wrote
                   PROVE  \E i \in 1..(N - 1) : IsEvent(stdout'[i]) /\ stdout'[i].n = k
      BY <1>2, <1>3, <2>1
    <3>2. PICK i \in 1..N : IsEvent(stdout[i]) /\ stdout[i].n = k
      BY <1>3, <1>5
    <3>3. i # 1
      BY <1>3, <2>2, <3>2
    <3>4. i - 1 \in 1..(N - 1) /\ stdout'[i - 1] = stdout[i]
      BY <1>2, <3>3
    <3> QED BY <3>2, <3>4
  <2> QED BY <1>1, <1>4, <1>6, <2>3, <2>4 DEF StdoutInOrder, IsEvent
<1>8. CASE HandleResponse
  <2>1. ~IsEvent(stdout[1]) /\ seq' = seq
    BY <1>2, <1>8 DEF HandleResponse, IsEvent, hostVars
  <2>2. \A i \in 1..Len(stdout') :
          stdout'[i].n \in seq..wrote /\ (IsEvent(stdout'[i]) => stdout'[i].n > seq)
    <3>1. SUFFICES ASSUME NEW i \in 1..(N - 1)
                   PROVE  stdout'[i].n \in seq..wrote /\ (IsEvent(stdout'[i]) => stdout'[i].n > seq)
      BY <1>2
    <3>2. i + 1 \in 1..N /\ stdout'[i] = stdout[i + 1]
      BY <1>2
    <3> QED BY <1>5, <3>2
  <2>3. \A k \in (seq + 1)..wrote : \E i \in 1..Len(stdout') : IsEvent(stdout'[i]) /\ stdout'[i].n = k
    <3>1. SUFFICES ASSUME NEW k \in (seq + 1)..wrote
                   PROVE  \E i \in 1..(N - 1) : IsEvent(stdout'[i]) /\ stdout'[i].n = k
      BY <1>2
    <3>2. PICK i \in 1..N : IsEvent(stdout[i]) /\ stdout[i].n = k
      BY <1>5
    <3>3. i # 1
      BY <2>1, <3>2
    <3>4. i - 1 \in 1..(N - 1) /\ stdout'[i - 1] = stdout[i]
      BY <1>2, <3>3
    <3> QED BY <3>2, <3>4
  <2> QED BY <1>1, <1>4, <1>6, <2>1, <2>2, <2>3 DEF StdoutInOrder, IsEvent
<1> QED BY <1>7, <1>8

LEMMA StdoutKept ==
  ASSUME IInv, SRNext
  PROVE  StdoutInOrder'
PROOF
<1>1. SRTypeOK /\ StdoutInOrder
  BY DEF IInv
<1>2. ASSUME NEW k \in 1..MaxChunk, Read(k)
      PROVE  StdoutInOrder'
  <2>1. chunk' <= MaxChunk
    BY <1>2, ArgumentsAreNumbers DEF Read
  <2>2. stdout' = stdout /\ seq' = seq /\ wrote' = wrote
    BY <1>2 DEF Read, hostVars
  <2> QED BY <1>1, <2>1, <2>2, Zenon DEF StdoutInOrder, IsEvent
<1>3. ASSUME stdout' = stdout /\ chunk' = chunk /\ wrote' = wrote /\ seq' = seq
      PROVE  StdoutInOrder'
  BY <1>1, <1>3, Zenon DEF StdoutInOrder, IsEvent
<1> QED BY <1>1, <1>2, <1>3, Steps, OutputIsKept, WriteKeepsOrder, AnswerKeepsOrder, HandledKeepsOrder, Zenon

-----------------------------------------------------------------------------
(* Calls.                                                                  *)

LEMMA PairsAreCalls ==
  /\ \A v \in Views : <<v, "open">> \in Calls /\ <<v, "replay">> \in Calls
  /\ \A c \in Calls : \E v \in Views : c = <<v, "open">> \/ c = <<v, "replay">>
BY DEF Calls

\* The snapshot that is received is of a view that has asked for no replay yet.
LEMMA SnapshotIsFirst ==
  ASSUME SRTypeOK, SnapshotsFit, channel # <<>>, Head(channel).type = "snapshot"
  PROVE  /\ Head(channel).view \in Views
         /\ phase[<<Head(channel).view, "open">>] = "done"
         /\ phase[<<Head(channel).view, "replay">>] = "none"
         /\ path[Head(channel).view] = "attach" => RestComing(Head(channel).last)
PROOF
<1>1. 1 \in 1..Len(channel) /\ Head(channel) = channel[1]
  BY NextMessage
<1> QED BY <1>1, SnapshotShows, Zenon DEF SnapshotsFit, SnapshotFits

\* A view not opened yet has made no call.
LEMMA NotCalledYet ==
  ASSUME SRTypeOK, CallsInOrder, NEW v \in Views, v > view
  PROVE  phase[<<v, "open">>] = "none" /\ phase[<<v, "replay">>] = "none"
PROOF
<1>1. ~(v <= view)
  BY Numbers DEF Views
<1> QED BY <1>1 DEF CallsInOrder

\* A question that was asked stays asked until its answer is read.
LEMMA AskedStaysAsked ==
  ASSUME IInv,
         (\E v \in Views : AskSnapshot(v) \/ TakeSnapshot(v) \/ AnswerStart(v) \/ HandleReplay(v) \/ Resync(v))
         \/ ReceiveEvent \/ ReceiveSnapshot \/ ReceiveReplay \/ Flush
         \/ \E how \in {"start", "attach"} : OpenView(how)
  PROVE  \A c \in Calls : phase[c] = "stdout" => phase'[c] = "stdout"
PROOF
<1> SUFFICES ASSUME NEW c \in Calls, phase[c] = "stdout"
             PROVE  phase'[c] = "stdout"
  OBVIOUS
<1>0. SRTypeOK /\ CallsInOrder /\ SnapshotsFit /\ phase \in [Calls -> Phases]
  BY DEF IInv, SRTypeOK
<1>1. ASSUME NEW v \in Views,
             AskSnapshot(v) \/ TakeSnapshot(v) \/ AnswerStart(v) \/ HandleReplay(v) \/ Resync(v)
      PROVE  phase'[c] = "stdout"
  BY <1>0, <1>1 DEF AskSnapshot, TakeSnapshot, AnswerStart, HandleReplay, Resync
<1>2. CASE ReceiveSnapshot
  <2>1. phase' = phase \/ (Head(channel).view = view /\ phase' = [phase EXCEPT ![<<view, "replay">>] = "sent"])
    BY <1>2 DEF ReceiveSnapshot
  <2>2. Head(channel).view = view => phase[<<view, "replay">>] = "none"
    BY <1>0, <1>2, SnapshotIsFirst DEF ReceiveSnapshot
  <2> QED BY <1>0, <2>1, <2>2
<1>3. CASE ReceiveEvent \/ ReceiveReplay \/ Flush
  BY <1>3 DEF ReceiveEvent, ReceiveReplay, Flush, callVars
<1>4. ASSUME NEW how \in {"start", "attach"}, OpenView(how)
      PROVE  phase'[c] = "stdout"
  <2>1. view + 1 \in Views /\ view + 1 > view
    BY <1>0, <1>4, Numbers DEF OpenView, Views
  <2>2. phase[<<view + 1, "open">>] = "none"
    BY <1>0, <2>1, NotCalledYet
  <2> QED BY <1>0, <1>4, <2>2 DEF OpenView
<1> QED BY <1>1, <1>2, <1>3, <1>4

LEMMA AnswersKept ==
  ASSUME IInv, SRNext
  PROVE  AnswersInOrder'
PROOF
<1>0. SRTypeOK /\ StdoutInOrder /\ AnswersInOrder /\ phase \in [Calls -> Phases] /\ stdout \in Seq(Lines)
  BY DEF IInv, SRTypeOK
<1> DEFINE N == Len(stdout)
<1>1. /\ \A i \in 1..N : ~IsEvent(stdout[i]) => phase[stdout[i].call] = "stdout"
      /\ \A i, j \in 1..N : ~IsEvent(stdout[i]) /\ ~IsEvent(stdout[j]) /\ i # j => stdout[i].call # stdout[j].call
  BY <1>0, Zenon DEF AnswersInOrder
<1>2. \A i \in 1..N : ~IsEvent(stdout[i]) => stdout[i].call \in Calls
  BY <1>0, KindsOfLines DEF IsEvent
<1>3. CASE Write
  <2> DEFINE new == [type |-> "event", n |-> wrote + 1]
  <2>1. new \in Lines /\ IsEvent(new)
    BY <1>0, <1>3, Numbers DEF Write, Lines, Events, IsEvent
  <2>2. stdout' = Append(stdout, new) /\ phase' = phase
    BY <1>3 DEF Write, callVars
  <2>3. /\ Len(stdout') = N + 1 /\ \A i \in 1..N : stdout'[i] = stdout[i]
        /\ stdout'[N + 1] = new /\ N \in Nat
    BY <1>0, <2>1, <2>2, AppendedTo
  <2> HIDE DEF new
  <2>4. \A i \in 1..Len(stdout') : ~IsEvent(stdout'[i]) => i \in 1..N /\ stdout'[i] = stdout[i]
    BY <2>1, <2>3
  <2>5. \A i \in 1..Len(stdout') : ~IsEvent(stdout'[i]) => phase'[stdout'[i].call] = "stdout"
    BY <1>1, <2>2, <2>4
  <2>6. \A i, j \in 1..Len(stdout') :
          ~IsEvent(stdout'[i]) /\ ~IsEvent(stdout'[j]) /\ i # j => stdout'[i].call # stdout'[j].call
    BY <1>1, <2>4
  <2> QED BY <2>5, <2>6 DEF AnswersInOrder, IsEvent
<1>4. ASSUME NEW c \in Calls, Answer(c)
      PROVE  AnswersInOrder'
  <2> DEFINE new == [type |-> "messages", n |-> wrote, call |-> c]
  <2>1. new \in Lines /\ ~IsEvent(new) /\ new.call = c
    BY <1>0, Numbers DEF Lines, IsEvent
  <2>2. stdout' = Append(stdout, new) /\ phase[c] = "worker" /\ phase' = [phase EXCEPT ![c] = "stdout"]
    BY <1>4 DEF Answer
  <2>3. /\ Len(stdout') = N + 1 /\ \A i \in 1..N : stdout'[i] = stdout[i]
        /\ stdout'[N + 1] = new /\ N \in Nat
    BY <1>0, <2>1, <2>2, AppendedTo
  <2>4. \A i \in 1..N : ~IsEvent(stdout'[i]) => stdout'[i].call # c /\ phase'[stdout'[i].call] = "stdout"
    BY <1>0, <1>1, <1>2, <2>2, <2>3
  <2>5. phase'[c] = "stdout"
    BY <1>0, <2>2
  <2> HIDE DEF new
  <2>6. \A i \in 1..Len(stdout') : ~IsEvent(stdout'[i]) => phase'[stdout'[i].call] = "stdout"
    BY <2>1, <2>3, <2>4, <2>5
  <2>7. \A i, j \in 1..Len(stdout') :
          ~IsEvent(stdout'[i]) /\ ~IsEvent(stdout'[j]) /\ i # j => stdout'[i].call # stdout'[j].call
    <3>1. \A i, j \in 1..N :
            ~IsEvent(stdout'[i]) /\ ~IsEvent(stdout'[j]) /\ i # j => stdout'[i].call # stdout'[j].call
      BY <1>1, <2>3
    <3> QED BY <2>1, <2>3, <2>4, <3>1
  <2> QED BY <2>6, <2>7 DEF AnswersInOrder, IsEvent
<1>5. CASE HandleEvent \/ HandleResponse
  <2>1. chunk > 0 /\ stdout' = Tail(stdout)
    BY <1>5 DEF HandleEvent, HandleResponse
  <2>2. /\ Len(stdout') = N - 1 /\ N \in Nat \ {0}
        /\ \A i \in 1..(N - 1) : stdout'[i] = stdout[i + 1]
        /\ Head(stdout) = stdout[1]
    BY <1>0, <2>1, NextLine, Numbers
  <2>3. \A i, j \in 1..Len(stdout') :
          ~IsEvent(stdout'[i]) /\ ~IsEvent(stdout'[j]) /\ i # j => stdout'[i].call # stdout'[j].call
    <3>1. SUFFICES ASSUME NEW i \in 1..(N - 1), NEW j \in 1..(N - 1), i # j,
                          ~IsEvent(stdout'[i]), ~IsEvent(stdout'[j])
                   PROVE  stdout'[i].call # stdout'[j].call
      BY <2>2
    <3>2. i + 1 \in 1..N /\ j + 1 \in 1..N /\ i + 1 # j + 1
      BY <2>2, <3>1
    <3> QED BY <1>1, <2>2, <3>1, <3>2
  <2>4. \A i \in 1..Len(stdout') : ~IsEvent(stdout'[i]) => phase'[stdout'[i].call] = "stdout"
    <3>1. SUFFICES ASSUME NEW i \in 1..(N - 1), ~IsEvent(stdout'[i])
                   PROVE  phase'[stdout'[i].call] = "stdout"
      BY <2>2
    <3>2. i + 1 \in 1..N /\ 1 \in 1..N /\ 1 # i + 1 /\ stdout'[i] = stdout[i + 1]
      BY <2>2, <3>1
    <3>3. phase[stdout'[i].call] = "stdout" /\ stdout'[i].call \in Calls
      BY <1>1, <1>2, <3>1, <3>2
    <3>4. CASE HandleEvent
      BY <3>3, <3>4 DEF HandleEvent, callVars
    <3>5. CASE HandleResponse
      <4>1. ~IsEvent(stdout[1]) /\ phase' = [phase EXCEPT ![stdout[1].call] = "answered"]
        BY <2>2, <3>5 DEF HandleResponse, IsEvent
      <4>2. stdout'[i].call # stdout[1].call
        BY <1>1, <3>1, <3>2, <4>1
      <4> QED BY <1>0, <3>3, <4>1, <4>2
    <3> QED BY <1>5, <3>4, <3>5
  <2> QED BY <2>3, <2>4 DEF AnswersInOrder, IsEvent
<1>6. ASSUME NEW k \in 1..MaxChunk, Read(k)
      PROVE  AnswersInOrder'
  <2>1. stdout' = stdout /\ phase' = phase
    BY <1>6 DEF Read, callVars
  <2> QED BY <1>0, <2>1, Zenon DEF AnswersInOrder, IsEvent
<1>7. ASSUME stdout' = stdout, \A c \in Calls : phase[c] = "stdout" => phase'[c] = "stdout"
      PROVE  AnswersInOrder'
  BY <1>1, <1>2, <1>7, Zenon DEF AnswersInOrder, IsEvent
<1> QED BY <1>3, <1>4, <1>5, <1>6, <1>7, Steps, OutputIsKept, AskedStaysAsked, Zenon

LEMMA InitCalls == SRInit => CallsInOrder
PROOF
<1> SUFFICES ASSUME SRInit PROVE CallsInOrder
  OBVIOUS
<1>1. \A c \in Calls : phase[c] = "none"
  BY DEF SRInit
<1> QED BY <1>1, PairsAreCalls DEF CallsInOrder

\* The answer that is read leaves its call with all that was numbered.
LEMMA AnswerIsRead ==
  ASSUME IInv, HandleResponse
  PROVE  \E c \in Calls :
           /\ phase[c] = "stdout" /\ phase' = [phase EXCEPT ![c] = "answered"]
           /\ reflected' = [reflected EXCEPT ![c] = seq]
           /\ OneLine => chunk' = 0
PROOF
<1>0. SRTypeOK /\ StdoutInOrder /\ AnswersInOrder
  BY DEF IInv
<1>1. chunk > 0 /\ ~IsEvent(stdout[1]) /\ Head(stdout) = stdout[1] /\ 1 \in 1..Len(stdout)
  <2>1. chunk > 0 /\ Head(stdout).type = "messages"
    BY DEF HandleResponse
  <2>2. Head(stdout) = stdout[1]
    BY <1>0, <2>1, NextLine
  <2>3. 1 \in 1..Len(stdout)
    BY <1>0, <2>1, Numbers
  <2> QED BY <2>1, <2>2, <2>3 DEF IsEvent
<1>2. stdout[1].call \in Calls /\ stdout[1].n = seq
  BY <1>0, <1>1, NextLine
<1>3. phase[stdout[1].call] = "stdout"
  BY <1>0, <1>1, Zenon DEF AnswersInOrder
<1>4. OneLine => chunk' = 0
  <2>1. chunk \in Nat /\ chunk <= MaxChunk /\ chunk' = chunk - 1
    BY <1>0, Numbers DEF StdoutInOrder, HandleResponse
  <2> QED BY <1>1, <2>1 DEF OneLine
<1> QED BY <1>1, <1>2, <1>3, <1>4 DEF HandleResponse

LEMMA CallsKept ==
  ASSUME IInv, SRNext
  PROVE  CallsInOrder'
PROOF
<1>0. /\ SRTypeOK /\ CallsInOrder /\ SnapshotsFit
      /\ phase \in [Calls -> Phases] /\ afterSeq \in [Views -> 0..MaxEvents] /\ path \in [Views -> {"start", "attach"}]
      /\ answer \in [Views -> Snapshots] /\ reflected \in [Calls -> 0..MaxEvents]
  BY DEF IInv, SRTypeOK
<1> DEFINE O(v) == <<v, "open">>
           R(v) == <<v, "replay">>
<1>1. /\ \A v \in Views : phase[O(v)] # "none" => v <= view
      /\ \A v \in Views : phase[R(v)] # "none" => phase[O(v)] = "done" /\ afterSeq[v] <= seq
      /\ \A v \in Views : phase[O(v)] = "held" =>
           path[v] = "start" /\ answer[v].view = v /\ answer[v].replay = {} /\ Fits(answer[v])
      /\ \A c \in Calls : phase[c] = "answered" => reflected[c] <= seq /\ (OneLine => reflected[c] = seq /\ chunk = 0)
  BY <1>0 DEF CallsInOrder
<1>2. seq \in Nat /\ view \in Nat /\ view <= MaxViews /\ MaxViews \in Nat /\ seq <= MaxEvents /\ MaxEvents \in Nat
      /\ chunk \in Nat
  BY <1>0, Numbers
<1>3. CASE Write
  <2>1. UNCHANGED <<phase, view, afterSeq, path, answer, reflected, seq, chunk>>
    BY <1>3 DEF Write, hostVars, callVars, rendererVars
  <2> QED BY <1>0, <2>1, Zenon DEF CallsInOrder, Fits, OneLine
<1>4. ASSUME NEW c \in Calls, Answer(c)
      PROVE  CallsInOrder'
  <2>1. UNCHANGED <<view, afterSeq, path, answer, reflected, seq, chunk>>
        /\ phase[c] = "worker" /\ phase' = [phase EXCEPT ![c] = "stdout"]
    BY <1>4 DEF Answer, hostVars, rendererVars
  <2>2. \A d \in Calls : phase'[d] = IF d = c THEN "stdout" ELSE phase[d]
    BY <1>0, <2>1
  <2> QED BY <1>1, <2>1, <2>2, PairsAreCalls DEF CallsInOrder, Fits
<1>5. ASSUME NEW k \in 1..MaxChunk, Read(k)
      PROVE  CallsInOrder'
  <2>1. UNCHANGED <<phase, view, afterSeq, path, answer, reflected, seq>>
        /\ \A c \in Calls : phase[c] # "answered"
    BY <1>5 DEF Read, MainIdle, hostVars, callVars, rendererVars
  <2> QED BY <1>1, <2>1 DEF CallsInOrder, Fits
<1>6. CASE HandleEvent
  <2>1. UNCHANGED <<phase, view, afterSeq, path, answer, reflected>> /\ seq' = seq + 1 /\ chunk > 0
    BY <1>6 DEF HandleEvent, callVars, rendererVars
  <2>2. \A v \in Views : phase[R(v)] # "none" => afterSeq[v] <= seq'
    <3>1. SUFFICES ASSUME NEW v \in Views, phase[R(v)] # "none"
                   PROVE  afterSeq[v] <= seq'
      OBVIOUS
    <3>2. afterSeq[v] \in 0..MaxEvents /\ afterSeq[v] <= seq
      BY <1>0, <1>1, <3>1
    <3> QED BY <1>2, <2>1, <3>2
  <2>3. \A v \in Views : phase[O(v)] = "held" => Fits(answer[v])'
    BY <1>0, <1>1, <1>2, <2>1 DEF Fits, Snapshots
  <2>4. \A c \in Calls : phase[c] = "answered" => reflected[c] <= seq' /\ ~OneLine
    BY <1>0, <1>1, <1>2, <2>1
  <2> QED BY <1>1, <2>1, <2>2, <2>3, <2>4 DEF CallsInOrder, Fits, OneLine
<1>7. CASE HandleResponse
  <2>1. UNCHANGED <<view, afterSeq, path, answer, seq>> /\ chunk > 0
    BY <1>7 DEF HandleResponse, hostVars, rendererVars
  <2>2. PICK c \in Calls : /\ phase[c] = "stdout" /\ phase' = [phase EXCEPT ![c] = "answered"]
                           /\ reflected' = [reflected EXCEPT ![c] = seq]
                           /\ OneLine => chunk' = 0
    BY <1>7, AnswerIsRead
  <2>3. \A d \in Calls : /\ phase'[d] = (IF d = c THEN "answered" ELSE phase[d])
                         /\ reflected'[d] = (IF d = c THEN seq ELSE reflected[d])
    BY <1>0, <2>2
  <2>4. \A d \in Calls : phase'[d] = "answered" => reflected'[d] <= seq /\ (OneLine => reflected'[d] = seq /\ chunk' = 0)
    BY <1>1, <1>2, <2>1, <2>2, <2>3
  <2>5. \A v \in Views : phase'[O(v)] # "none" => v <= view
    BY <1>1, <2>2, <2>3, PairsAreCalls
  <2>6. \A v \in Views : /\ phase'[R(v)] # "none" => phase'[O(v)] = "done" /\ afterSeq[v] <= seq
                         /\ phase'[O(v)] = "held" => phase[O(v)] = "held"
    <3>1. SUFFICES ASSUME NEW v \in Views
                   PROVE  /\ phase'[R(v)] # "none" => phase'[O(v)] = "done" /\ afterSeq[v] <= seq
                          /\ phase'[O(v)] = "held" => phase[O(v)] = "held"
      OBVIOUS
    <3>2. /\ phase'[R(v)] = (IF R(v) = c THEN "answered" ELSE phase[R(v)])
          /\ phase'[O(v)] = (IF O(v) = c THEN "answered" ELSE phase[O(v)])
      BY <2>3, PairsAreCalls
    <3>3. ASSUME phase'[R(v)] # "none"
          PROVE  phase'[O(v)] = "done" /\ afterSeq[v] <= seq
      <4>1. phase[R(v)] # "none"
        BY <2>2, <3>2, <3>3
      <4>2. phase[O(v)] = "done" /\ afterSeq[v] <= seq
        BY <1>1, <4>1
      <4> QED BY <2>2, <3>2, <4>2
    <3> QED BY <3>2, <3>3
  <2> QED BY <1>1, <2>1, <2>4, <2>5, <2>6 DEF CallsInOrder, Fits, OneLine
<1>8. ASSUME NEW w \in Views,
             AskSnapshot(w) \/ AnswerStart(w) \/ HandleReplay(w) \/ Resync(w)
      PROVE  CallsInOrder'
  <2>1. UNCHANGED <<view, afterSeq, path, answer, reflected, seq, chunk>>
    BY <1>8 DEF AskSnapshot, AnswerStart, HandleReplay, Resync, hostVars, rendererVars
  <2>2. \A d \in Calls : /\ phase'[d] # "none" <=> phase[d] # "none"
                         /\ phase'[d] \in {"held", "answered"} => phase'[d] = phase[d]
                         /\ phase[d] = "done" => phase'[d] = "done"
    BY <1>0, <1>8 DEF AskSnapshot, AnswerStart, HandleReplay, Resync
  <2>3. \A c \in Calls : phase'[c] = "answered" => reflected[c] <= seq /\ (OneLine => reflected[c] = seq /\ chunk = 0)
    BY <1>1, <2>2
  <2>4. /\ \A v \in Views : phase'[O(v)] # "none" => v <= view
        /\ \A v \in Views : phase'[R(v)] # "none" => phase'[O(v)] = "done" /\ afterSeq[v] <= seq
    BY <1>1, <2>2, PairsAreCalls
  <2>5. \A v \in Views : phase'[O(v)] = "held" =>
           path[v] = "start" /\ answer[v].view = v /\ answer[v].replay = {} /\ Fits(answer[v])
    BY <1>1, <2>2, PairsAreCalls
  <2>6. \A v \in Views : Fits(answer[v])' <=> Fits(answer[v])
    BY <2>1 DEF Fits
  <2> QED BY <2>1, <2>3, <2>4, <2>5, <2>6 DEF CallsInOrder
<1>9. ASSUME NEW w \in Views, TakeSnapshot(w)
      PROVE  CallsInOrder'
  <2> DEFINE a == [type |-> "snapshot", view |-> w, n |-> reflected[O(w)], last |-> Cut, replay |-> ReplaySince(Cut)]
  <2>1. /\ UNCHANGED <<view, afterSeq, path, reflected, seq, chunk>> /\ phase[O(w)] = "answered"
        /\ answer' = [answer EXCEPT ![w] = a] /\ O(w) \in Calls
    BY <1>9, PairsAreCalls DEF TakeSnapshot, rendererVars
  <2>2. \/ path[w] = "attach" /\ phase' = [phase EXCEPT ![O(w)] = "done"]
        \/ path[w] = "start" /\ phase' = [phase EXCEPT ![O(w)] = "held"]
    BY <1>9 DEF TakeSnapshot
  <2>3. a.view = w /\ a.replay = {} /\ Fits(a)
    <3>1. ReplaySince(Cut) = {}
      BY <1>0, NothingSinceCut
    <3>2. reflected[O(w)] <= seq /\ (OneLine => reflected[O(w)] = seq) /\ seq <= seq
      BY <1>1, <1>2, <2>1
    <3> QED BY <2>1, <3>1, <3>2 DEF Fits, Cut, OneLine
  <2>4. \A d \in Calls : /\ phase'[d] # "none" <=> phase[d] # "none"
                         /\ phase'[d] = "answered" => phase[d] = "answered"
                         /\ phase[d] = "done" => phase'[d] = "done"
                         /\ d # O(w) => phase'[d] = phase[d]
    BY <1>0, <2>1, <2>2
  <2> HIDE DEF a
  <2>5. answer'[w] = a /\ \A v \in Views : v # w => answer'[v] = answer[v]
    BY <1>0, <2>1
  <2>6. \A v \in Views : phase'[O(v)] = "held" =>
           path[v] = "start" /\ answer'[v].view = v /\ answer'[v].replay = {} /\ Fits(answer[v])'
    <3>1. SUFFICES ASSUME NEW v \in Views, phase'[O(v)] = "held"
                   PROVE  path[v] = "start" /\ answer'[v].view = v /\ answer'[v].replay = {} /\ Fits(answer[v])'
      OBVIOUS
    <3>2. CASE v = w
      <4>1. path[w] = "start"
        BY <1>0, <2>1, <2>2, <3>1, <3>2
      <4>2. Fits(answer[v])'
        <5>1. answer'[v] = a /\ seq' = seq
          BY <2>1, <2>5, <3>2
        <5>2. a.n <= a.last /\ a.last <= seq /\ (OneLine => a.n = a.last)
          BY <2>3 DEF Fits
        <5> QED BY <5>1, <5>2 DEF Fits
      <4> QED BY <2>3, <2>5, <3>2, <4>1, <4>2
    <3>3. CASE v # w
      <4>1. phase[O(v)] = "held"
        BY <2>4, <3>1, <3>3, PairsAreCalls
      <4> QED BY <1>1, <2>1, <2>5, <3>3, <4>1 DEF Fits
    <3> QED BY <3>2, <3>3
  <2> QED BY <1>1, <2>1, <2>4, <2>6, PairsAreCalls DEF CallsInOrder, Fits
<1>10. CASE ReceiveEvent \/ ReceiveReplay \/ Flush
  <2>1. UNCHANGED <<phase, view, afterSeq, path, answer, reflected, seq, chunk>>
    BY <1>10 DEF ReceiveEvent, ReceiveReplay, Flush, hostVars, callVars
  <2> QED BY <1>0, <2>1, Zenon DEF CallsInOrder, Fits, OneLine
<1>11. CASE ReceiveSnapshot
  <2> DEFINE m == Head(channel)
  <2>1. UNCHANGED <<view, path, answer, reflected, seq, chunk>> /\ channel # <<>> /\ m.type = "snapshot"
    BY <1>11 DEF ReceiveSnapshot, hostVars
  <2>2. CASE UNCHANGED <<phase, afterSeq>>
    BY <1>0, <2>1, <2>2, Zenon DEF CallsInOrder, Fits, OneLine
  <2>3. CASE m.view = view /\ phase' = [phase EXCEPT ![R(view)] = "sent"]
             /\ afterSeq' = [afterSeq EXCEPT ![view] = Highest(m.replay, m.last)]
    <3>1. /\ view \in Views /\ phase[O(view)] = "done" /\ m.last <= seq
          /\ afterSeq' = [afterSeq EXCEPT ![view] = m.last]
      BY <1>0, <2>1, <2>3, SnapshotIsFirst, SnapshotShows DEF Fits
    <3>2. /\ \A v \in Views : phase'[O(v)] = phase[O(v)]
          /\ \A v \in Views : v # view => phase'[R(v)] = phase[R(v)] /\ afterSeq'[v] = afterSeq[v]
          /\ afterSeq'[view] = m.last
          /\ \A c \in Calls : phase'[c] = "answered" => phase[c] = "answered"
      BY <1>0, <2>3, <3>1, PairsAreCalls
    <3> QED BY <1>1, <2>1, <3>1, <3>2 DEF CallsInOrder, Fits
  <2> QED BY <1>11, <2>2, <2>3 DEF ReceiveSnapshot
<1>12. ASSUME NEW how \in {"start", "attach"}, OpenView(how)
      PROVE  CallsInOrder'
  <2>1. /\ UNCHANGED <<answer, afterSeq, reflected, seq, chunk>> /\ view' = view + 1
        /\ phase' = [phase EXCEPT ![O(view + 1)] = "sent"] /\ path' = [path EXCEPT ![view + 1] = how]
        /\ view + 1 \in Views
    BY <1>2, <1>12 DEF OpenView, hostVars, Views
  <2>2. phase[O(view + 1)] = "none" /\ phase[R(view + 1)] = "none"
    BY <1>0, <1>2, <2>1, NotCalledYet
  <2>3. /\ \A v \in Views : phase'[R(v)] = phase[R(v)]
        /\ \A v \in Views : v # view + 1 => phase'[O(v)] = phase[O(v)] /\ path'[v] = path[v]
        /\ phase'[O(view + 1)] = "sent"
        /\ \A c \in Calls : phase'[c] = "answered" => phase[c] = "answered"
    BY <1>0, <2>1, PairsAreCalls
  <2>4. \A v \in Views : phase'[O(v)] # "none" => v <= view'
    BY <1>1, <1>2, <2>1, <2>3 DEF Views
  <2> QED BY <1>1, <2>1, <2>2, <2>3, <2>4 DEF CallsInOrder, Fits
<1> QED BY <1>3, <1>4, <1>5, <1>6, <1>7, <1>8, <1>9, <1>10, <1>11, <1>12, Steps, Zenon

\* What a step does to the calls of a view: an answer is final, a replay is
\* asked for by the view's snapshot and by nothing else.
LEMMA CallsGoOn ==
  ASSUME IInv, SRNext, NEW v \in Views
  PROVE  /\ phase[<<v, "open">>] = "done" => phase'[<<v, "open">>] = "done" /\ path'[v] = path[v]
         /\ phase[<<v, "replay">>] # "none" => phase'[<<v, "replay">>] # "none" /\ afterSeq'[v] = afterSeq[v]
         /\ phase[<<v, "replay">>] = "none" =>
              phase'[<<v, "replay">>] = "none" \/ (ReceiveSnapshot /\ Head(channel).view = v)
PROOF
<1>0. /\ SRTypeOK /\ CallsInOrder /\ SnapshotsFit /\ MaxViews \in Nat
      /\ phase \in [Calls -> Phases] /\ afterSeq \in [Views -> 0..MaxEvents] /\ path \in [Views -> {"start", "attach"}]
      /\ <<v, "open">> \in Calls /\ <<v, "replay">> \in Calls
  BY ArgumentsAreNumbers, PairsAreCalls DEF IInv, SRTypeOK
<1> DEFINE O(w) == <<w, "open">>
           R(w) == <<w, "replay">>
<1>1. CASE UNCHANGED <<phase, path, afterSeq>>
  BY <1>1
<1>2. ASSUME NEW c \in Calls, NEW q \in Phases \ {"none"}, phase[c] \in Phases \ {"none", "done"},
             phase' = [phase EXCEPT ![c] = q], UNCHANGED <<path, afterSeq>>
      PROVE  /\ phase[O(v)] = "done" => phase'[O(v)] = "done" /\ path'[v] = path[v]
             /\ phase[R(v)] # "none" => phase'[R(v)] # "none" /\ afterSeq'[v] = afterSeq[v]
             /\ phase[R(v)] = "none" => phase'[R(v)] = "none"
  BY <1>0, <1>2
<1>3. CASE Write \/ HandleEvent \/ (\E k \in 1..MaxChunk : Read(k)) \/ ReceiveEvent \/ ReceiveReplay \/ Flush
  <2>1. UNCHANGED <<phase, path, afterSeq>>
    BY <1>3 DEF Write, HandleEvent, Read, ReceiveEvent, ReceiveReplay, Flush, callVars
  <2> QED BY <2>1, <1>1
<1>4. ASSUME NEW c \in Calls, Answer(c)
      PROVE  \E d \in Calls : \E q \in Phases \ {"none"} :
               /\ phase[d] \in Phases \ {"none", "done"} /\ phase' = [phase EXCEPT ![d] = q]
               /\ UNCHANGED <<path, afterSeq>>
  BY <1>4 DEF Answer, Phases
<1>5. ASSUME HandleResponse
      PROVE  \E d \in Calls : \E q \in Phases \ {"none"} :
               /\ phase[d] \in Phases \ {"none", "done"} /\ phase' = [phase EXCEPT ![d] = q]
               /\ UNCHANGED <<path, afterSeq>>
  <2>1. PICK c \in Calls : phase[c] = "stdout" /\ phase' = [phase EXCEPT ![c] = "answered"]
    BY <1>5, AnswerIsRead
  <2>2. UNCHANGED <<path, afterSeq>>
    BY <1>5 DEF HandleResponse
  <2> QED BY <2>1, <2>2 DEF Phases
<1>6. ASSUME NEW w \in Views, AskSnapshot(w) \/ TakeSnapshot(w) \/ AnswerStart(w) \/ HandleReplay(w) \/ Resync(w)
      PROVE  \E d \in Calls : \E q \in Phases \ {"none"} :
               /\ phase[d] \in Phases \ {"none", "done"} /\ phase' = [phase EXCEPT ![d] = q]
               /\ UNCHANGED <<path, afterSeq>>
  <2>1. UNCHANGED <<path, afterSeq>>
    BY <1>6 DEF AskSnapshot, TakeSnapshot, AnswerStart, HandleReplay, Resync
  <2>2. CASE AskSnapshot(w) \/ TakeSnapshot(w) \/ AnswerStart(w)
    <3>1. /\ phase[O(w)] \in {"sent", "answered", "held"}
          /\ \E q \in {"worker", "done", "held"} : phase' = [phase EXCEPT ![O(w)] = q]
      BY <2>2 DEF AskSnapshot, TakeSnapshot, AnswerStart
    <3> QED BY <2>1, <3>1, PairsAreCalls DEF Phases
  <2>3. CASE HandleReplay(w) \/ Resync(w)
    <3>1. /\ phase[R(w)] \in {"sent", "answered"}
          /\ \E q \in {"worker", "done"} : phase' = [phase EXCEPT ![R(w)] = q]
      BY <2>3 DEF HandleReplay, Resync
    <3> QED BY <2>1, <3>1, PairsAreCalls DEF Phases
  <2> QED BY <1>6, <2>2, <2>3
<1>7. CASE ReceiveSnapshot
  <2> DEFINE m == Head(channel)
  <2>1. path' = path /\ channel # <<>> /\ m.type = "snapshot"
    BY <1>7 DEF ReceiveSnapshot
  <2>2. CASE UNCHANGED <<phase, afterSeq>>
    BY <2>1, <2>2
  <2>3. CASE m.view = view /\ phase' = [phase EXCEPT ![R(view)] = "sent"]
             /\ afterSeq' = [afterSeq EXCEPT ![view] = Highest(m.replay, m.last)]
    <3>1. view \in Views /\ phase[R(view)] = "none"
      BY <1>0, <2>1, <2>3, SnapshotIsFirst
    <3> QED BY <1>0, <1>7, <2>1, <2>3, <3>1, PairsAreCalls
  <2> QED BY <1>7, <2>2, <2>3 DEF ReceiveSnapshot
<1>8. ASSUME NEW how \in {"start", "attach"}, OpenView(how)
      PROVE  /\ phase[O(v)] = "done" => phase'[O(v)] = "done" /\ path'[v] = path[v]
             /\ phase[R(v)] # "none" => phase'[R(v)] # "none" /\ afterSeq'[v] = afterSeq[v]
             /\ phase[R(v)] = "none" => phase'[R(v)] = "none"
  <2>1. /\ afterSeq' = afterSeq /\ view + 1 \in Views /\ view + 1 > view
        /\ phase' = [phase EXCEPT ![O(view + 1)] = "sent"] /\ path' = [path EXCEPT ![view + 1] = how]
    BY SMTT(30), <1>0, <1>8, Numbers DEF OpenView, Views
  <2>2. phase[O(view + 1)] = "none"
    BY <1>0, <2>1, NotCalledYet
  <2> QED BY <1>0, <2>1, <2>2, PairsAreCalls
<1>9. CASE \E d \in Calls : \E q \in Phases \ {"none"} :
               /\ phase[d] \in Phases \ {"none", "done"} /\ phase' = [phase EXCEPT ![d] = q]
               /\ UNCHANGED <<path, afterSeq>>
  BY <1>2, <1>9, Zenon
<1> QED BY <1>3, <1>4, <1>5, <1>6, <1>7, <1>8, <1>9, Steps, Zenon

-----------------------------------------------------------------------------
(* The channel.                                                            *)

\* A message more at the end of the channel.
LEMMA Sent ==
  ASSUME SRTypeOK, NEW m \in Messages, channel' = Append(channel, m)
  PROVE  /\ Len(channel) \in Nat /\ Len(channel') = Len(channel) + 1
         /\ \A i \in 1..Len(channel) : channel'[i] = channel[i]
         /\ channel'[Len(channel) + 1] = m
PROOF
<1>1. channel \in Seq(Messages)
  BY DEF SRTypeOK
<1> QED BY <1>1, AppendedTo

LEMMA SentKeepsRest ==
  ASSUME SRTypeOK, NEW m \in Messages, channel' = Append(channel, m), NEW n \in Nat, RestComing(n),
         seq' = seq \/ (seq' = seq + 1 /\ IsEvent(m) /\ m.n = seq + 1)
  PROVE  \A k \in (n + 1)..seq' : \E i \in 1..Len(channel') : IsEvent(channel'[i]) /\ channel'[i].n = k
PROOF
<1> DEFINE N == Len(channel)
<1>1. /\ N \in Nat /\ Len(channel') = N + 1 /\ \A i \in 1..N : channel'[i] = channel[i]
      /\ channel'[N + 1] = m /\ seq \in Nat
  BY Sent, Numbers
<1>2. SUFFICES ASSUME NEW k \in (n + 1)..seq'
               PROVE  \E i \in 1..(N + 1) : IsEvent(channel'[i]) /\ channel'[i].n = k
  BY <1>1
<1>3. CASE k <= seq
  <2>1. PICK i \in 1..N : IsEvent(channel[i]) /\ channel[i].n = k
    BY <1>1, <1>3 DEF RestComing
  <2> QED BY <1>1, <2>1
<1>4. CASE k > seq
  <2>1. k = seq + 1 /\ IsEvent(m) /\ m.n = seq + 1
    BY <1>1, <1>4
  <2> QED BY <1>1, <2>1
<1> QED BY <1>1, <1>3, <1>4

\* The first message is gone.
LEMMA Taken ==
  ASSUME SRTypeOK, channel # <<>>, channel' = Tail(channel)
  PROVE  /\ Len(channel) \in Nat \ {0} /\ Len(channel') = Len(channel) - 1
         /\ \A i \in 1..Len(channel') : i + 1 \in 1..Len(channel) /\ i + 1 > 1 /\ channel'[i] = channel[i + 1]
         /\ Head(channel) = channel[1]
BY NextMessage

LEMMA TakenKeepsRest ==
  ASSUME SRTypeOK, channel # <<>>, channel' = Tail(channel), seq' = seq, NEW n \in Nat, RestComing(n),
         IsEvent(channel[1]) => channel[1].n <= n
  PROVE  \A k \in (n + 1)..seq' : \E i \in 1..Len(channel') : IsEvent(channel'[i]) /\ channel'[i].n = k
PROOF
<1> DEFINE N == Len(channel)
<1>1. /\ N \in Nat \ {0} /\ Len(channel') = N - 1
      /\ \A i \in 1..(N - 1) : channel'[i] = channel[i + 1]
  BY NextMessage
<1>2. SUFFICES ASSUME NEW k \in (n + 1)..seq
               PROVE  \E i \in 1..(N - 1) : IsEvent(channel'[i]) /\ channel'[i].n = k
  BY <1>1
<1>3. PICK i \in 1..N : IsEvent(channel[i]) /\ channel[i].n = k
  BY DEF RestComing
<1>4. i # 1
  BY <1>3, Numbers
<1>5. i - 1 \in 1..(N - 1) /\ channel'[i - 1] = channel[i]
  BY <1>1, <1>4
<1> QED BY <1>3, <1>5

\* What is sent in a step: the next event, the snapshot of a view, or the
\* answer to its call for a replay.
Sends(m) ==
  /\ m \in Messages /\ channel' = Append(channel, m)
  /\ IsEvent(m) => m.n = seq + 1 /\ seq' = seq + 1
  /\ ~IsEvent(m) => seq' = seq /\ m.view \in Views
  /\ m.type = "snapshot" =>
       /\ phase[<<m.view, "open">>] # "done" /\ phase'[<<m.view, "open">>] = "done"
       /\ phase'[<<m.view, "replay">>] = "none"
       /\ m.replay = {} /\ Fits(m)
       /\ path'[m.view] = "attach" => m.last = seq
  /\ m.type = "replay" =>
       /\ phase[<<m.view, "replay">>] # "none"
       /\ afterSeq[m.view] <= seq /\ m.replay = (afterSeq[m.view] + 1)..seq
  /\ m.type = "resync" =>
       /\ phase[<<m.view, "replay">>] # "none"
       /\ afterSeq[m.view] <= m.last /\ Fits(m) /\ m.last = seq

\* What is received in a step.
Receives ==
  /\ channel # <<>> /\ channel' = Tail(channel) /\ seq' = seq
  /\ ReceiveEvent \/ ReceiveSnapshot \/ ReceiveReplay

LEMMA EventIsSent ==
  ASSUME IInv, HandleEvent
  PROVE  Sends([type |-> "event", n |-> seq + 1])
PROOF
<1> DEFINE m == [type |-> "event", n |-> seq + 1]
<1>1. SRTypeOK /\ StdoutInOrder
  BY DEF IInv
<1>2. chunk > 0 /\ Head(stdout).type = "event" /\ seq' = seq + 1 /\ channel' = Append(channel, m)
  BY DEF HandleEvent
<1>3. seq + 1 <= wrote
  <2>1. IsEvent(stdout[1])
    BY <1>1, <1>2, NextLine DEF IsEvent
  <2> QED BY <1>1, <1>2, <2>1, NextLine
<1>4. m \in Messages
  <2>1. seq + 1 \in Events
    BY <1>1, <1>3, Numbers DEF Events
  <2> QED BY <2>1 DEF Messages
<1> QED BY <1>2, <1>4 DEF Sends, IsEvent

LEMMA SnapshotIsSent ==
  ASSUME IInv, SRNext, NEW v \in Views,
         (TakeSnapshot(v) /\ path[v] = "attach") \/ AnswerStart(v)
  PROVE  \E m \in Messages : Sends(m)
PROOF
<1>0. /\ SRTypeOK /\ CallsInOrder /\ <<v, "open">> \in Calls /\ <<v, "replay">> \in Calls
      /\ phase \in [Calls -> Phases] /\ path \in [Views -> {"start", "attach"}]
  BY PairsAreCalls DEF IInv, SRTypeOK
<1>1. CASE TakeSnapshot(v) /\ path[v] = "attach"
  <2> DEFINE m == [type |-> "snapshot", view |-> v, n |-> reflected[<<v, "open">>], last |-> Cut,
                   replay |-> ReplaySince(Cut)]
  <2>1. /\ phase[<<v, "open">>] = "answered" /\ channel' = Append(channel, m)
        /\ phase' = [phase EXCEPT ![<<v, "open">>] = "done"] /\ seq' = seq
    BY <1>0, <1>1 DEF TakeSnapshot
  <2>2. m \in Messages
    <3>1. reflected[<<v, "open">>] \in 0..MaxEvents
      BY <1>0 DEF SRTypeOK
    <3>2. Cut \in 0..MaxEvents
      BY <1>0, Numbers DEF Cut
    <3>3. ReplaySince(Cut) \in SUBSET Events
      BY DEF ReplaySince
    <3> QED BY <3>1, <3>2, <3>3 DEF Messages, Snapshots
  <2>3. m.replay = {} /\ m.last = seq /\ m.view = v /\ m.type = "snapshot"
    BY <1>0, NothingSinceCut DEF Cut
  <2>4. Fits(m)
    <3>1. reflected[<<v, "open">>] <= seq /\ (OneLine => reflected[<<v, "open">>] = seq)
      BY <1>0, <2>1 DEF CallsInOrder
    <3>2. seq <= seq
      BY <1>0, Numbers
    <3> QED BY <3>1, <3>2 DEF Fits, Cut
  <2>5. phase'[<<v, "open">>] = "done" /\ phase'[<<v, "replay">>] = "none"
    <3>1. phase[<<v, "replay">>] = "none"
      BY <1>0, <2>1 DEF CallsInOrder
    <3> QED BY <1>0, <2>1, <3>1
  <2> HIDE DEF m
  <2>6. ~IsEvent(m) /\ m.type # "replay" /\ m.type # "resync" /\ v \in Views
    BY <2>3 DEF IsEvent
  <2> QED BY <2>1, <2>2, <2>3, <2>4, <2>5, <2>6 DEF Sends
<1>2. CASE AnswerStart(v)
  <2> DEFINE m == answer[v]
  <2>1. /\ phase[<<v, "open">>] = "held" /\ channel' = Append(channel, m) /\ path' = path
        /\ phase' = [phase EXCEPT ![<<v, "open">>] = "done"] /\ seq' = seq
    BY <1>2 DEF AnswerStart, hostVars
  <2>2. m \in Snapshots /\ m \in Messages
    BY <1>0 DEF SRTypeOK, Messages
  <2>3. path[v] = "start" /\ m.view = v /\ m.replay = {} /\ Fits(m) /\ m.type = "snapshot"
    BY <1>0, <2>1, <2>2 DEF CallsInOrder, Snapshots
  <2>4. phase'[<<v, "open">>] = "done" /\ phase'[<<v, "replay">>] = "none"
    <3>1. phase[<<v, "replay">>] = "none"
      BY <1>0, <2>1 DEF CallsInOrder
    <3> QED BY <1>0, <2>1, <3>1
  <2> HIDE DEF m
  <2>5. ~IsEvent(m) /\ m.type # "replay" /\ m.type # "resync" /\ v \in Views
    BY <2>3 DEF IsEvent
  <2> QED BY <2>1, <2>2, <2>3, <2>4, <2>5 DEF Sends
<1> QED BY <1>1, <1>2

LEMMA ReplyIsSent ==
  ASSUME IInv, NEW v \in Views, (HandleReplay(v) /\ ~ReplayGap(afterSeq[v])) \/ Resync(v)
  PROVE  \E m \in Messages : Sends(m)
PROOF
<1>0. /\ SRTypeOK /\ CallsInOrder /\ <<v, "replay">> \in Calls
      /\ afterSeq[v] \in Nat
  <2>1. SRTypeOK /\ CallsInOrder /\ <<v, "replay">> \in Calls
    BY PairsAreCalls DEF IInv
  <2>2. afterSeq[v] \in 0..MaxEvents
    BY <2>1 DEF SRTypeOK
  <2> QED BY <2>1, <2>2
<1>1. CASE HandleReplay(v) /\ ~ReplayGap(afterSeq[v])
  <2> DEFINE m == [type |-> "replay", view |-> v, replay |-> ReplaySince(afterSeq[v])]
  <2>1. phase[<<v, "replay">>] = "sent" /\ channel' = Append(channel, m) /\ seq' = seq
    BY <1>1 DEF HandleReplay, hostVars
  <2>2. m \in Messages
    BY DEF Messages, ReplaySince
  <2>3. m.type = "replay" /\ m.view = v /\ m.replay = (afterSeq[v] + 1)..seq
    BY <1>0, <1>1, ReplayIsInterval
  <2>4. afterSeq[v] <= seq
    BY <1>0, <2>1 DEF CallsInOrder
  <2> HIDE DEF m
  <2>5. ~IsEvent(m) /\ m.type # "snapshot" /\ m.type # "resync" /\ v \in Views
    BY <2>3 DEF IsEvent
  <2>6. phase[<<v, "replay">>] # "none"
    BY <2>1
  <2> QED BY <2>1, <2>2, <2>3, <2>4, <2>5, <2>6, Zenon DEF Sends
<1>2. CASE Resync(v)
  <2> DEFINE m == [type |-> "resync", view |-> v, n |-> reflected[<<v, "replay">>], last |-> Cut]
  <2>1. phase[<<v, "replay">>] = "answered" /\ channel' = Append(channel, m) /\ seq' = seq
    BY <1>2 DEF Resync
  <2>2. m \in Messages
    <3>1. reflected[<<v, "replay">>] \in 0..MaxEvents
      BY <1>0 DEF SRTypeOK
    <3>2. Cut \in 0..MaxEvents
      BY <1>0, Numbers DEF Cut
    <3> QED BY <3>1, <3>2 DEF Messages
  <2>3. m.type = "resync" /\ m.view = v /\ m.last = seq
    BY DEF Cut
  <2>4. Fits(m)
    <3>1. reflected[<<v, "replay">>] <= seq /\ (OneLine => reflected[<<v, "replay">>] = seq)
      BY <1>0, <2>1 DEF CallsInOrder
    <3>2. seq <= seq
      BY <1>0, Numbers
    <3> QED BY <3>1, <3>2 DEF Fits, Cut
  <2>5. afterSeq[v] <= seq
    BY <1>0, <2>1 DEF CallsInOrder
  <2> HIDE DEF m
  <2>6. ~IsEvent(m) /\ m.type # "snapshot" /\ m.type # "replay" /\ v \in Views
    BY <2>3 DEF IsEvent
  <2>7. phase[<<v, "replay">>] # "none"
    BY <2>1
  <2> QED BY <2>1, <2>2, <2>3, <2>4, <2>5, <2>6, <2>7, Zenon DEF Sends
<1> QED BY <1>1, <1>2

LEMMA ChannelMoves ==
  ASSUME IInv, SRNext
  PROVE  \/ channel' = channel /\ seq' = seq
         \/ \E m \in Messages : Sends(m)
         \/ Receives
PROOF
<1>0. path \in [Views -> {"start", "attach"}]
  BY DEF IInv, SRTypeOK
<1>1. CASE Write \/ (\E c \in Calls : Answer(c)) \/ (\E k \in 1..MaxChunk : Read(k)) \/ HandleResponse
           \/ (\E v \in Views : AskSnapshot(v)) \/ Flush \/ (\E how \in {"start", "attach"} : OpenView(how))
  BY <1>1, Zenon DEF Write, Answer, Read, HandleResponse, AskSnapshot, Flush, OpenView, hostVars
<1>2. CASE HandleEvent
  <2>1. [type |-> "event", n |-> seq + 1] \in Messages
    BY <1>2, EventIsSent DEF Sends
  <2> QED BY <1>2, <2>1, EventIsSent
<1>3. ASSUME NEW v \in Views, TakeSnapshot(v) \/ AnswerStart(v) \/ HandleReplay(v) \/ Resync(v)
      PROVE  (channel' = channel /\ seq' = seq) \/ \E m \in Messages : Sends(m)
  <2>1. CASE TakeSnapshot(v) /\ path[v] = "start"
    <3>1. channel' = channel /\ seq' = seq
      BY <2>1 DEF TakeSnapshot
    <3> QED BY <3>1
  <2>2. CASE HandleReplay(v) /\ ReplayGap(afterSeq[v])
    <3>1. channel' = channel /\ seq' = seq
      BY <2>2 DEF HandleReplay, hostVars
    <3> QED BY <3>1
  <2>3. path[v] = "start" \/ path[v] = "attach"
    BY <1>0
  <2> QED BY <1>3, <2>1, <2>2, <2>3, SnapshotIsSent, ReplyIsSent
<1>4. CASE ReceiveEvent \/ ReceiveSnapshot \/ ReceiveReplay
  BY <1>4, Zenon DEF ReceiveEvent, ReceiveSnapshot, ReceiveReplay, Receives, hostVars
<1> QED BY <1>1, <1>2, <1>3, <1>4, Steps, Zenon

LEMMA EventsKept ==
  ASSUME IInv, SRNext
  PROVE  EventsInOrder'
PROOF
<1>0. SRTypeOK /\ EventsInOrder /\ seq \in Nat
  BY Numbers DEF IInv
<1> DEFINE N == Len(channel)
<1>1. /\ \A i \in 1..N : IsEvent(channel[i]) => channel[i].n <= seq
      /\ \A i, j \in 1..N : i < j /\ IsEvent(channel[i]) /\ IsEvent(channel[j]) => channel[i].n < channel[j].n
      /\ \A i \in 1..N : IsEvent(channel[i]) => channel[i].n \in Nat
  <2>1. \A i \in 1..N : channel[i] \in Messages
    BY <1>0 DEF SRTypeOK
  <2>2. \A i \in 1..N : IsEvent(channel[i]) => channel[i].n \in Nat
    BY <2>1, KindsOfMessages, ArgumentsAreNumbers DEF IsEvent, Events
  <2> QED BY <1>0, <2>2, Zenon DEF EventsInOrder
<1>2. CASE channel' = channel /\ seq' = seq
  BY <1>0, <1>2, Zenon DEF EventsInOrder, IsEvent
<1>3. ASSUME NEW m \in Messages, Sends(m)
      PROVE  EventsInOrder'
  <2>1. /\ N \in Nat /\ Len(channel') = N + 1
        /\ \A i \in 1..N : channel'[i] = channel[i]
        /\ channel'[N + 1] = m
    BY <1>0, <1>3, Sent DEF Sends
  <2>2. (IsEvent(m) => m.n = seq + 1 /\ seq' = seq + 1) /\ (~IsEvent(m) => seq' = seq)
    BY <1>3 DEF Sends
  <2>3. \A i \in 1..(N + 1) : IsEvent(channel'[i]) => channel'[i].n <= seq'
    <3>1. SUFFICES ASSUME NEW i \in 1..(N + 1), IsEvent(channel'[i])
                   PROVE  channel'[i].n <= seq'
      OBVIOUS
    <3>2. CASE i = N + 1
      BY <1>0, <2>1, <2>2, <3>1, <3>2
    <3>3. CASE i \in 1..N
      BY <1>0, <1>1, <2>1, <2>2, <3>1, <3>3
    <3> QED BY <2>1, <3>2, <3>3
  <2>4. \A i, j \in 1..(N + 1) :
          i < j /\ IsEvent(channel'[i]) /\ IsEvent(channel'[j]) => channel'[i].n < channel'[j].n
    <3>1. SUFFICES ASSUME NEW i \in 1..(N + 1), NEW j \in 1..(N + 1), i < j,
                          IsEvent(channel'[i]), IsEvent(channel'[j])
                   PROVE  channel'[i].n < channel'[j].n
      OBVIOUS
    <3>2. i \in 1..N
      BY <2>1, <3>1
    <3>3. CASE j = N + 1
      BY <1>0, <1>1, <2>1, <2>2, <3>1, <3>2, <3>3
    <3>4. CASE j \in 1..N
      BY <1>1, <2>1, <3>1, <3>2, <3>4
    <3> QED BY <2>1, <3>3, <3>4
  <2> QED BY <2>1, <2>3, <2>4 DEF EventsInOrder, IsEvent
<1>4. CASE Receives
  <2>1. seq' = seq /\ \A i \in 1..Len(channel') : i + 1 \in 1..N /\ channel'[i] = channel[i + 1]
    BY <1>0, <1>4, Taken DEF Receives
  <2>2. \A i \in 1..Len(channel') : IsEvent(channel'[i]) => channel'[i].n <= seq'
    BY <1>1, <2>1
  <2>3. \A i, j \in 1..Len(channel') :
          i < j /\ IsEvent(channel'[i]) /\ IsEvent(channel'[j]) => channel'[i].n < channel'[j].n
    <3>1. SUFFICES ASSUME NEW i \in 1..Len(channel'), NEW j \in 1..Len(channel'), i < j,
                          IsEvent(channel'[i]), IsEvent(channel'[j])
                   PROVE  channel'[i].n < channel'[j].n
      OBVIOUS
    <3>2. i + 1 < j + 1 /\ i + 1 \in 1..N /\ j + 1 \in 1..N
      BY <2>1, <3>1
    <3> QED BY <1>1, <2>1, <3>1, <3>2
  <2> QED BY <2>2, <2>3 DEF EventsInOrder, IsEvent
<1> QED BY <1>2, <1>3, <1>4, ChannelMoves

LEMMA SnapshotsKept ==
  ASSUME IInv, SRNext
  PROVE  SnapshotsFit'
PROOF
<1>0. SRTypeOK /\ EventsInOrder /\ SnapshotsFit /\ seq \in Nat
  BY Numbers DEF IInv
<1> DEFINE N == Len(channel)
           Old(i, j) == j \in 1..N /\ channel'[i] = channel[j] /\ channel[j].type = "snapshot"
<1>1. \A i \in 1..N : channel[i].type = "snapshot" =>
        /\ channel[i].view \in Views /\ channel[i].n \in Nat /\ channel[i].last \in Nat
        /\ SnapshotFits(i)
  <2>1. SUFFICES ASSUME NEW i \in 1..N, channel[i].type = "snapshot"
                 PROVE  /\ channel[i].view \in Views /\ channel[i].n \in Nat /\ channel[i].last \in Nat
                        /\ SnapshotFits(i)
    OBVIOUS
  <2>2. channel[i] \in Messages
    BY <1>0 DEF SRTypeOK
  <2> QED BY <1>0, <2>1, <2>2, KindsOfMessages DEF SnapshotsFit
\* The snapshots that stay are in order with the calls and the numbers.
<1>2. ASSUME NEW i, NEW j \in 1..N, channel'[i] = channel[j], channel[j].type = "snapshot",
             seq <= seq', ~(ReceiveSnapshot /\ Head(channel).view = channel[j].view),
             path[channel[j].view] = "attach" =>
               /\ \A k \in 1..(i - 1) : IsEvent(channel'[k]) => channel'[k].n <= channel[j].last
               /\ \A k \in (channel[j].last + 1)..seq' :
                    \E l \in 1..Len(channel') : IsEvent(channel'[l]) /\ channel'[l].n = k,
             seq' \in Nat
      PROVE  SnapshotFits(i)'
  <2> DEFINE m == channel[j]
  <2>1. /\ m.view \in Views /\ m.n \in Nat /\ m.last \in Nat
        /\ phase[<<m.view, "open">>] = "done" /\ phase[<<m.view, "replay">>] = "none"
        /\ m.replay = {} /\ m.n <= m.last /\ m.last <= seq /\ (OneLine => m.n = m.last)
    BY <1>1, <1>2 DEF SnapshotFits, Fits
  <2>2. /\ phase'[<<m.view, "open">>] = "done" /\ path'[m.view] = path[m.view]
        /\ phase'[<<m.view, "replay">>] = "none"
    BY <1>2, <2>1, CallsGoOn
  <2>3. m.last <= seq'
    BY <1>0, <1>2, <2>1
  <2>4. path'[m.view] = "attach" =>
               /\ \A k \in 1..(i - 1) : IsEvent(channel'[k]) => channel'[k].n <= m.last
               /\ \A k \in (m.last + 1)..seq' :
                    \E l \in 1..Len(channel') : IsEvent(channel'[l]) /\ channel'[l].n = k
    BY <1>2, <2>2
  <2>5. channel'[i] = m
    BY <1>2
  <2> HIDE DEF m
  <2> QED BY <2>1, <2>2, <2>3, <2>4, <2>5 DEF SnapshotFits, Fits, EventsBefore, RestComing, IsEvent
<1>3. CASE channel' = channel /\ seq' = seq
  <2>1. ~(ReceiveSnapshot /\ Head(channel).view \in Views)
    <3>1. ASSUME ReceiveSnapshot
          PROVE  FALSE
      <4>1. channel # <<>> /\ channel' = Tail(channel)
        BY <3>1 DEF ReceiveSnapshot
      <4>2. Len(channel') = Len(channel) - 1 /\ Len(channel) \in Nat
        BY <1>0, <4>1, Taken
      <4> QED BY <1>3, <4>2
    <3> QED BY <3>1
  <2>2. ASSUME NEW i \in 1..Len(channel'), channel'[i].type = "snapshot"
        PROVE  SnapshotFits(i)'
    <3>1. i \in 1..N /\ channel'[i] = channel[i] /\ channel[i].type = "snapshot"
      BY <1>3, <2>2
    <3>2. path[channel[i].view] = "attach" => EventsBefore(i, channel[i].last) /\ RestComing(channel[i].last)
      BY <1>1, <3>1 DEF SnapshotFits
    <3>3. path[channel[i].view] = "attach" =>
               /\ \A k \in 1..(i - 1) : IsEvent(channel'[k]) => channel'[k].n <= channel[i].last
               /\ \A k \in (channel[i].last + 1)..seq' :
                    \E l \in 1..Len(channel') : IsEvent(channel'[l]) /\ channel'[l].n = k
      BY <1>3, <3>2 DEF EventsBefore, RestComing
    <3>4. ~(ReceiveSnapshot /\ Head(channel).view = channel[i].view)
      BY <1>1, <2>1, <3>1
    <3>5. seq <= seq' /\ seq' \in Nat
      BY <1>0, <1>3
    <3> QED BY <1>2, <3>1, <3>3, <3>4, <3>5
  <2>3. \A i, j \in 1..Len(channel') :
          channel'[i].type = "snapshot" /\ channel'[j].type = "snapshot" /\ i # j => channel'[i].view # channel'[j].view
    BY <1>0, <1>3, Zenon DEF SnapshotsFit
  <2> QED BY <2>2, <2>3 DEF SnapshotsFit
<1>4. ASSUME NEW m \in Messages, Sends(m)
      PROVE  SnapshotsFit'
  <2>1. /\ N \in Nat /\ Len(channel') = N + 1
        /\ \A i \in 1..N : channel'[i] = channel[i]
        /\ channel'[N + 1] = m
    BY <1>0, <1>4, Sent DEF Sends
  <2>2. seq <= seq' /\ seq' \in Nat /\ (seq' = seq \/ (seq' = seq + 1 /\ IsEvent(m) /\ m.n = seq + 1))
        /\ channel' = Append(channel, m)
    BY <1>0, <1>4 DEF Sends
  <2>3. ~ReceiveSnapshot
    <3>1. ASSUME ReceiveSnapshot
          PROVE  FALSE
      <4>1. channel # <<>> /\ channel' = Tail(channel)
        BY <3>1 DEF ReceiveSnapshot
      <4>2. Len(channel') = Len(channel) - 1 /\ Len(channel) \in Nat
        BY <1>0, <4>1, Taken
      <4> QED BY <2>1, <4>2
    <3> QED BY <3>1
  <2>4. ASSUME NEW i \in 1..N, channel'[i].type = "snapshot"
        PROVE  SnapshotFits(i)'
    <3>1. channel'[i] = channel[i] /\ channel[i].type = "snapshot" /\ channel[i].last \in Nat
      BY <1>1, <2>1, <2>4
    <3>2. path[channel[i].view] = "attach" => EventsBefore(i, channel[i].last) /\ RestComing(channel[i].last)
      BY <1>1, <3>1 DEF SnapshotFits
    <3>3. path[channel[i].view] = "attach" =>
            \A k \in 1..(i - 1) : IsEvent(channel'[k]) => channel'[k].n <= channel[i].last
      BY <2>1, <3>2 DEF EventsBefore
    <3>4. path[channel[i].view] = "attach" =>
            \A k \in (channel[i].last + 1)..seq' :
              \E l \in 1..Len(channel') : IsEvent(channel'[l]) /\ channel'[l].n = k
      BY <1>0, <2>2, <3>1, <3>2, SentKeepsRest
    <3> QED BY <1>2, <2>2, <2>3, <3>1, <3>3, <3>4
  <2>5. ASSUME m.type = "snapshot"
        PROVE  /\ \A i : i = N + 1 => SnapshotFits(i)'
               /\ \A i \in 1..N : channel[i].type = "snapshot" => channel[i].view # m.view
    <3>1. /\ ~IsEvent(m) /\ seq' = seq /\ m.view \in Views
          /\ phase[<<m.view, "open">>] # "done" /\ phase'[<<m.view, "open">>] = "done"
          /\ phase'[<<m.view, "replay">>] = "none"
          /\ m.replay = {} /\ Fits(m)
          /\ path'[m.view] = "attach" => m.last = seq
      BY <1>4, <2>5 DEF Sends, IsEvent
    <3>2. channel'[Len(channel) + 1] = m /\ N \in Nat
      BY <2>1
    <3>3. m.n <= m.last /\ m.last <= seq' /\ (OneLine => m.n = m.last)
      BY <3>1 DEF Fits
    <3>4. ASSUME path'[m.view] = "attach"
          PROVE  /\ \A k \in 1..(N + 1 - 1) : IsEvent(channel'[k]) => channel'[k].n <= m.last
                 /\ \A k \in (m.last + 1)..seq' :
                      \E l \in 1..Len(channel') : IsEvent(channel'[l]) /\ channel'[l].n = k
      <4>1. m.last = seq
        BY <3>1, <3>4
      <4>2. \A k \in 1..N : IsEvent(channel'[k]) => channel'[k].n <= seq
        BY <1>0, <2>1 DEF EventsInOrder
      <4>3. (m.last + 1)..seq' = {}
        BY <1>0, <3>1, <4>1
      <4> QED BY <2>1, <4>1, <4>2, <4>3
    <3>5. ASSUME NEW i, i = N + 1
          PROVE  SnapshotFits(i)'
      <4>1. channel'[i] = m
        BY <3>2, <3>5
      <4>2. path'[m.view] = "attach" => \A k \in 1..(i - 1) : IsEvent(channel'[k]) => channel'[k].n <= m.last
        BY <3>4, <3>5
      <4> QED BY <3>1, <3>3, <3>4, <4>1, <4>2 DEF SnapshotFits, Fits, EventsBefore, RestComing, IsEvent
    <3>6. \A i \in 1..N : channel[i].type = "snapshot" => channel[i].view # m.view
      BY <1>1, <3>1 DEF SnapshotFits
    <3> QED BY <3>5, <3>6
  <2>6. \A i \in 1..Len(channel') : channel'[i].type = "snapshot" => SnapshotFits(i)'
    <3>1. SUFFICES ASSUME NEW i \in 1..(N + 1), channel'[i].type = "snapshot"
                   PROVE  SnapshotFits(i)'
      BY <2>1
    <3>2. CASE i \in 1..N
      BY <2>4, <3>1, <3>2
    <3>3. CASE i = N + 1
      BY <2>1, <2>5, <3>1, <3>3
    <3> QED BY <2>1, <3>2, <3>3
  <2>7. \A i, j \in 1..Len(channel') :
          channel'[i].type = "snapshot" /\ channel'[j].type = "snapshot" /\ i # j => channel'[i].view # channel'[j].view
    <3>1. \A i, j \in 1..N :
            channel[i].type = "snapshot" /\ channel[j].type = "snapshot" /\ i # j => channel[i].view # channel[j].view
      BY <1>0, Zenon DEF SnapshotsFit
    <3> QED BY <2>1, <2>5, <3>1
  <2> QED BY <2>6, <2>7 DEF SnapshotsFit
<1>5. CASE Receives
  <2>1. /\ channel # <<>> /\ channel' = Tail(channel) /\ seq' = seq
        /\ ReceiveEvent \/ ReceiveSnapshot \/ ReceiveReplay
    BY <1>5 DEF Receives
  <2>2. /\ N \in Nat \ {0}
        /\ \A i \in 1..Len(channel') : i + 1 \in 1..N /\ i + 1 > 1 /\ channel'[i] = channel[i + 1]
        /\ Head(channel) = channel[1] /\ 1 \in 1..N
    BY <1>0, <2>1, Taken
  <2>3. ASSUME NEW i \in 1..Len(channel'), channel'[i].type = "snapshot"
        PROVE  SnapshotFits(i)'
    <3> DEFINE j == i + 1
    <3>1. j \in 1..N /\ channel'[i] = channel[j] /\ channel[j].type = "snapshot" /\ channel[j].last \in Nat
      BY <1>1, <2>2, <2>3
    <3>2. path[channel[j].view] = "attach" => EventsBefore(j, channel[j].last) /\ RestComing(channel[j].last)
      BY <1>1, <3>1 DEF SnapshotFits
    <3>3. path[channel[j].view] = "attach" =>
            \A k \in 1..(i - 1) : IsEvent(channel'[k]) => channel'[k].n <= channel[j].last
      <4>1. SUFFICES ASSUME path[channel[j].view] = "attach", NEW k \in 1..(i - 1), IsEvent(channel'[k])
                     PROVE  channel'[k].n <= channel[j].last
        OBVIOUS
      <4>2. k + 1 \in 1..(j - 1) /\ k \in 1..Len(channel')
        BY <4>1
      <4>3. channel'[k] = channel[k + 1]
        BY <2>2, <4>2
      <4> QED BY <3>2, <4>1, <4>2, <4>3 DEF EventsBefore
    <3>4. path[channel[j].view] = "attach" =>
            \A k \in (channel[j].last + 1)..seq' :
              \E l \in 1..Len(channel') : IsEvent(channel'[l]) /\ channel'[l].n = k
      <4>1. SUFFICES ASSUME path[channel[j].view] = "attach"
                     PROVE  \A k \in (channel[j].last + 1)..seq' :
                              \E l \in 1..Len(channel') : IsEvent(channel'[l]) /\ channel'[l].n = k
        OBVIOUS
      <4>2. 1 \in 1..(j - 1)
        OBVIOUS
      <4>3. IsEvent(channel[1]) => channel[1].n <= channel[j].last
        BY <3>2, <4>1, <4>2 DEF EventsBefore
      <4>4. RestComing(channel[j].last)
        BY <3>2, <4>1
      <4> QED BY <1>0, <2>1, <3>1, <4>3, <4>4, TakenKeepsRest
    <3>5. ~(ReceiveSnapshot /\ Head(channel).view = channel[j].view)
      <4>1. SUFFICES ASSUME ReceiveSnapshot
                     PROVE  channel[1].view # channel[j].view
        BY <2>2
      <4>2. channel[1].type = "snapshot" /\ j # 1
        BY <2>2, <4>1 DEF ReceiveSnapshot
      <4> QED BY <1>0, <2>2, <3>1, <4>2, Zenon DEF SnapshotsFit
    <3>6. seq <= seq' /\ seq' \in Nat
      BY <1>0, <2>1
    <3> QED BY <1>2, <3>1, <3>3, <3>4, <3>5, <3>6
  <2>4. \A i, j \in 1..Len(channel') :
          channel'[i].type = "snapshot" /\ channel'[j].type = "snapshot" /\ i # j => channel'[i].view # channel'[j].view
    <3>1. SUFFICES ASSUME NEW i \in 1..Len(channel'), NEW j \in 1..Len(channel'), i # j,
                          channel'[i].type = "snapshot", channel'[j].type = "snapshot"
                   PROVE  channel'[i].view # channel'[j].view
      OBVIOUS
    <3>2. i + 1 # j + 1
      BY <3>1
    <3>3. /\ i + 1 \in 1..N /\ channel'[i] = channel[i + 1]
          /\ j + 1 \in 1..N /\ channel'[j] = channel[j + 1]
      BY <2>2
    <3> QED BY <1>0, <3>1, <3>2, <3>3 DEF SnapshotsFit
  <2> QED BY <2>3, <2>4 DEF SnapshotsFit
<1> QED BY <1>3, <1>4, <1>5, ChannelMoves

LEMMA RepliesKept ==
  ASSUME IInv, SRNext
  PROVE  RepliesFit'
PROOF
<1>0. SRTypeOK /\ EventsInOrder /\ RepliesFit /\ seq \in Nat
  BY Numbers DEF IInv
<1> DEFINE N == Len(channel)
<1>1. \A i \in 1..N :
        /\ channel[i].type = "replay" => channel[i].view \in Views /\ ReplayFits(i)
        /\ channel[i].type = "resync" => channel[i].view \in Views /\ channel[i].last \in Nat /\ ResyncFits(i)
  <2>1. \A i \in 1..N : channel[i] \in Messages
    BY <1>0 DEF SRTypeOK
  <2> QED BY <1>0, <2>1, KindsOfMessages DEF RepliesFit
<1>2. \A v \in Views : phase[<<v, "replay">>] # "none" =>
        phase'[<<v, "replay">>] # "none" /\ afterSeq'[v] = afterSeq[v] /\ afterSeq[v] \in Nat
  <2>1. \A v \in Views : afterSeq[v] \in Nat
    BY <1>0 DEF SRTypeOK
  <2> QED BY <2>1, CallsGoOn
\* A replay that stays, when what is behind it is as new as it was.
<1>3. ASSUME NEW i, NEW j \in 1..N, channel'[i] = channel[j], channel[j].type = "replay",
             seq <= seq', seq' \in Nat,
             \A n \in 0..seq : EventsAfter(j, n) =>
               \A k \in (i + 1)..Len(channel') : IsEvent(channel'[k]) => channel'[k].n > n
      PROVE  ReplayFits(i)'
  <2> DEFINE m == channel[j]
  <2>1. m.view \in Views /\ phase[<<m.view, "replay">>] # "none"
    BY <1>1, <1>3 DEF ReplayFits
  <2>2. PICK to \in afterSeq[m.view]..seq : m.replay = (afterSeq[m.view] + 1)..to /\ EventsAfter(j, to)
    BY <1>1, <1>3 DEF ReplayFits
  <2>3. /\ phase'[<<m.view, "replay">>] # "none" /\ afterSeq'[m.view] = afterSeq[m.view] /\ afterSeq[m.view] \in Nat
    BY <1>2, <2>1
  <2>4. to \in 0..seq /\ to \in afterSeq[m.view]..seq'
    BY <1>0, <1>3, <2>2, <2>3
  <2>5. \A k \in (i + 1)..Len(channel') : IsEvent(channel'[k]) => channel'[k].n > to
    BY <1>3, <2>2, <2>4
  <2>6. channel'[i] = m
    BY <1>3
  <2> HIDE DEF m
  <2> QED BY <2>2, <2>3, <2>4, <2>5, <2>6 DEF ReplayFits, EventsAfter, IsEvent
\* A new snapshot that stays, likewise.
<1>4. ASSUME NEW i, NEW j \in 1..N, channel'[i] = channel[j], channel[j].type = "resync",
             seq <= seq', seq' \in Nat,
             \A k \in 1..(i - 1) : IsEvent(channel'[k]) => channel'[k].n <= channel[j].last,
             \A k \in (channel[j].last + 1)..seq' :
               \E l \in 1..Len(channel') : IsEvent(channel'[l]) /\ channel'[l].n = k
      PROVE  ResyncFits(i)'
  <2> DEFINE m == channel[j]
  <2>1. /\ m.view \in Views /\ phase[<<m.view, "replay">>] # "none" /\ m.last \in Nat
        /\ afterSeq[m.view] <= m.last /\ m.n <= m.last /\ m.last <= seq /\ (OneLine => m.n = m.last)
    BY <1>1, <1>4 DEF ResyncFits, Fits
  <2>2. /\ phase'[<<m.view, "replay">>] # "none" /\ afterSeq'[m.view] = afterSeq[m.view]
    BY <1>2, <2>1
  <2>3. m.last <= seq'
    BY <1>0, <1>4, <2>1
  <2>4. channel'[i] = m
    BY <1>4
  <2>5. /\ \A k \in 1..(i - 1) : IsEvent(channel'[k]) => channel'[k].n <= m.last
        /\ \A k \in (m.last + 1)..seq' :
             \E l \in 1..Len(channel') : IsEvent(channel'[l]) /\ channel'[l].n = k
    BY <1>4
  <2> HIDE DEF m
  <2> QED BY <2>1, <2>2, <2>3, <2>4, <2>5 DEF ResyncFits, Fits, EventsBefore, RestComing, IsEvent
<1>5. CASE channel' = channel /\ seq' = seq
  <2>1. ASSUME NEW i \in 1..N, channel[i].type = "replay"
        PROVE  ReplayFits(i)'
    <3>1. \A n \in 0..seq : EventsAfter(i, n) =>
               \A k \in (i + 1)..Len(channel') : IsEvent(channel'[k]) => channel'[k].n > n
      BY <1>5 DEF EventsAfter
    <3>2. channel'[i] = channel[i] /\ seq <= seq' /\ seq' \in Nat
      BY <1>0, <1>5
    <3> QED BY <1>3, <2>1, <3>1, <3>2
  <2>2. ASSUME NEW i \in 1..N, channel[i].type = "resync"
        PROVE  ResyncFits(i)'
    <3>1. EventsBefore(i, channel[i].last) /\ RestComing(channel[i].last)
      BY <1>1, <2>2 DEF ResyncFits
    <3>2. /\ \A k \in 1..(i - 1) : IsEvent(channel'[k]) => channel'[k].n <= channel[i].last
          /\ \A k \in (channel[i].last + 1)..seq' :
               \E l \in 1..Len(channel') : IsEvent(channel'[l]) /\ channel'[l].n = k
      BY <1>5, <3>1 DEF EventsBefore, RestComing
    <3>3. channel'[i] = channel[i] /\ seq <= seq' /\ seq' \in Nat
      BY <1>0, <1>5
    <3> QED BY <1>4, <2>2, <3>2, <3>3
  <2> QED BY <1>5, <2>1, <2>2 DEF RepliesFit
<1>6. ASSUME NEW m \in Messages, Sends(m)
      PROVE  RepliesFit'
  <2>1. /\ N \in Nat /\ Len(channel') = N + 1
        /\ \A i \in 1..N : channel'[i] = channel[i]
        /\ channel'[N + 1] = m
    BY <1>0, <1>6, Sent DEF Sends
  <2>2. seq <= seq' /\ seq' \in Nat /\ (seq' = seq \/ (seq' = seq + 1 /\ IsEvent(m) /\ m.n = seq + 1))
        /\ channel' = Append(channel, m) /\ (IsEvent(m) => m.n = seq + 1)
    BY <1>0, <1>6 DEF Sends
  <2>3. ASSUME NEW i \in 1..N, channel[i].type = "replay"
        PROVE  ReplayFits(i)'
    <3>1. ASSUME NEW n \in 0..seq, EventsAfter(i, n), NEW k \in (i + 1)..(N + 1), IsEvent(channel'[k])
          PROVE  channel'[k].n > n
      <4>1. CASE k = N + 1
        BY <1>0, <2>1, <2>2, <3>1, <4>1
      <4>2. CASE k \in (i + 1)..N
        <5>1. channel'[k] = channel[k]
          BY <2>1, <4>2
        <5> QED BY <3>1, <4>2, <5>1 DEF EventsAfter
      <4> QED BY <2>1, <4>1, <4>2
    <3>2. channel'[i] = channel[i]
      BY <2>1
    <3> QED BY <1>3, <2>1, <2>2, <2>3, <3>1, <3>2
  <2>4. ASSUME NEW i \in 1..N, channel[i].type = "resync"
        PROVE  ResyncFits(i)'
    <3>1. EventsBefore(i, channel[i].last) /\ RestComing(channel[i].last) /\ channel[i].last \in Nat
      BY <1>1, <2>4 DEF ResyncFits
    <3>2. \A k \in 1..(i - 1) : IsEvent(channel'[k]) => channel'[k].n <= channel[i].last
      BY <2>1, <3>1 DEF EventsBefore
    <3>3. \A k \in (channel[i].last + 1)..seq' :
            \E l \in 1..Len(channel') : IsEvent(channel'[l]) /\ channel'[l].n = k
      BY <1>0, <2>2, <3>1, SentKeepsRest
    <3>4. channel'[i] = channel[i]
      BY <2>1
    <3> QED BY <1>4, <2>2, <2>4, <3>2, <3>3, <3>4
  <2>5. ASSUME m.type = "replay", NEW i, i = N + 1
        PROVE  ReplayFits(i)'
    <3>1. /\ ~IsEvent(m) /\ seq' = seq /\ m.view \in Views
          /\ phase[<<m.view, "replay">>] # "none"
          /\ afterSeq[m.view] <= seq /\ m.replay = (afterSeq[m.view] + 1)..seq
      BY <1>6, <2>5 DEF Sends, IsEvent
    <3>2. phase'[<<m.view, "replay">>] # "none" /\ afterSeq'[m.view] = afterSeq[m.view] /\ afterSeq[m.view] \in Nat
      BY <1>2, <3>1
    <3>3. channel'[i] = m /\ (i + 1)..Len(channel') = {}
      BY <2>1, <2>5
    <3>4. seq \in afterSeq[m.view]..seq
      BY <1>0, <3>1, <3>2
    <3> QED BY <3>1, <3>2, <3>3, <3>4 DEF ReplayFits, EventsAfter
  <2>6. ASSUME m.type = "resync", NEW i, i = N + 1
        PROVE  ResyncFits(i)'
    <3>1. /\ ~IsEvent(m) /\ seq' = seq /\ m.view \in Views
          /\ phase[<<m.view, "replay">>] # "none"
          /\ afterSeq[m.view] <= m.last /\ Fits(m) /\ m.last = seq
      BY <1>6, <2>6 DEF Sends, IsEvent
    <3>2. phase'[<<m.view, "replay">>] # "none" /\ afterSeq'[m.view] = afterSeq[m.view]
      BY <1>2, <3>1
    <3>3. channel'[i] = m
      BY <2>1, <2>6
    <3>4. m.n <= m.last /\ m.last <= seq' /\ (OneLine => m.n = m.last)
      BY <3>1 DEF Fits
    <3>5. \A k \in 1..(i - 1) : IsEvent(channel'[k]) => channel'[k].n <= m.last
      <4>1. \A k \in 1..N : IsEvent(channel'[k]) => channel'[k].n <= seq
        BY <1>0, <2>1 DEF EventsInOrder
      <4> QED BY <2>1, <2>6, <3>1, <4>1
    <3>6. (m.last + 1)..seq' = {}
      BY <1>0, <3>1
    <3> QED BY <3>1, <3>2, <3>3, <3>4, <3>5, <3>6 DEF ResyncFits, Fits, EventsBefore, RestComing, IsEvent
  <2>7. SUFFICES ASSUME NEW i \in 1..(N + 1)
                 PROVE  /\ channel'[i].type = "replay" => ReplayFits(i)'
                        /\ channel'[i].type = "resync" => ResyncFits(i)'
    BY <2>1 DEF RepliesFit
  <2>8. CASE i \in 1..N
    <3>1. channel'[i] = channel[i]
      BY <2>1, <2>8
    <3> QED BY <2>3, <2>4, <2>8, <3>1
  <2>9. CASE i = N + 1
    <3>1. channel'[i] = m
      BY <2>1, <2>9
    <3> QED BY <2>5, <2>6, <2>9, <3>1
  <2> QED BY <2>1, <2>8, <2>9
<1>7. CASE Receives
  <2>1. channel # <<>> /\ channel' = Tail(channel) /\ seq' = seq
    BY <1>7 DEF Receives
  <2>2. /\ N \in Nat \ {0} /\ Len(channel') = N - 1
        /\ \A i \in 1..Len(channel') : i + 1 \in 1..N /\ i + 1 > 1 /\ channel'[i] = channel[i + 1]
    BY <1>0, <2>1, Taken
  <2>3. seq <= seq' /\ seq' \in Nat
    BY <1>0, <2>1
  <2>4. ASSUME NEW i \in 1..Len(channel'), channel'[i].type = "replay"
        PROVE  ReplayFits(i)'
    <3> DEFINE j == i + 1
    <3>1. j \in 1..N /\ channel'[i] = channel[j] /\ channel[j].type = "replay"
      BY <2>2, <2>4
    <3>2. ASSUME NEW n \in 0..seq, EventsAfter(j, n), NEW k \in (i + 1)..Len(channel'), IsEvent(channel'[k])
          PROVE  channel'[k].n > n
      <4>1. k \in 1..Len(channel') /\ k + 1 \in (j + 1)..N
        BY <2>2
      <4>2. channel'[k] = channel[k + 1]
        BY <2>2, <4>1
      <4> QED BY <3>2, <4>1, <4>2 DEF EventsAfter
    <3> HIDE DEF j
    <3> QED BY <1>3, <2>3, <3>1, <3>2
  <2>5. ASSUME NEW i \in 1..Len(channel'), channel'[i].type = "resync"
        PROVE  ResyncFits(i)'
    <3> DEFINE j == i + 1
    <3>1. j \in 1..N /\ channel'[i] = channel[j] /\ channel[j].type = "resync" /\ 1 \in 1..(j - 1)
      BY <2>2, <2>5
    <3>2. EventsBefore(j, channel[j].last) /\ RestComing(channel[j].last) /\ channel[j].last \in Nat
      BY <1>1, <3>1 DEF ResyncFits
    <3>3. ASSUME NEW k \in 1..(i - 1), IsEvent(channel'[k])
          PROVE  channel'[k].n <= channel[j].last
      <4>1. k + 1 \in 1..(j - 1) /\ k \in 1..Len(channel')
        OBVIOUS
      <4>2. channel'[k] = channel[k + 1]
        BY <2>2, <4>1
      <4> QED BY <3>2, <3>3, <4>1, <4>2 DEF EventsBefore
    <3>4. IsEvent(channel[1]) => channel[1].n <= channel[j].last
      BY <3>1, <3>2 DEF EventsBefore
    <3>5. \A k \in (channel[j].last + 1)..seq' :
            \E l \in 1..Len(channel') : IsEvent(channel'[l]) /\ channel'[l].n = k
      BY <1>0, <2>1, <3>2, <3>4, TakenKeepsRest
    <3> HIDE DEF j
    <3> QED BY <1>4, <2>3, <3>1, <3>3, <3>5
  <2> QED BY <2>4, <2>5 DEF RepliesFit
<1> QED BY <1>5, <1>6, <1>7, ChannelMoves

-----------------------------------------------------------------------------
(* The transcript.                                                         *)

LEMMA EventsAreNumbers ==
  ASSUME NEW s \in Seq(Events)
  PROVE  Len(s) \in Nat /\ \A i \in 1..Len(s) : s[i] \in Events /\ s[i] \in Nat
PROOF
<1>1. Len(s) \in Nat /\ \A i \in 1..Len(s) : s[i] \in Events
  OBVIOUS
<1>2. \A n \in Events : n \in Nat
  BY DEF Events
<1> QED BY <1>1, <1>2

LEMMA UpdatesAdded ==
  ASSUME NEW s \in Seq(Events), NEW t \in Seq(Events), NEW n, OnceIn(s), AtMost(s, n),
         \A i \in 1..Len(t) : t[i] \in Updates
  PROVE  OnceIn(s \o t) /\ AtMost(s \o t, n)
PROOF
<1> DEFINE u == s \o t
<1>1. /\ Len(u) = Len(s) + Len(t) /\ Len(s) \in Nat /\ Len(t) \in Nat
      /\ \A i \in 1..Len(s) : u[i] = s[i]
      /\ \A i \in 1..Len(t) : u[Len(s) + i] = t[i]
  BY Joined
<1> HIDE DEF u
<1>2. \A i \in 1..Len(u) : u[i] \notin Updates => i \in 1..Len(s) /\ u[i] = s[i]
  <2>1. SUFFICES ASSUME NEW i \in 1..Len(u), u[i] \notin Updates
                 PROVE  i \in 1..Len(s)
    BY <1>1
  <2>2. ASSUME i > Len(s)
        PROVE  FALSE
    <3>1. i - Len(s) \in 1..Len(t) /\ u[Len(s) + (i - Len(s))] = u[i]
      BY <1>1, <2>2
    <3> QED BY <1>1, <2>1, <3>1
  <2> QED BY <1>1, <2>2
<1>3. OnceIn(u)
  BY <1>2 DEF OnceIn
<1>4. AtMost(u, n)
  BY <1>2 DEF AtMost
<1> QED BY <1>3, <1>4 DEF u

LEMMA NewerAdded ==
  ASSUME NEW s \in Seq(Events), NEW t \in Seq(Events), NEW n \in Nat, NEW p \in Nat, n <= p,
         OnceIn(s), AtMost(s, n), OnceIn(t), AtMost(t, p), \A i \in 1..Len(t) : t[i] > n
  PROVE  OnceIn(s \o t) /\ AtMost(s \o t, p)
PROOF
<1> DEFINE u == s \o t
<1>1. /\ Len(u) = Len(s) + Len(t) /\ Len(s) \in Nat /\ Len(t) \in Nat
      /\ \A i \in 1..Len(s) : u[i] = s[i] /\ s[i] \in Nat
      /\ \A i \in 1..Len(t) : u[Len(s) + i] = t[i] /\ t[i] \in Nat
  <2>1. /\ \A i \in 1..Len(s) : s[i] \in Nat
        /\ \A i \in 1..Len(t) : t[i] \in Nat
    BY EventsAreNumbers
  <2> QED BY <2>1, Joined
<1> HIDE DEF u
<1>2. \A i \in 1..Len(u) : \/ i \in 1..Len(s) /\ u[i] = s[i] /\ u[i] \in Nat
                           \/ i - Len(s) \in 1..Len(t) /\ u[i] = t[i - Len(s)] /\ u[i] \in Nat /\ u[i] > n
  <2>1. SUFFICES ASSUME NEW i \in 1..Len(u), i > Len(s)
                 PROVE  i - Len(s) \in 1..Len(t) /\ u[i] = t[i - Len(s)] /\ u[i] \in Nat /\ u[i] > n
    BY <1>1
  <2>2. i - Len(s) \in 1..Len(t) /\ Len(s) + (i - Len(s)) = i
    BY <1>1, <2>1
  <2> QED BY <1>1, <2>2
<1>3. OnceIn(u)
  <2>1. SUFFICES ASSUME NEW i \in 1..Len(u), NEW j \in 1..Len(u), i < j, u[i] \notin Updates, u[j] \notin Updates
                 PROVE  u[i] < u[j]
    BY DEF OnceIn
  <2>2. CASE j \in 1..Len(s)
    <3>1. i \in 1..Len(s) /\ u[i] = s[i] /\ u[j] = s[j]
      BY <1>1, <2>1, <2>2
    <3> QED BY <2>1, <2>2, <3>1 DEF OnceIn
  <2>3. CASE j - Len(s) \in 1..Len(t) /\ u[j] = t[j - Len(s)] /\ u[j] \in Nat /\ u[j] > n
    <3>1. CASE i \in 1..Len(s)
      <4>1. u[i] = s[i] /\ s[i] \in Nat
        BY <1>1, <3>1
      <4>2. s[i] <= n
        BY <2>1, <3>1, <4>1 DEF AtMost
      <4> QED BY <2>3, <4>1, <4>2
    <3>2. CASE i - Len(s) \in 1..Len(t) /\ u[i] = t[i - Len(s)]
      <4>1. i - Len(s) < j - Len(s)
        BY <1>1, <2>1
      <4> QED BY <2>1, <2>3, <3>2, <4>1 DEF OnceIn
    <3> QED BY <1>2, <3>1, <3>2
  <2> QED BY <1>2, <2>2, <2>3
<1>4. AtMost(u, p)
  <2>1. SUFFICES ASSUME NEW i \in 1..Len(u), u[i] \notin Updates
                 PROVE  u[i] <= p
    BY DEF AtMost
  <2>2. CASE i \in 1..Len(s) /\ u[i] = s[i] /\ u[i] \in Nat
    <3>1. u[i] <= n
      BY <2>1, <2>2 DEF AtMost
    <3> QED BY <2>2, <3>1
  <2>3. CASE i - Len(s) \in 1..Len(t) /\ u[i] = t[i - Len(s)]
    BY <2>1, <2>3 DEF AtMost
  <2> QED BY <1>2, <2>2, <2>3
<1> QED BY <1>3, <1>4 DEF u

LEMMA RunIsOnce ==
  ASSUME NEW a \in Nat, NEW b \in Nat, a <= b, b <= MaxEvents
  PROVE  LET t == [i \in 1..(b - a) |-> a + i] IN
         /\ t \in Seq(Events) /\ OnceIn(t) /\ AtMost(t, b) /\ \A i \in 1..Len(t) : t[i] > a
         /\ ToSet(t) = (a + 1)..b
PROOF
<1> DEFINE t == [i \in 1..(b - a) |-> a + i]
<1>1. t \in Seq(Events) /\ Len(t) = b - a /\ DOMAIN t = 1..(b - a)
  BY ReceivedTypes
<1>2. \A i \in 1..(b - a) : t[i] = a + i
  OBVIOUS
<1>3. ToSet(t) = (a + 1)..b
  <2>1. ToSet(t) \subseteq (a + 1)..b
    BY <1>1, <1>2 DEF ToSet
  <2>2. ASSUME NEW n \in (a + 1)..b
        PROVE  n \in ToSet(t)
    <3>1. n - a \in 1..(b - a) /\ t[n - a] = n
      BY <1>2
    <3> HIDE DEF t
    <3> QED BY <1>1, <3>1 DEF ToSet
  <2> QED BY <2>1, <2>2
<1> HIDE DEF t
<1>4. OnceIn(t) /\ AtMost(t, b) /\ \A i \in 1..Len(t) : t[i] > a
  BY <1>1, <1>2 DEF OnceIn, AtMost
<1> QED BY <1>1, <1>3, <1>4 DEF t

LEMMA UpToIsOnce ==
  ASSUME NEW n \in 0..MaxEvents
  PROVE  UpTo(n) \in Seq(Events) /\ OnceIn(UpTo(n)) /\ AtMost(UpTo(n), n) /\ ToSet(UpTo(n)) = 1..n
PROOF
<1>1. UpTo(n) \in Seq(Events) /\ Len(UpTo(n)) = n /\ n \in Nat /\ DOMAIN UpTo(n) = 1..n
      /\ \A i \in 1..n : UpTo(n)[i] = i
  BY UpToTypes, ArgumentsAreNumbers DEF UpTo
<1>2. ToSet(UpTo(n)) = 1..n
  BY <1>1 DEF ToSet
<1>3. OnceIn(UpTo(n)) /\ AtMost(UpTo(n), n)
  BY <1>1 DEF OnceIn, AtMost
<1> QED BY <1>1, <1>2, <1>3

LEMMA JoinedSet ==
  ASSUME NEW s \in Seq(Events), NEW t \in Seq(Events)
  PROVE  ToSet(s \o t) = ToSet(s) \cup ToSet(t)
PROOF
<1> DEFINE u == s \o t
<1>1. /\ Len(u) = Len(s) + Len(t) /\ Len(s) \in Nat /\ Len(t) \in Nat
      /\ \A i \in 1..Len(s) : u[i] = s[i]
      /\ \A i \in 1..Len(t) : u[Len(s) + i] = t[i]
      /\ DOMAIN s = 1..Len(s) /\ DOMAIN t = 1..Len(t) /\ DOMAIN u = 1..Len(u)
  BY Joined
<1> HIDE DEF u
<1>2. ASSUME NEW x \in ToSet(u)
      PROVE  x \in ToSet(s) \cup ToSet(t)
  <2>1. PICK i \in 1..Len(u) : u[i] = x
    BY <1>1 DEF ToSet
  <2>2. CASE i <= Len(s)
    BY <1>1, <2>1, <2>2 DEF ToSet
  <2>3. CASE i > Len(s)
    <3>1. i - Len(s) \in 1..Len(t) /\ Len(s) + (i - Len(s)) = i
      BY <1>1, <2>3
    <3>2. t[i - Len(s)] = x
      BY <1>1, <2>1, <3>1
    <3> QED BY <1>1, <3>1, <3>2 DEF ToSet
  <2> QED BY <1>1, <2>2, <2>3
<1>3. ASSUME NEW x \in ToSet(s)
      PROVE  x \in ToSet(u)
  <2>1. PICK i \in 1..Len(s) : s[i] = x
    BY <1>1 DEF ToSet
  <2>2. i \in 1..Len(u) /\ u[i] = x
    BY <1>1, <2>1
  <2> QED BY <1>1, <2>2 DEF ToSet
<1>4. ASSUME NEW x \in ToSet(t)
      PROVE  x \in ToSet(u)
  <2>1. PICK i \in 1..Len(t) : t[i] = x
    BY <1>1 DEF ToSet
  <2>2. Len(s) + i \in 1..Len(u) /\ u[Len(s) + i] = x
    BY <1>1, <2>1
  <2> QED BY <1>1, <2>2 DEF ToSet
<1> QED BY <1>2, <1>3, <1>4 DEF u

LEMMA AppendedIsJoined ==
  ASSUME NEW s \in Seq(Events), NEW x \in Events
  PROVE  /\ Append(s, x) = s \o <<x>> /\ <<x>> \in Seq(Events)
         /\ ToSet(<<x>>) = {x} /\ OnceIn(<<x>>) /\ AtMost(<<x>>, x) /\ Len(<<x>>) = 1 /\ <<x>>[1] = x
PROOF
<1>1. Append(s, x) = s \o <<x>> /\ <<x>> \in Seq(Events) /\ Len(<<x>>) = 1 /\ <<x>>[1] = x /\ x \in Nat
      /\ DOMAIN <<x>> = 1..1
  BY DEF Events
<1>2. ToSet(<<x>>) = {x}
  BY <1>1 DEF ToSet
<1>3. OnceIn(<<x>>) /\ AtMost(<<x>>, x)
  BY <1>1 DEF OnceIn, AtMost
<1> QED BY <1>1, <1>2, <1>3

LEMMA AtMostMore ==
  ASSUME NEW s \in Seq(Events), NEW n \in Nat, NEW p \in Nat, n <= p, AtMost(s, n)
  PROVE  AtMost(s, p)
PROOF
<1>1. \A i \in 1..Len(s) : s[i] \in Nat
  BY EventsAreNumbers
<1> QED BY <1>1 DEF AtMost

\* Outside the renderer nothing changes in the view.
LEMMA ViewIsKept ==
  ASSUME Write \/ (\E c \in Calls : Answer(c)) \/ (\E k \in 1..MaxChunk : Read(k)) \/ HandleEvent \/ HandleResponse
         \/ \E v \in Views : AskSnapshot(v) \/ TakeSnapshot(v) \/ AnswerStart(v) \/ HandleReplay(v) \/ Resync(v)
  PROVE  view' = view /\ live' = live /\ eventSeq' = eventSeq /\ shown' = shown /\ pending' = pending
BY Zenon DEF Write, Answer, Read, HandleEvent, HandleResponse, AskSnapshot, TakeSnapshot, AnswerStart,
   HandleReplay, Resync, rendererVars

LEMMA SeqGrows ==
  ASSUME IInv, SRNext
  PROVE  seq' \in Nat /\ seq <= seq'
PROOF
<1>1. seq \in Nat
  BY Numbers DEF IInv
<1>2. ASSUME NEW m, Sends(m)
      PROVE  seq' = seq \/ seq' = seq + 1
  BY <1>2 DEF Sends
<1>3. Receives => seq' = seq
  BY DEF Receives
<1>4. seq' = seq \/ seq' = seq + 1
  BY <1>2, <1>3, ChannelMoves
<1> QED BY <1>1, <1>4

\* The first message, when it is of the view: a replay has what the view asked
\* for, up to the last event sent before it.
LEMMA NextReply ==
  ASSUME IInv, channel # <<>>
  PROVE  /\ Head(channel) = channel[1] /\ 1 \in 1..Len(channel)
         /\ Head(channel).type = "event" =>
              Head(channel).n \in Events /\ Head(channel).n \in Nat /\ Head(channel).n <= seq
         /\ Head(channel).type = "replay" =>
              /\ afterSeq[Head(channel).view] \in 0..MaxEvents
              /\ \E to \in afterSeq[Head(channel).view]..seq :
                   Head(channel).replay = (afterSeq[Head(channel).view] + 1)..to /\ EventsAfter(1, to)
         /\ Head(channel).type = "resync" =>
              /\ Head(channel).n \in 0..MaxEvents /\ Head(channel).last \in 0..MaxEvents
              /\ Fits(Head(channel)) /\ RestComing(Head(channel).last)
              /\ afterSeq[Head(channel).view] <= Head(channel).last
PROOF
<1>0. SRTypeOK /\ EventsInOrder /\ RepliesFit /\ afterSeq \in [Views -> 0..MaxEvents]
  BY DEF IInv, SRTypeOK
<1>1. Head(channel) = channel[1] /\ 1 \in 1..Len(channel) /\ channel[1] \in Messages
  BY <1>0, NextMessage
<1>2. channel[1].type = "event" => channel[1].n \in Events /\ channel[1].n \in Nat /\ channel[1].n <= seq
  <2>1. channel[1].type = "event" => channel[1].n \in Events
    BY <1>1, KindsOfMessages
  <2>2. channel[1].type = "event" => channel[1].n <= seq
    BY <1>0, <1>1 DEF EventsInOrder, IsEvent
  <2> QED BY <2>1, <2>2 DEF Events
<1>3. channel[1].type = "replay" =>
              /\ afterSeq[channel[1].view] \in 0..MaxEvents
              /\ \E to \in afterSeq[channel[1].view]..seq :
                   channel[1].replay = (afterSeq[channel[1].view] + 1)..to /\ EventsAfter(1, to)
  <2>1. channel[1].type = "replay" => ReplayFits(1)
    BY <1>0, <1>1 DEF RepliesFit
  <2>2. channel[1].type = "replay" => channel[1].view \in Views
    BY <1>1, KindsOfMessages
  <2> QED BY <1>0, <2>1, <2>2 DEF ReplayFits
<1>4. channel[1].type = "resync" =>
              /\ channel[1].n \in 0..MaxEvents /\ channel[1].last \in 0..MaxEvents
              /\ Fits(channel[1]) /\ RestComing(channel[1].last)
              /\ afterSeq[channel[1].view] <= channel[1].last
  <2>1. channel[1].type = "resync" => ResyncFits(1)
    BY <1>0, <1>1 DEF RepliesFit
  <2>2. channel[1].type = "resync" => channel[1].n \in 0..MaxEvents /\ channel[1].last \in 0..MaxEvents
    BY <1>1, KindsOfMessages
  <2> QED BY <2>1, <2>2 DEF ResyncFits
<1> QED BY <1>1, <1>2, <1>3, <1>4

LEMMA TranscriptKept ==
  ASSUME IInv, SRNext
  PROVE  InStep' /\ StructuralOnce'
PROOF
<1>0. /\ SRTypeOK /\ InStep /\ StructuralOnce /\ SnapshotsFit
      /\ shown \in Seq(Events) /\ pending \in Seq(Events)
      /\ seq \in Nat /\ eventSeq \in Nat /\ seq' \in Nat /\ seq <= seq' /\ MaxEvents \in Nat
  BY Numbers, SeqGrows, ArgumentsAreNumbers DEF IInv, SRTypeOK
<1>1. /\ eventSeq <= seq /\ (\A i \in 1..Len(pending) : pending[i] \in Updates)
      /\ AtMost(shown, eventSeq) /\ OnceIn(shown)
  BY <1>0 DEF InStep, StructuralOnce, OnceIn
<1>2. SUFFICES /\ eventSeq' <= seq' /\ (\A i \in 1..Len(pending') : pending'[i] \in Updates)
               /\ AtMost(shown', eventSeq') /\ OnceIn(shown')
  BY DEF InStep, StructuralOnce, OnceIn
<1>3. CASE eventSeq' = eventSeq /\ shown' = shown /\ pending' = pending
  BY <1>0, <1>1, <1>3
<1> DEFINE m == Head(channel)
<1>4. CASE ReceiveEvent
  <2>1. channel # <<>> /\ m.type = "event" /\ seq' = seq
    BY <1>4 DEF ReceiveEvent, hostVars
  <2>2. m.n \in Events /\ m.n \in Nat /\ m.n <= seq
    BY <2>1, NextReply
  <2>3. CASE ~live
    <3>1. pending' = <<>> /\ shown' = shown /\ eventSeq' = eventSeq
      BY <1>4, <2>3 DEF ReceiveEvent
    <3> QED BY <1>1, <2>1, <3>1
  <2>4. CASE live /\ m.n <= eventSeq
    <3>1. pending' = pending /\ shown' = shown /\ eventSeq' = eventSeq
      BY <1>0, <1>4, <2>2, <2>4 DEF ReceiveEvent
    <3> QED BY <1>3, <3>1
  <2>5. CASE live /\ m.n > eventSeq /\ m.n \in Updates
    <3>1. pending' = Append(pending, m.n) /\ shown' = shown /\ eventSeq' = m.n
      BY <1>0, <1>4, <2>2, <2>5 DEF ReceiveEvent
    <3>2. \A i \in 1..Len(pending') : pending'[i] \in Updates
      <4>1. /\ Len(pending') = Len(pending) + 1 /\ Len(pending) \in Nat
            /\ \A i \in 1..Len(pending) : pending'[i] = pending[i]
            /\ pending'[Len(pending) + 1] = m.n
        BY <1>0, <2>2, <3>1, AppendedTo
      <4> HIDE DEF m
      <4> QED BY <1>1, <2>5, <4>1
    <3>3. AtMost(shown', eventSeq')
      BY <1>0, <1>1, <2>2, <2>5, <3>1, AtMostMore
    <3> QED BY <1>1, <2>1, <2>2, <3>1, <3>2, <3>3
  <2>6. CASE live /\ m.n > eventSeq /\ m.n \notin Updates
    <3>1. pending' = <<>> /\ shown' = Append(shown \o pending, m.n) /\ eventSeq' = m.n
      BY <1>0, <1>4, <2>2, <2>6 DEF ReceiveEvent, PushedAtOnce
    <3>2. shown \o pending \in Seq(Events) /\ OnceIn(shown \o pending) /\ AtMost(shown \o pending, eventSeq)
      BY <1>0, <1>1, Joined, UpdatesAdded
    <3> DEFINE n == m.n
    <3>3. n \in Events /\ n \in Nat /\ n > eventSeq /\ eventSeq <= n
      BY <1>0, <2>2, <2>6
    <3>4. shown' = (shown \o pending) \o <<n>>
      BY <3>1, <3>2, <3>3, AppendedIsJoined
    <3> HIDE DEF n
    <3>5. <<n>> \in Seq(Events) /\ OnceIn(<<n>>) /\ AtMost(<<n>>, n) /\ \A i \in 1..Len(<<n>>) : <<n>>[i] > eventSeq
      BY <3>2, <3>3, AppendedIsJoined
    <3>6. OnceIn((shown \o pending) \o <<n>>) /\ AtMost((shown \o pending) \o <<n>>, n)
      BY <1>0, <3>2, <3>3, <3>5, NewerAdded
    <3>7. eventSeq' = n /\ n <= seq
      BY <2>2, <3>1 DEF n
    <3>8. \A i \in 1..Len(pending') : pending'[i] \in Updates
      BY <3>1
    <3> QED BY <2>1, <3>4, <3>6, <3>7, <3>8
  <2> QED BY <1>0, <2>2, <2>3, <2>4, <2>5, <2>6
<1>5. CASE Flush
  <2>1. shown' = shown \o pending /\ pending' = <<>> /\ eventSeq' = eventSeq
    BY <1>5 DEF Flush
  <2> QED BY <1>0, <1>1, <2>1, UpdatesAdded
<1>6. CASE ReceiveSnapshot
  <2>1. channel # <<>> /\ m.type = "snapshot" /\ seq' = seq /\ pending' = pending
    BY <1>6 DEF ReceiveSnapshot, hostVars
  <2>2. CASE m.view # view
    <3>1. shown' = shown /\ eventSeq' = eventSeq
      BY <1>6, <2>2 DEF ReceiveSnapshot
    <3> QED BY <1>3, <2>1, <3>1
  <2>3. CASE m.view = view
    <3>1. /\ m.n \in 0..MaxEvents /\ m.last \in 0..MaxEvents /\ m.n <= m.last /\ m.last <= seq
          /\ UpTo(m.n) \o InOrder(m.replay) = UpTo(m.n) /\ Highest(m.replay, m.last) = m.last
      BY <1>0, <2>1, SnapshotShows DEF Fits
    <3>2. shown' = UpTo(m.n) /\ eventSeq' = m.last
      BY <1>6, <2>3, <3>1, Zenon DEF ReceiveSnapshot
    <3>3. UpTo(m.n) \in Seq(Events) /\ OnceIn(UpTo(m.n)) /\ AtMost(UpTo(m.n), m.last)
      BY <3>1, UpToIsOnce, AtMostMore
    <3> QED BY <1>1, <2>1, <3>1, <3>2, <3>3
  <2> QED BY <2>2, <2>3
<1>7. CASE ReceiveReplay
  <2>1. channel # <<>> /\ m.type \in {"replay", "resync"} /\ seq' = seq /\ pending' = pending
    BY <1>7 DEF ReceiveReplay, hostVars, rendererVars
  <2>2. CASE ~(m.view = view /\ live)
    <3>1. shown' = shown /\ eventSeq' = eventSeq
      BY <1>7, <2>2 DEF ReceiveReplay
    <3> QED BY <1>3, <2>1, <3>1
  <2>3. CASE m.view = view /\ live /\ m.type = "replay"
    <3>1. shown' = shown \o InOrder(Fresh(m.replay)) /\ eventSeq' = Highest(Fresh(m.replay), eventSeq)
      BY <1>7, <2>3 DEF ReceiveReplay
    <3>2. PICK to \in afterSeq[m.view]..seq : m.replay = (afterSeq[m.view] + 1)..to
      BY <2>1, <2>3, NextReply
    <3>3. afterSeq[m.view] \in 0..MaxEvents /\ to \in 0..seq
      BY <2>1, <2>3, <3>2, NextReply
    <3> DEFINE a == Begin(m)
               b == Final(m, to)
               t == [i \in 1..(b - a) |-> a + i]
    <3>4. /\ a \in Nat /\ b \in Nat /\ eventSeq <= a /\ a <= b /\ b <= MaxEvents
          /\ InOrder(Fresh(m.replay)) = t
          /\ Highest(Fresh(m.replay), eventSeq) = IF a < to THEN to ELSE eventSeq
          /\ (a < to => b = to) /\ (~(a < to) => b = a)
      BY <1>0, <3>2, <3>3, ReplayAdds DEF Final
    <3> HIDE DEF a, b
    <3>5. t \in Seq(Events) /\ OnceIn(t) /\ AtMost(t, b) /\ \A i \in 1..Len(t) : t[i] > a
      BY <3>4, RunIsOnce
    <3> HIDE DEF m
    <3>6. CASE a < to
      <4>1. eventSeq' = b /\ b <= seq
        BY <1>0, <3>1, <3>3, <3>4, <3>6
      <4>2. eventSeq <= b /\ \A i \in 1..Len(t) : t[i] > eventSeq
        <5>1. \A i \in 1..Len(t) : t[i] \in Nat
          BY <3>5, EventsAreNumbers
        <5> HIDE DEF t
        <5> QED BY <1>0, <3>4, <3>5, <5>1
      <4>3. OnceIn(shown \o t) /\ AtMost(shown \o t, b)
        <5> HIDE DEF t
        <5> QED BY <1>0, <1>1, <3>4, <3>5, <4>2, NewerAdded
      <4> QED BY <1>1, <2>1, <3>1, <3>4, <4>1, <4>3
    <3>7. CASE ~(a < to)
      <4>1. eventSeq' = eventSeq /\ b = a
        BY <3>1, <3>4, <3>7
      <4>2. Len(t) = 0
        BY <3>4, <4>1
      <4>3. OnceIn(shown \o t) /\ AtMost(shown \o t, eventSeq)
        <5> HIDE DEF t
        <5> QED BY <1>0, <1>1, <3>5, <4>2, UpdatesAdded
      <4> QED BY <1>1, <2>1, <3>1, <3>4, <4>1, <4>3
    <3> QED BY <3>6, <3>7
  <2>4. CASE m.view = view /\ live /\ m.type = "resync"
    <3>1. shown' = UpTo(m.n) /\ eventSeq' = m.last
      BY <1>7, <2>4 DEF ReceiveReplay
    <3>2. m.n \in 0..MaxEvents /\ m.last \in 0..MaxEvents /\ m.n <= m.last /\ m.last <= seq
      BY <2>1, <2>4, NextReply DEF Fits
    <3>3. UpTo(m.n) \in Seq(Events) /\ OnceIn(UpTo(m.n)) /\ AtMost(UpTo(m.n), m.last)
      BY <3>2, UpToIsOnce, AtMostMore
    <3> QED BY <1>1, <2>1, <3>1, <3>2, <3>3
  <2> QED BY <2>1, <2>2, <2>3, <2>4
<1>8. ASSUME NEW how \in {"start", "attach"}, OpenView(how)
      PROVE  /\ eventSeq' <= seq' /\ (\A i \in 1..Len(pending') : pending'[i] \in Updates)
             /\ AtMost(shown', eventSeq') /\ OnceIn(shown')
  <2>1. shown' = <<>> /\ pending' = <<>> /\ eventSeq' = 0
    BY <1>8 DEF OpenView
  <2>2. Len(<<>>) = 0
    OBVIOUS
  <2> QED BY <1>0, <2>1, <2>2 DEF AtMost, OnceIn
<1> QED BY <1>3, <1>4, <1>5, <1>6, <1>7, <1>8, Steps, ViewIsKept

LEMMA OpenedByAttach ==
  ASSUME SRTypeOK, view \in Views
  PROVE  OpenedBy("attach") <=> path[view] = "attach"
BY DEF OpenedBy

\* What a view has and lacks, when no step of the renderer is taken.
LEMMA ViewElsewhere ==
  ASSUME IInv, SRNext,
         view' = view, live' = live, eventSeq' = eventSeq, ToSet(shown' \o pending') = ToSet(shown \o pending),
         channel' = channel \/ \E m \in Messages : Sends(m),
         channel' = channel => seq' = seq,
         ~ReceiveSnapshot
  PROVE  ViewInOrder'
PROOF
<1>0. SRTypeOK /\ CallsInOrder /\ ViewInOrder /\ eventSeq \in Nat
  BY Numbers DEF IInv
<1>1. SUFFICES ASSUME live
               PROVE  /\ view \in Views /\ phase'[<<view, "replay">>] # "none" /\ afterSeq'[view] <= eventSeq
                      /\ path'[view] = "attach" =>
                           /\ \A k \in (eventSeq + 1)..seq' :
                                \E i \in 1..Len(channel') : IsEvent(channel'[i]) /\ channel'[i].n = k
                           /\ OneLine => 1..eventSeq \subseteq ToSet(shown \o pending)
                      /\ OneLine => 1..afterSeq'[view] \subseteq ToSet(shown \o pending)
  BY DEF ViewInOrder, RestComing, Covered, OpenedBy, IsEvent, OneLine
<1>2. view \in Views /\ phase[<<view, "replay">>] # "none" /\ afterSeq[view] <= eventSeq
  BY <1>0, <1>1 DEF ViewInOrder
<1>3. /\ phase'[<<view, "replay">>] # "none" /\ afterSeq'[view] = afterSeq[view]
      /\ path'[view] = path[view]
  <2>1. phase[<<view, "open">>] = "done"
    BY <1>0, <1>2 DEF CallsInOrder
  <2> QED BY <1>2, <2>1, CallsGoOn
<1>4. /\ path[view] = "attach" => RestComing(eventSeq)
      /\ OneLine /\ path[view] = "attach" => Covered(eventSeq)
      /\ OneLine => Covered(afterSeq[view])
  BY <1>0, <1>1, <1>2, OpenedByAttach DEF ViewInOrder
<1>5. ASSUME path[view] = "attach"
      PROVE  \A k \in (eventSeq + 1)..seq' :
               \E i \in 1..Len(channel') : IsEvent(channel'[i]) /\ channel'[i].n = k
  <2>1. RestComing(eventSeq)
    BY <1>4, <1>5
  <2>2. CASE channel' = channel
    BY <2>1, <2>2 DEF RestComing
  <2>3. ASSUME NEW m \in Messages, Sends(m)
        PROVE  \A k \in (eventSeq + 1)..seq' :
                 \E i \in 1..Len(channel') : IsEvent(channel'[i]) /\ channel'[i].n = k
    <3>1. channel' = Append(channel, m) /\ (seq' = seq \/ (seq' = seq + 1 /\ IsEvent(m) /\ m.n = seq + 1))
      BY <2>3 DEF Sends
    <3> QED BY <1>0, <2>1, <3>1, SentKeepsRest
  <2> QED BY <2>2, <2>3
<1> QED BY <1>2, <1>3, <1>4, <1>5 DEF Covered

\* What a live event gives the view: of the events to come to a view that
\* agent:attach opened, the first is the next one.
LEMMA EventGives ==
  ASSUME IInv, ReceiveEvent, live
  PROVE  /\ eventSeq' \in Nat /\ eventSeq <= eventSeq' /\ Head(channel).n <= eventSeq'
         /\ ToSet(shown \o pending) \subseteq ToSet(shown' \o pending')
         /\ path[view] = "attach" => \A k \in 1..eventSeq' : k <= eventSeq \/ k \in ToSet(shown' \o pending')
PROOF
<1> DEFINE n == Head(channel).n
<1>0. /\ SRTypeOK /\ EventsInOrder /\ ViewInOrder /\ eventSeq \in Nat /\ seq \in Nat
      /\ shown \in Seq(Events) /\ pending \in Seq(Events)
  BY Numbers DEF IInv, SRTypeOK
<1>1. channel # <<>> /\ Head(channel).type = "event"
  BY DEF ReceiveEvent
<1>2. Head(channel) = channel[1] /\ 1 \in 1..Len(channel) /\ n \in Events /\ n \in Nat /\ n <= seq
  BY <1>1, NextReply
<1>3. view \in Views /\ (path[view] = "attach" => RestComing(eventSeq))
  BY <1>0, OpenedByAttach DEF ViewInOrder
<1>4. path[view] = "attach" /\ n > eventSeq => n = eventSeq + 1
  <2>1. SUFFICES ASSUME path[view] = "attach", n > eventSeq + 1
                 PROVE  FALSE
    BY <1>0, <1>2
  <2>2. eventSeq + 1 \in (eventSeq + 1)..seq
    BY <1>0, <1>2, <2>1
  <2>3. PICK i \in 1..Len(channel) : IsEvent(channel[i]) /\ channel[i].n = eventSeq + 1
    BY <1>3, <2>1, <2>2 DEF RestComing
  <2>4. i # 1 /\ IsEvent(channel[1]) /\ channel[1].n = n
    BY <1>0, <1>1, <1>2, <2>1, <2>3 DEF IsEvent
  <2>5. channel[1].n < channel[i].n
    BY <1>0, <1>2, <2>3, <2>4 DEF EventsInOrder
  <2> QED BY <1>0, <1>2, <2>1, <2>3, <2>4, <2>5
<1>5. /\ n <= eventSeq => eventSeq' = eventSeq /\ shown' = shown /\ pending' = pending
      /\ n > eventSeq => /\ eventSeq' = n
                         /\ ToSet(shown' \o pending') = ToSet(shown \o pending) \cup {n}
  <2>1. CASE n <= eventSeq
    BY <1>0, <1>2, <2>1 DEF ReceiveEvent
  <2>2. CASE n > eventSeq /\ n \in Updates
    <3>1. eventSeq' = n /\ shown' = shown /\ pending' = Append(pending, n)
      BY <1>0, <1>2, <2>2 DEF ReceiveEvent
    <3> HIDE DEF n
    <3>2. pending' = pending \o <<n>> /\ <<n>> \in Seq(Events) /\ ToSet(<<n>>) = {n}
      BY <1>0, <1>2, <3>1, AppendedIsJoined
    <3>3. ToSet(shown \o (pending \o <<n>>)) = ToSet(shown) \cup (ToSet(pending) \cup {n})
      <4>1. pending \o <<n>> \in Seq(Events) /\ ToSet(pending \o <<n>>) = ToSet(pending) \cup {n}
        BY <1>0, <3>2, Joined, JoinedSet
      <4>2. ToSet(shown \o (pending \o <<n>>)) = ToSet(shown) \cup ToSet(pending \o <<n>>)
        BY <1>0, <4>1, JoinedSet
      <4> QED BY <4>1, <4>2
    <3>4. ToSet(shown \o pending) = ToSet(shown) \cup ToSet(pending)
      BY <1>0, JoinedSet
    <3>5. ToSet(shown' \o pending') = ToSet(shown \o pending) \cup {n}
      BY <3>1, <3>2, <3>3, <3>4
    <3> QED BY <1>0, <1>2, <2>2, <3>1, <3>5
  <2>3. CASE n > eventSeq /\ n \notin Updates
    <3>1. eventSeq' = n /\ shown' = Append(shown \o pending, n) /\ pending' = <<>>
      BY <1>0, <1>2, <2>3 DEF ReceiveEvent, PushedAtOnce
    <3> HIDE DEF n
    <3>2. shown \o pending \in Seq(Events)
      BY <1>0, Joined
    <3>3. shown' = (shown \o pending) \o <<n>> /\ <<n>> \in Seq(Events) /\ ToSet(<<n>>) = {n}
      BY <1>2, <3>1, <3>2, AppendedIsJoined
    <3>4. shown' \in Seq(Events) /\ ToSet(shown') = ToSet(shown \o pending) \cup {n}
      BY <3>2, <3>3, Joined, JoinedSet
    <3>5. shown' \o pending' = shown'
      <4>1. \A s \in Seq(Events) : s \o <<>> = s
        OBVIOUS
      <4> QED BY <3>1, <3>4, <4>1
    <3> QED BY <1>0, <1>2, <2>3, <3>1, <3>4, <3>5
  <2> QED BY <1>0, <1>2, <2>1, <2>2, <2>3
<1> HIDE DEF n
<1>6. eventSeq' \in Nat /\ n <= eventSeq' /\ eventSeq <= eventSeq' /\ (eventSeq' = eventSeq \/ eventSeq' = n)
  BY <1>0, <1>2, <1>5
<1>7. ToSet(shown \o pending) \subseteq ToSet(shown' \o pending')
  BY <1>0, <1>2, <1>5
<1>8. ASSUME path[view] = "attach", NEW k \in 1..eventSeq', k > eventSeq
      PROVE  k \in ToSet(shown' \o pending')
  <2>1. k = n /\ n > eventSeq
    BY <1>0, <1>2, <1>4, <1>6, <1>8
  <2> QED BY <1>5, <2>1
<1>9. path[view] = "attach" => \A k \in 1..eventSeq' : k <= eventSeq \/ k \in ToSet(shown' \o pending')
  BY <1>0, <1>6, <1>8
<1> QED BY <1>6, <1>7, <1>9 DEF n

LEMMA ViewAtReceipt ==
  ASSUME IInv, SRNext, ReceiveEvent
  PROVE  ViewInOrder'
PROOF
<1> DEFINE n == Head(channel).n
<1>0. /\ SRTypeOK /\ CallsInOrder /\ ViewInOrder /\ eventSeq \in Nat /\ seq \in Nat
      /\ shown \in Seq(Events) /\ pending \in Seq(Events)
  BY Numbers DEF IInv, SRTypeOK
<1>1. /\ channel # <<>> /\ channel' = Tail(channel) /\ Head(channel).type = "event"
      /\ view' = view /\ live' = live /\ seq' = seq /\ phase' = phase /\ path' = path /\ afterSeq' = afterSeq
  BY DEF ReceiveEvent, hostVars, callVars
<1>2. Head(channel) = channel[1] /\ 1 \in 1..Len(channel) /\ n \in Events /\ n \in Nat /\ n <= seq
  BY <1>1, NextReply
<1>3. CASE ~live
  BY <1>1, <1>3 DEF ViewInOrder
<1>4. CASE live
  <2>1. view \in Views /\ phase[<<view, "replay">>] # "none" /\ afterSeq[view] <= eventSeq
    BY <1>0, <1>4 DEF ViewInOrder
  <2>2. /\ path[view] = "attach" => RestComing(eventSeq)
        /\ OneLine /\ path[view] = "attach" => Covered(eventSeq)
        /\ OneLine => Covered(afterSeq[view])
    BY <1>0, <1>4, <2>1, OpenedByAttach DEF ViewInOrder
  <2>5. /\ eventSeq' \in Nat /\ n <= eventSeq' /\ eventSeq <= eventSeq'
        /\ ToSet(shown \o pending) \subseteq ToSet(shown' \o pending')
        /\ path[view] = "attach" => \A k \in 1..eventSeq' : k <= eventSeq \/ k \in ToSet(shown' \o pending')
    BY <1>4, EventGives
  <2> HIDE DEF n
  <2>7. path[view] = "attach" =>
          \A k \in (eventSeq' + 1)..seq' : \E i \in 1..Len(channel') : IsEvent(channel'[i]) /\ channel'[i].n = k
    <3>1. SUFFICES ASSUME path[view] = "attach"
                   PROVE  \A k \in (eventSeq' + 1)..seq' :
                            \E i \in 1..Len(channel') : IsEvent(channel'[i]) /\ channel'[i].n = k
      OBVIOUS
    <3>3. \A k \in (eventSeq' + 1)..seq : \E i \in 1..Len(channel) : IsEvent(channel[i]) /\ channel[i].n = k
      <4>1. SUFFICES ASSUME NEW k \in (eventSeq' + 1)..seq
                     PROVE  \E i \in 1..Len(channel) : IsEvent(channel[i]) /\ channel[i].n = k
        OBVIOUS
      <4>2. \A e \in Nat : \A d \in Nat : e <= d => (d + 1)..seq \subseteq (e + 1)..seq
        <5>1. seq \in Nat
          BY <1>0
        <5> QED BY <5>1
      <4>3. k \in (eventSeq + 1)..seq
        BY <1>0, <2>5, <4>1, <4>2
      <4> QED BY <2>2, <3>1, <4>3 DEF RestComing
    <3>4. \A e \in Nat : (e = eventSeq') => RestComing(e)
      BY <3>3 DEF RestComing
    <3>5. channel[1].n = n
      BY <1>2 DEF n
    <3> QED BY <1>0, <1>1, <2>5, <3>4, <3>5, TakenKeepsRest
  <2>8. OneLine /\ path[view] = "attach" => 1..eventSeq' \subseteq ToSet(shown' \o pending')
    <3>1. SUFFICES ASSUME OneLine, path[view] = "attach", NEW k \in 1..eventSeq'
                   PROVE  k \in ToSet(shown' \o pending')
      OBVIOUS
    <3>2. 1..eventSeq \subseteq ToSet(shown \o pending)
      BY <2>2, <3>1 DEF Covered
    <3> QED BY <1>0, <2>5, <3>1, <3>2
  <2>9. OneLine => 1..afterSeq[view] \subseteq ToSet(shown' \o pending')
    BY <2>2, <2>5 DEF Covered
  <2>10. afterSeq[view] <= eventSeq'
    <3>1. afterSeq[view] \in 0..MaxEvents
      BY <1>0, <2>1 DEF SRTypeOK
    <3> QED BY <1>0, <2>1, <2>5, <3>1
  <2> QED BY <1>1, <2>1, <2>7, <2>8, <2>9, <2>10 DEF ViewInOrder, RestComing, Covered, OpenedBy, IsEvent, OneLine
<1> QED BY <1>3, <1>4

\* The view goes live with its snapshot.
LEMMA ViewAtSnapshot ==
  ASSUME IInv, SRNext, ReceiveSnapshot
  PROVE  ViewInOrder'
PROOF
<1> DEFINE m == Head(channel)
<1>0. /\ SRTypeOK /\ CallsInOrder /\ SnapshotsFit /\ ViewInOrder
      /\ phase \in [Calls -> Phases] /\ afterSeq \in [Views -> 0..MaxEvents]
      /\ shown \in Seq(Events) /\ pending \in Seq(Events)
  BY DEF IInv, SRTypeOK
<1>1. /\ channel # <<>> /\ channel' = Tail(channel) /\ m.type = "snapshot"
      /\ view' = view /\ seq' = seq /\ path' = path /\ pending' = pending
  BY DEF ReceiveSnapshot, hostVars
<1>2. m = channel[1] /\ m.view \in Views /\ m.n \in 0..MaxEvents /\ m.last \in 0..MaxEvents /\ Fits(m)
  BY <1>0, <1>1, NextMessage, SnapshotShows
<1>3. ~IsEvent(channel[1])
  BY <1>1, <1>2 DEF IsEvent
<1>4. CASE m.view # view
  <2>1. phase' = phase /\ afterSeq' = afterSeq /\ live' = live /\ eventSeq' = eventSeq /\ shown' = shown
    BY <1>4 DEF ReceiveSnapshot
  <2>2. SUFFICES ASSUME live
                 PROVE  ViewInOrder'
    BY <2>1 DEF ViewInOrder
  <2>3. /\ view \in Views /\ phase[<<view, "replay">>] # "none" /\ afterSeq[view] <= eventSeq
        /\ path[view] = "attach" => RestComing(eventSeq)
        /\ OneLine /\ path[view] = "attach" => Covered(eventSeq)
        /\ OneLine => Covered(afterSeq[view])
    BY <1>0, <2>2, OpenedByAttach DEF ViewInOrder
  <2>4. path[view] = "attach" =>
          \A k \in (eventSeq + 1)..seq' : \E i \in 1..Len(channel') : IsEvent(channel'[i]) /\ channel'[i].n = k
    <3>1. eventSeq \in Nat
      BY <1>0, Numbers
    <3> QED BY <1>0, <1>1, <1>3, <2>3, <3>1, TakenKeepsRest
  <2> QED BY <1>1, <2>1, <2>3, <2>4 DEF ViewInOrder, RestComing, Covered, OpenedBy, IsEvent, OneLine
<1>5. CASE m.view = view
  <2>1. /\ shown' = UpTo(m.n) /\ eventSeq' = m.last /\ live' = TRUE
        /\ afterSeq' = [afterSeq EXCEPT ![view] = m.last]
        /\ phase' = [phase EXCEPT ![<<view, "replay">>] = "sent"]
    <3>1. /\ UpTo(m.n) \o InOrder(m.replay) = UpTo(m.n)
          /\ Highest(m.replay, m.last) = m.last
      BY <1>0, <1>1, SnapshotShows
    <3> QED BY <1>5, <3>1 DEF ReceiveSnapshot
  <2>2. view \in Views /\ <<view, "replay">> \in Calls
    BY <1>2, <1>5, PairsAreCalls
  <2>3. phase'[<<view, "replay">>] = "sent" /\ afterSeq'[view] = m.last
    BY <1>0, <2>1, <2>2
  <2>4. path[view] = "attach" =>
          \A k \in (m.last + 1)..seq' : \E i \in 1..Len(channel') : IsEvent(channel'[i]) /\ channel'[i].n = k
    <3>1. path[view] = "attach" => RestComing(m.last)
      BY <1>0, <1>1, <1>5, SnapshotIsFirst
    <3>2. m.last \in Nat
      BY <1>2
    <3> QED BY <1>0, <1>1, <1>3, <3>1, <3>2, TakenKeepsRest
  <2>5. OneLine => 1..m.last \subseteq ToSet(shown' \o pending')
    <3>1. UpTo(m.n) \in Seq(Events) /\ ToSet(UpTo(m.n)) = 1..m.n
      BY <1>2, UpToIsOnce
    <3>2. ToSet(shown' \o pending') = 1..m.n \cup ToSet(pending)
      BY <1>0, <1>1, <2>1, <3>1, JoinedSet
    <3> QED BY <1>2, <3>2 DEF Fits
  <2>6. afterSeq'[view] <= eventSeq'
    BY <1>2, <2>1, <2>3
  <2> HIDE DEF m
  <2> QED BY <1>1, <2>1, <2>2, <2>3, <2>4, <2>5, <2>6 DEF ViewInOrder, RestComing, Covered, OpenedBy, IsEvent, OneLine
<1> QED BY <1>4, <1>5

\* What a replay gives the view: the events after the number the view asked
\* with and after the last one that arrived live.
LEMMA ReplayGives ==
  ASSUME IInv, ReceiveReplay, Head(channel).view = view, live, Head(channel).type = "replay"
  PROVE  /\ eventSeq' \in Nat /\ eventSeq <= eventSeq'
         /\ ToSet(shown \o pending) \subseteq ToSet(shown' \o pending')
         /\ \A k \in 1..eventSeq' : k <= eventSeq \/ k <= afterSeq[view] \/ k \in ToSet(shown' \o pending')
PROOF
<1> DEFINE m == Head(channel)
<1>0. /\ SRTypeOK /\ shown \in Seq(Events) /\ pending \in Seq(Events) /\ eventSeq \in Nat /\ seq \in Nat
      /\ MaxEvents \in Nat
  BY Numbers DEF IInv, SRTypeOK
<1>1. /\ channel # <<>> /\ pending' = pending
      /\ shown' = shown \o InOrder(Fresh(m.replay)) /\ eventSeq' = Highest(Fresh(m.replay), eventSeq)
  BY DEF ReceiveReplay
<1>2. PICK to \in afterSeq[m.view]..seq : m.replay = (afterSeq[m.view] + 1)..to
  BY <1>1, NextReply
<1>3. afterSeq[m.view] \in 0..MaxEvents /\ afterSeq[m.view] \in Nat /\ to \in 0..seq
  <2>1. afterSeq[m.view] \in 0..MaxEvents
    BY <1>1, NextReply
  <2> QED BY <1>0, <1>2, <2>1
<1> DEFINE a == Begin(m)
           b == Final(m, to)
           t == [i \in 1..(b - a) |-> a + i]
<1>4. /\ a \in Nat /\ b \in Nat /\ eventSeq <= a /\ a <= b /\ b <= MaxEvents
      /\ InOrder(Fresh(m.replay)) = t
      /\ Highest(Fresh(m.replay), eventSeq) = IF a < to THEN to ELSE eventSeq
  BY <1>0, <1>2, <1>3, ReplayAdds
<1>5. (a = eventSeq \/ a = afterSeq[m.view]) /\ (a < to => b = to)
  BY DEF Begin, Final
<1> HIDE DEF a, b
<1>6. t \in Seq(Events) /\ ToSet(t) = (a + 1)..b
  BY <1>4, RunIsOnce
<1> HIDE DEF m
<1>7. ToSet(shown' \o pending') = (ToSet(shown) \cup (a + 1)..b) \cup ToSet(pending)
  <2> HIDE DEF t
  <2>1. shown' = shown \o t
    BY <1>1, <1>4
  <2>2. shown \o t \in Seq(Events) /\ ToSet(shown \o t) = ToSet(shown) \cup (a + 1)..b
    BY <1>0, <1>6, Joined, JoinedSet
  <2> QED BY <1>0, <1>1, <2>1, <2>2, JoinedSet
<1>8. ToSet(shown \o pending) \subseteq ToSet(shown' \o pending')
  <2>1. ToSet(shown \o pending) = ToSet(shown) \cup ToSet(pending)
    BY <1>0, JoinedSet
  <2> QED BY <1>7, <2>1
<1>9. eventSeq' = IF a < to THEN to ELSE eventSeq
  BY <1>1, <1>4
<1>10. to \in Nat /\ eventSeq' \in Nat /\ eventSeq <= eventSeq'
  BY <1>0, <1>3, <1>4, <1>9
<1>11. ASSUME NEW k \in 1..eventSeq', k > a
       PROVE  k \in (a + 1)..b
  <2>1. a < to /\ eventSeq' = to
    BY <1>0, <1>4, <1>9, <1>10, <1>11
  <2> QED BY <1>4, <1>5, <1>10, <1>11, <2>1
<1>12. \A k \in 1..eventSeq' : k <= a \/ k \in (a + 1)..b
  BY <1>4, <1>10, <1>11
<1>13. m.view = view
  BY DEF m
<1> QED BY <1>5, <1>7, <1>8, <1>10, <1>12, <1>13

\* What a new snapshot in place of a replay gives the view.
LEMMA ResyncGives ==
  ASSUME IInv, ReceiveReplay, Head(channel).view = view, live, Head(channel).type = "resync"
  PROVE  /\ eventSeq' \in Nat /\ RestComing(eventSeq')
         /\ OneLine => 1..eventSeq' \subseteq ToSet(shown' \o pending')
         /\ afterSeq[view] \in Nat /\ afterSeq[view] <= eventSeq'
PROOF
<1> DEFINE m == Head(channel)
<1>1. /\ channel # <<>> /\ pending' = pending /\ shown' = UpTo(m.n) /\ eventSeq' = m.last
      /\ pending \in Seq(Events)
  BY DEF ReceiveReplay, IInv, SRTypeOK
<1>2. /\ m.n \in 0..MaxEvents /\ m.last \in Nat /\ Fits(m) /\ RestComing(m.last)
      /\ afterSeq[m.view] <= m.last
  BY <1>1, NextReply
<1>3. UpTo(m.n) \in Seq(Events) /\ ToSet(UpTo(m.n)) = 1..m.n
  BY <1>2, UpToIsOnce
<1>4. ToSet(shown' \o pending') = 1..m.n \cup ToSet(pending)
  BY <1>1, <1>3, JoinedSet
<1>5. OneLine => 1..eventSeq' \subseteq ToSet(shown' \o pending')
  BY <1>1, <1>2, <1>4 DEF Fits
<1>6. afterSeq[view] \in Nat
  <2>1. 1 \in 1..Len(channel) /\ Head(channel) = channel[1] /\ channel[1] \in Messages
    BY <1>1, NextMessage DEF IInv
  <2>2. view \in Views
    BY <2>1, KindsOfMessages
  <2>3. afterSeq[view] \in 0..MaxEvents
    BY <2>2 DEF IInv, SRTypeOK
  <2> QED BY <2>3
<1>7. \A e \in Nat : e = m.last => RestComing(e)
  BY <1>2
<1> HIDE DEF m
<1>8. eventSeq' \in Nat /\ RestComing(eventSeq')
  BY <1>1, <1>2, <1>7
<1>9. m.view = view
  BY DEF m
<1> QED BY <1>1, <1>2, <1>5, <1>6, <1>8, <1>9

\* Of a replay only the events the view lacks are added; what it lacks then is
\* still on its way.
LEMMA ViewAtReplay ==
  ASSUME IInv, SRNext, ReceiveReplay
  PROVE  ViewInOrder'
PROOF
<1>0. SRTypeOK /\ CallsInOrder /\ ViewInOrder /\ eventSeq \in Nat /\ seq \in Nat
  BY Numbers DEF IInv
<1>1. /\ channel # <<>> /\ channel' = Tail(channel) /\ Head(channel).type \in {"replay", "resync"}
      /\ view' = view /\ live' = live /\ seq' = seq /\ phase' = phase /\ path' = path /\ afterSeq' = afterSeq
      /\ pending' = pending
  BY DEF ReceiveReplay, hostVars, callVars
<1>2. SUFFICES ASSUME live
               PROVE  ViewInOrder'
  BY <1>1 DEF ViewInOrder
<1>3. /\ view \in Views /\ phase[<<view, "replay">>] # "none" /\ afterSeq[view] <= eventSeq
      /\ path[view] = "attach" => RestComing(eventSeq)
      /\ OneLine /\ path[view] = "attach" => Covered(eventSeq)
      /\ OneLine => Covered(afterSeq[view])
  BY <1>0, <1>2, OpenedByAttach DEF ViewInOrder
<1>4. ~IsEvent(channel[1]) /\ afterSeq[view] \in Nat
  <2>1. Head(channel) = channel[1]
    BY <1>1, NextReply
  <2>2. afterSeq[view] \in 0..MaxEvents
    BY <1>0, <1>3 DEF SRTypeOK
  <2> QED BY <1>1, <2>1, <2>2 DEF IsEvent
<1>5. /\ eventSeq' \in Nat /\ afterSeq[view] <= eventSeq'
      /\ path[view] = "attach" => RestComing(eventSeq')
      /\ OneLine /\ path[view] = "attach" => 1..eventSeq' \subseteq ToSet(shown' \o pending')
      /\ OneLine => 1..afterSeq[view] \subseteq ToSet(shown' \o pending')
  <2>1. CASE Head(channel).view # view
    <3>1. eventSeq' = eventSeq /\ shown' = shown
      BY <2>1 DEF ReceiveReplay
    <3>2. \A e \in Nat : e = eventSeq => (RestComing(eventSeq) => RestComing(e))
      OBVIOUS
    <3> QED BY <1>0, <1>1, <1>3, <3>1, <3>2 DEF Covered
  <2>2. CASE Head(channel).view = view /\ Head(channel).type = "replay"
    <3>1. /\ eventSeq' \in Nat /\ eventSeq <= eventSeq'
          /\ ToSet(shown \o pending) \subseteq ToSet(shown' \o pending')
          /\ \A k \in 1..eventSeq' : k <= eventSeq \/ k <= afterSeq[view] \/ k \in ToSet(shown' \o pending')
      BY <1>2, <2>2, ReplayGives
    <3>2. path[view] = "attach" => RestComing(eventSeq')
      <4>1. \A e \in Nat : \A d \in Nat : e <= d => (d + 1)..seq \subseteq (e + 1)..seq
        BY <1>0
      <4>2. \A d \in Nat : eventSeq <= d /\ RestComing(eventSeq) => RestComing(d)
        BY <1>0, <4>1 DEF RestComing
      <4> QED BY <1>3, <3>1, <4>2
    <3>3. OneLine => 1..afterSeq[view] \subseteq ToSet(shown' \o pending')
      BY <1>3, <3>1 DEF Covered
    <3>4. OneLine /\ path[view] = "attach" => 1..eventSeq' \subseteq ToSet(shown' \o pending')
      <4>1. SUFFICES ASSUME OneLine, path[view] = "attach", NEW k \in 1..eventSeq'
                     PROVE  k \in ToSet(shown' \o pending')
        OBVIOUS
      <4>2. 1..eventSeq \subseteq ToSet(shown' \o pending')
        BY <1>3, <3>1, <4>1 DEF Covered
      <4> QED BY <1>0, <1>4, <3>1, <3>3, <4>1, <4>2
    <3>5. afterSeq[view] <= eventSeq'
      BY <1>0, <1>3, <1>4, <3>1
    <3> QED BY <3>1, <3>2, <3>3, <3>4, <3>5
  <2>3. CASE Head(channel).view = view /\ Head(channel).type = "resync"
    <3>1. /\ eventSeq' \in Nat /\ RestComing(eventSeq')
          /\ OneLine => 1..eventSeq' \subseteq ToSet(shown' \o pending')
          /\ afterSeq[view] <= eventSeq'
      BY <1>2, <2>3, ResyncGives
    <3>2. 1..afterSeq[view] \subseteq 1..eventSeq'
      BY <1>4, <3>1
    <3> QED BY <3>1, <3>2
  <2> QED BY <1>1, <2>1, <2>2, <2>3
<1>6. path[view] = "attach" =>
        \A k \in (eventSeq' + 1)..seq' : \E i \in 1..Len(channel') : IsEvent(channel'[i]) /\ channel'[i].n = k
  <2>1. \A e \in Nat : RestComing(e) =>
          \A k \in (e + 1)..seq' : \E i \in 1..Len(channel') : IsEvent(channel'[i]) /\ channel'[i].n = k
    BY <1>0, <1>1, <1>4, TakenKeepsRest
  <2> QED BY <1>5, <2>1
<1> QED BY <1>1, <1>3, <1>5, <1>6 DEF ViewInOrder, RestComing, Covered, OpenedBy, IsEvent, OneLine

LEMMA ViewKept ==
  ASSUME IInv, SRNext
  PROVE  ViewInOrder'
PROOF
<1>0. SRTypeOK /\ shown \in Seq(Events) /\ pending \in Seq(Events)
  BY DEF IInv, SRTypeOK
<1>1. CASE Write \/ (\E c \in Calls : Answer(c)) \/ (\E k \in 1..MaxChunk : Read(k)) \/ HandleEvent \/ HandleResponse
           \/ \E v \in Views : AskSnapshot(v) \/ TakeSnapshot(v) \/ AnswerStart(v) \/ HandleReplay(v) \/ Resync(v)
  <2>1. view' = view /\ live' = live /\ eventSeq' = eventSeq /\ shown' = shown /\ pending' = pending
    BY <1>1, ViewIsKept
  <2>2. CASE Receives
    <3>1. CASE ReceiveEvent
      BY <3>1, ViewAtReceipt
    <3>2. CASE ReceiveSnapshot
      BY <3>2, ViewAtSnapshot
    <3>3. CASE ReceiveReplay
      BY <3>3, ViewAtReplay
    <3> QED BY <2>2, <3>1, <3>2, <3>3 DEF Receives
  <2>3. CASE ~Receives
    <3>1. (channel' = channel /\ seq' = seq) \/ \E m \in Messages : Sends(m)
      BY <2>3, ChannelMoves
    <3>2. CASE ReceiveSnapshot
      BY <3>2, ViewAtSnapshot
    <3>3. CASE ~ReceiveSnapshot
      <4>1. channel' = channel => seq' = seq
        <5>1. ASSUME NEW m \in Messages, Sends(m)
              PROVE  channel' # channel
          BY <1>0, <5>1, Sent DEF Sends
        <5> QED BY <3>1, <5>1
      <4>2. ToSet(shown' \o pending') = ToSet(shown \o pending)
        BY <2>1
      <4> QED BY <2>1, <3>1, <3>3, <4>1, <4>2, ViewElsewhere
    <3> QED BY <3>2, <3>3
  <2> QED BY <2>2, <2>3
<1>2. CASE Flush
  <2>1. /\ view' = view /\ live' = live /\ eventSeq' = eventSeq /\ channel' = channel /\ seq' = seq
        /\ shown' = shown \o pending /\ pending' = <<>>
    BY <1>2 DEF Flush, hostVars
  <2>2. ToSet(shown' \o pending') = ToSet(shown \o pending)
    <3>1. \A s \in Seq(Events) : s \o <<>> = s
      OBVIOUS
    <3>2. shown \o pending \in Seq(Events)
      BY <1>0, Joined
    <3> QED BY <2>1, <3>1, <3>2
  <2>3. CASE ReceiveSnapshot
    BY <2>3, ViewAtSnapshot
  <2>4. CASE ~ReceiveSnapshot
    BY <2>1, <2>2, <2>4, ViewElsewhere
  <2> QED BY <2>3, <2>4
<1>3. ASSUME NEW how \in {"start", "attach"}, OpenView(how)
      PROVE  ViewInOrder'
  <2>1. live' = FALSE
    BY <1>3 DEF OpenView
  <2> QED BY <2>1 DEF ViewInOrder
<1> QED BY <1>1, <1>2, <1>3, ViewAtReceipt, ViewAtSnapshot, ViewAtReplay, Steps

-----------------------------------------------------------------------------
(* The invariant.                                                          *)

LEMMA InitInvariant ==
  ASSUME SRInit
  PROVE  IInv
PROOF
<1>1. SRTypeOK /\ StdoutInOrder /\ AnswersInOrder /\ CallsInOrder
  BY InitTypes, InitStdout, InitCalls
<1>2. channel = <<>> /\ shown = <<>> /\ pending = <<>> /\ live = FALSE /\ eventSeq = 0 /\ seq = 0
  BY DEF SRInit
<1>3. Len(<<>>) = 0
  OBVIOUS
<1>4. EventsInOrder /\ SnapshotsFit /\ RepliesFit
  BY <1>2, <1>3 DEF EventsInOrder, SnapshotsFit, RepliesFit
<1>5. InStep /\ StructuralOnce /\ ViewInOrder
  BY <1>2, <1>3 DEF InStep, AtMost, StructuralOnce, ViewInOrder
<1> QED BY <1>1, <1>4, <1>5 DEF IInv

LEMMA InvariantIsKept ==
  ASSUME IInv, SRNext
  PROVE  IInv'
PROOF
<1>1. SRTypeOK' /\ StdoutInOrder' /\ AnswersInOrder' /\ CallsInOrder'
  BY TypesKept, StdoutKept, AnswersKept, CallsKept
<1>2. EventsInOrder' /\ SnapshotsFit' /\ RepliesFit'
  BY EventsKept, SnapshotsKept, RepliesKept
<1>3. InStep' /\ StructuralOnce' /\ ViewInOrder'
  BY TranscriptKept, ViewKept
<1> QED BY <1>1, <1>2, <1>3 DEF IInv

LEMMA StutterKeepsInvariant ==
  ASSUME IInv, UNCHANGED SRvars
  PROVE  IInv'
PROOF
<1>1. /\ wrote' = wrote /\ stdout' = stdout /\ chunk' = chunk
      /\ seq' = seq /\ replayFloorSeq' = replayFloorSeq /\ snapshotSeq' = snapshotSeq
      /\ phase' = phase /\ path' = path /\ reflected' = reflected /\ answer' = answer /\ afterSeq' = afterSeq
      /\ channel' = channel
      /\ view' = view /\ live' = live /\ eventSeq' = eventSeq /\ shown' = shown /\ pending' = pending
  BY DEF SRvars, hostVars, callVars, rendererVars
<1>2. SRTypeOK' /\ StdoutInOrder' /\ AnswersInOrder' /\ CallsInOrder'
  BY <1>1 DEF IInv, SRTypeOK, StdoutInOrder, AnswersInOrder, CallsInOrder, Fits, OneLine, IsEvent
<1>3. EventsInOrder' /\ SnapshotsFit' /\ RepliesFit'
  BY <1>1 DEF IInv, EventsInOrder, SnapshotsFit, SnapshotFits, RepliesFit, ReplayFits, ResyncFits, Fits, OneLine,
     IsEvent, EventsBefore, EventsAfter, RestComing
<1>4. InStep' /\ StructuralOnce' /\ ViewInOrder'
  BY <1>1 DEF IInv, InStep, AtMost, StructuralOnce, ViewInOrder, RestComing, Covered, OpenedBy, OneLine, IsEvent
<1> QED BY <1>2, <1>3, <1>4 DEF IInv

\* What is on its way between the worker, AgentHost and the renderer fits
\* what each of them has counted, in every state of the pipe, the calls and
\* the channel (AgentHost.handleLine, snapshot, replaySince; applySnapshot).
THEOREM Invariant == SRSpec => []IInv
PROOF
<1>1. IInv /\ [SRNext]_SRvars => IInv'
  BY InvariantIsKept, StutterKeepsInvariant
<1> QED BY <1>1, InitInvariant, PTL DEF SRSpec

\* Every variable keeps its type.
THEOREM ViewsTyped == SRSpec => []SRTypeOK
PROOF
<1>1. IInv => SRTypeOK
  BY DEF IInv
<1> QED BY <1>1, Invariant, PTL

\* However snapshot, replay and live events overlap and however much a chunk
\* holds, no event that begins or ends something enters a transcript twice or
\* out of order (onEvent's and applyReplay's comparison with eventSeqRef).
THEOREM NothingTwiceHolds == SRSpec => []StructuralOnce
PROOF
<1>1. IInv => StructuralOnce
  BY DEF IInv
<1> QED BY <1>1, Invariant, PTL

\* Where the pipe hands over one line at a time, a live view that
\* agent:attach opened has every event it has counted.
THEOREM TranscriptWhole == MaxChunk = 1 => (SRSpec => []TranscriptIsWhole)
PROOF
<1>1. OneLine /\ IInv => TranscriptIsWhole
  BY DEF IInv, TranscriptIsWhole, ViewInOrder, NothingMissing, Missing, Covered
<1>2. OneLine => (IInv => TranscriptIsWhole)
  BY <1>1
<1>3. CASE OneLine
  <2>1. IInv => TranscriptIsWhole
    BY <1>2, <1>3
  <2> QED BY <2>1, Invariant, PTL
<1> QED BY <1>3 DEF OneLine

\* The reply to the view's call is taken in, and no live event overtook it.
ClosingReply ==
  /\ channel # <<>> /\ Head(channel).type \in {"replay", "resync"} /\ channel' = Tail(channel)
  /\ Head(channel).view = view /\ live
  /\ eventSeq = afterSeq[view] \/ Head(channel).type = "resync"

\* Such a view, and one that agent:start opened, has every event up to the
\* number it has reached once a replay that no live event overtook, or a new
\* snapshot in its place, has been taken in.
THEOREM ReplayClosesGap == MaxChunk = 1 => (SRSpec => ReplayCloses)
PROOF
<1>1. ASSUME OneLine, IInv, SRNext, ClosingReply
      PROVE  Missing' = {}
  <2>0. /\ ViewInOrder /\ SRTypeOK
        /\ channel # <<>> /\ channel' = Tail(channel) /\ Head(channel).type \in {"replay", "resync"}
        /\ Head(channel).view = view /\ live
        /\ eventSeq = afterSeq[view] \/ Head(channel).type = "resync"
    BY <1>1 DEF IInv, ClosingReply
  <2>1. ReceiveReplay
    <3>1. CASE channel' = channel
      <4>1. Len(channel') = Len(channel) - 1 /\ Len(channel) \in Nat
        BY <2>0, Taken
      <4> QED BY <3>1, <4>1
    <3>2. ASSUME NEW m \in Messages, Sends(m)
          PROVE  FALSE
      <4>1. Len(channel') = Len(channel) - 1 /\ Len(channel) \in Nat
        BY <2>0, Taken
      <4>2. Len(channel') = Len(channel) + 1
        BY <2>0, <3>2, Sent DEF Sends
      <4> QED BY <4>1, <4>2
    <3>3. ReceiveEvent \/ ReceiveSnapshot \/ ReceiveReplay
      BY <1>1, <3>1, <3>2, ChannelMoves DEF Receives
    <3>4. ~ReceiveEvent /\ ~ReceiveSnapshot
      BY <2>0 DEF ReceiveEvent, ReceiveSnapshot
    <3> QED BY <3>3, <3>4
  <2>2. 1..eventSeq' \subseteq ToSet(shown' \o pending')
    <3>1. CASE Head(channel).type = "resync"
      BY <1>1, <2>0, <2>1, <3>1, ResyncGives
    <3>2. CASE Head(channel).type = "replay"
      <4>1. /\ eventSeq' \in Nat
            /\ ToSet(shown \o pending) \subseteq ToSet(shown' \o pending')
            /\ \A k \in 1..eventSeq' : k <= eventSeq \/ k <= afterSeq[view] \/ k \in ToSet(shown' \o pending')
        BY <1>1, <2>0, <2>1, <3>2, ReplayGives
      <4>2. 1..afterSeq[view] \subseteq ToSet(shown \o pending)
        BY <1>1, <2>0 DEF ViewInOrder, Covered
      <4>3. eventSeq = afterSeq[view] /\ eventSeq \in Nat
        BY <2>0, <3>2, Numbers
      <4> QED BY <4>1, <4>2, <4>3
    <3> QED BY <2>0, <3>1, <3>2
  <2> QED BY <2>2 DEF Missing
<1>2. ASSUME OneLine, IInv, [SRNext]_SRvars, ClosingReply
      PROVE  Missing' = {}
  <2>1. CASE UNCHANGED SRvars
    <3>1. channel' = channel /\ channel # <<>> /\ channel' = Tail(channel) /\ SRTypeOK
      BY <1>2, <2>1 DEF SRvars, IInv, ClosingReply
    <3>2. Len(channel') = Len(channel) - 1 /\ Len(channel) \in Nat
      BY <3>1, Taken
    <3> QED BY <3>1, <3>2
  <2> QED BY <1>1, <1>2, <2>1
<1>3. CASE OneLine
  <2>1. IInv /\ [SRNext]_SRvars =>
          [channel # <<>> /\ Head(channel).type \in {"replay", "resync"} /\ channel' = Tail(channel)
             /\ Head(channel).view = view /\ live
             /\ (eventSeq = afterSeq[view] \/ Head(channel).type = "resync")
           => Missing' = {}]_SRvars
    BY <1>2, <1>3 DEF ClosingReply
  <2> QED BY <2>1, Invariant, PTL DEF SRSpec, ReplayCloses
<1> QED BY <1>3 DEF OneLine

\* A view that is given a snapshot has what the snapshot reflects.
LEMMA ShownIsThere ==
  ASSUME NEW n \in 0..MaxEvents, NEW last \in 0..MaxEvents, pending \in Seq(Events),
         shown' = UpTo(n), pending' = pending, eventSeq' = last, ~(n < last)
  PROVE  Missing' = {}
PROOF
<1>1. UpTo(n) \in Seq(Events) /\ ToSet(UpTo(n)) = 1..n
  BY UpToIsOnce
<1>2. ToSet(shown' \o pending') = 1..n \cup ToSet(pending)
  BY <1>1, JoinedSet
<1>3. 1..last \subseteq 1..n
  OBVIOUS
<1> QED BY <1>2, <1>3 DEF Missing

\* However much a chunk holds, a gap behind a view that agent:attach opened
\* has one cause: a snapshot whose cut is later than the messages it has
\* (AgentHost.snapshot, which reads lastSeq after its await).
GapsComeFromCuts ==
  [][/\ live => Missing = {}
     /\ live' /\ OpenedBy("attach")'
     => \/ Missing' = {}
        \/ /\ channel # <<>> /\ channel' = Tail(channel)
           /\ Head(channel).type \in {"snapshot", "resync"} /\ Head(channel).n < Head(channel).last]_SRvars

\* Whatever the pipe and the views do, no gap opens in another way.
THEOREM GapsHaveOneCause == SRSpec => GapsComeFromCuts
PROOF
<1> DEFINE Cause == /\ channel # <<>> /\ channel' = Tail(channel)
                    /\ Head(channel).type \in {"snapshot", "resync"} /\ Head(channel).n < Head(channel).last
<1>1. ASSUME IInv, SRNext, live => Missing = {}, live', OpenedBy("attach")'
      PROVE  Missing' = {} \/ Cause
  <2>0. /\ SRTypeOK /\ ViewInOrder /\ SnapshotsFit /\ path \in [Views -> {"start", "attach"}] /\ eventSeq \in Nat
        /\ shown \in Seq(Events) /\ pending \in Seq(Events)
    BY <1>1, Numbers DEF IInv, SRTypeOK
  <2>1. CASE /\ view' = view /\ live' = live /\ eventSeq' = eventSeq
             /\ ToSet(shown' \o pending') = ToSet(shown \o pending)
    BY <1>1, <2>1 DEF Missing
  <2>2. CASE Write \/ (\E c \in Calls : Answer(c)) \/ (\E k \in 1..MaxChunk : Read(k)) \/ HandleEvent \/ HandleResponse
             \/ \E v \in Views : AskSnapshot(v) \/ TakeSnapshot(v) \/ AnswerStart(v) \/ HandleReplay(v) \/ Resync(v)
    BY <2>1, <2>2, ViewIsKept
  <2>3. CASE Flush
    <3>1. /\ view' = view /\ live' = live /\ eventSeq' = eventSeq
          /\ shown' = shown \o pending /\ pending' = <<>>
      BY <2>3 DEF Flush
    <3>2. ToSet(shown' \o pending') = ToSet(shown \o pending)
      <4>1. \A s \in Seq(Events) : s \o <<>> = s
        OBVIOUS
      <4>2. shown \o pending \in Seq(Events)
        BY <2>0, Joined
      <4> QED BY <3>1, <4>1, <4>2
    <3> QED BY <2>1, <3>1, <3>2
  <2>4. ASSUME NEW how \in {"start", "attach"}, OpenView(how)
        PROVE  FALSE
    BY <1>1, <2>4 DEF OpenView
  <2>5. CASE ReceiveEvent
    <3>1. live' = live /\ view' = view /\ path' = path
      BY <2>5 DEF ReceiveEvent, callVars
    <3>2. view \in Views /\ path[view] = "attach" /\ 1..eventSeq \subseteq ToSet(shown \o pending)
      BY <1>1, <3>1 DEF OpenedBy, Missing
    <3>3. /\ eventSeq' \in Nat /\ ToSet(shown \o pending) \subseteq ToSet(shown' \o pending')
          /\ \A k \in 1..eventSeq' : k <= eventSeq \/ k \in ToSet(shown' \o pending')
      BY <1>1, <2>5, <3>1, <3>2, EventGives
    <3>4. 1..eventSeq' \subseteq ToSet(shown' \o pending')
      BY <2>0, <3>2, <3>3
    <3> QED BY <3>4 DEF Missing
  <2>6. CASE ReceiveSnapshot /\ Head(channel).view # view
    BY <2>1, <2>6 DEF ReceiveSnapshot
  <2>7. CASE ReceiveSnapshot /\ Head(channel).view = view
    <3>1. /\ channel # <<>> /\ channel' = Tail(channel) /\ Head(channel).type = "snapshot" /\ pending' = pending
      BY <2>7 DEF ReceiveSnapshot
    <3>2. /\ Head(channel).n \in 0..MaxEvents /\ Head(channel).last \in 0..MaxEvents /\ Fits(Head(channel))
          /\ shown' = UpTo(Head(channel).n) /\ eventSeq' = Head(channel).last
      <4>1. /\ UpTo(Head(channel).n) \o InOrder(Head(channel).replay) = UpTo(Head(channel).n)
            /\ Highest(Head(channel).replay, Head(channel).last) = Head(channel).last
        BY <2>0, <3>1, SnapshotShows
      <4>2. shown' = UpTo(Head(channel).n) /\ eventSeq' = Head(channel).last
        BY <2>7, <4>1 DEF ReceiveSnapshot
      <4> QED BY <2>0, <3>1, <4>2, SnapshotShows
    <3> QED BY <2>0, <3>1, <3>2, ShownIsThere
  <2>8. CASE ReceiveReplay
    <3>0. live' = live /\ view' = view /\ path' = path /\ pending' = pending
          /\ channel # <<>> /\ channel' = Tail(channel) /\ Head(channel).type \in {"replay", "resync"}
      BY <2>8 DEF ReceiveReplay, callVars
    <3>1. CASE Head(channel).view # view
      BY <2>1, <2>8, <3>0, <3>1 DEF ReceiveReplay
    <3>2. CASE Head(channel).view = view /\ Head(channel).type = "replay"
      <4>1. /\ eventSeq' \in Nat /\ ToSet(shown \o pending) \subseteq ToSet(shown' \o pending')
            /\ \A k \in 1..eventSeq' : k <= eventSeq \/ k <= afterSeq[view] \/ k \in ToSet(shown' \o pending')
        BY <1>1, <2>8, <3>0, <3>2, ReplayGives
      <4>2. 1..eventSeq \subseteq ToSet(shown \o pending)
        BY <1>1, <3>0 DEF Missing
      <4>3. view \in Views /\ afterSeq[view] <= eventSeq
        BY <1>1, <2>0, <3>0 DEF ViewInOrder
      <4>4. afterSeq[view] \in 0..MaxEvents
        BY <2>0, <4>3 DEF SRTypeOK
      <4>5. \A k \in 1..eventSeq' : k <= eventSeq \/ k \in ToSet(shown' \o pending')
        BY <2>0, <4>1, <4>3, <4>4
      <4>6. 1..eventSeq' \subseteq ToSet(shown' \o pending')
        BY <2>0, <4>1, <4>2, <4>5
      <4> QED BY <4>6 DEF Missing
    <3>3. CASE Head(channel).view = view /\ Head(channel).type = "resync"
      <4>1. shown' = UpTo(Head(channel).n) /\ eventSeq' = Head(channel).last
        BY <1>1, <2>8, <3>0, <3>3 DEF ReceiveReplay
      <4>2. /\ Head(channel).n \in 0..MaxEvents /\ Head(channel).last \in 0..MaxEvents /\ Fits(Head(channel))
        BY <1>1, <3>0, <3>3, NextReply
      <4> QED BY <2>0, <3>0, <3>3, <4>1, <4>2, ShownIsThere
    <3> QED BY <3>0, <3>1, <3>2, <3>3
  <2> QED BY <1>1, <2>2, <2>3, <2>4, <2>5, <2>6, <2>7, <2>8, Steps
<1>2. ASSUME IInv, UNCHANGED SRvars, live => Missing = {}, live'
      PROVE  Missing' = {}
  <2>1. live' = live /\ eventSeq' = eventSeq /\ shown' = shown /\ pending' = pending
    BY <1>2 DEF SRvars, rendererVars
  <2> QED BY <1>2, <2>1 DEF Missing
<1>3. IInv /\ [SRNext]_SRvars =>
        [/\ live => Missing = {}
         /\ live' /\ OpenedBy("attach")'
         => \/ Missing' = {}
            \/ /\ channel # <<>> /\ channel' = Tail(channel)
               /\ Head(channel).type \in {"snapshot", "resync"} /\ Head(channel).n < Head(channel).last]_SRvars
  BY <1>1, <1>2
<1> QED BY <1>3, Invariant, PTL DEF SRSpec, GapsComeFromCuts
=============================================================================
