--------------------------- MODULE GitMutationProofs ---------------------------
(***************************************************************************)
(* Theorems about GitMutation for any files, selections and numbers of     *)
(* requests, edits, foreign Git processes, failures and crashes: types,    *)
(* the lock of other processes, what editors wrote, and that GitMutation   *)
(* implements GitChange.                                                   *)
(***************************************************************************)
EXTENDS GitMutation, FiniteSetTheorems, WellFoundedInduction, TLAPS

-----------------------------------------------------------------------------
(* The inductive invariant.                                                *)

\* Where a job stands that has passed its looks before the lock.
Started == {"lock", "giveUp"} \cup Trying \cup Undoing \cup Published
\* Where it may have records of files.
Recording == Trying \cup {"finish", "undo", "unlink", "relink"}
\* Where a discard has not been published or undone.
Pending == {"lock"} \cup Trying \cup Undoing

\* Which job may stand where.
Placed ==
  /\ pc = "idle" => op = NoPlan
  /\ ~alive => pc = "idle"
  /\ pc = "prepared" => op.kind = "prepare"
  /\ pc \in {"create", "applied"} => Discards(op)
  /\ pc \in Started => op.kind \in {"apply", "restore"}
  /\ pc = "restored" => op.kind = "restore"
  /\ pc \in Trying => ownLock
  /\ pc \notin Recording => records = [f \in Files |-> NoRecord]

\* A plan leads files outside its selection nowhere, and the others to no file,
\* or to a version that is not the one before and not what an editor wrote.
PlanIsSound(p, v, w) ==
  /\ p.kind \in {"prepare", "apply"} => p.paths # {} /\ p.action # "none"
  /\ \A f \in Files : p.before[f] <= v /\ p.after[f] <= v
  /\ p.kind = "apply" =>
       \A f \in Files :
         IF f \notin p.paths \/ p.action = "stage" THEN p.after[f] = p.before[f]
         ELSE p.after[f] = Missing \/ p.after[f] \notin {p.before[f], w[f]}

PlansAreSound ==
  /\ PlanIsSound(plan, version, work) /\ PlanIsSound(op, version, work)
  /\ \A i \in DOMAIN queue : PlanIsSound(queue[i], version, work)

\* An editor's next version is a new one.
VersionsAreGiven ==
  \A f \in Files : /\ path[f] <= version /\ work[f] <= version /\ records[f].backup <= version
                   /\ point.before[f] <= version /\ point.after[f] <= version

\* Until the one discard has saved its images nothing has touched a file.
OnlyDiscard ==
  /\ point.status = "none" => point.paths = {} /\ work = path /\ \A f \in Files : asides[f] = {}
  /\ Discards(op) /\ pc \in {"start", "create"} => point.status = "none"
  /\ \A i \in DOMAIN queue : Discards(queue[i]) =>
       /\ point.status = "none" /\ ~Discards(op)
       /\ \A j \in DOMAIN queue : Discards(queue[j]) => j = i

\* The images of the discard or of the restore under way are the saved ones.
PointIsOfJob ==
  /\ Discards(op) /\ pc \in Started =>
       /\ point.status # "none" /\ point.paths = op.paths
       /\ point.before = op.before /\ point.after = op.after
       /\ point.indexBefore = op.index.sel /\ point.indexAfter = op.next
       /\ pc \notin {"unlock", "giveUp"} => point.status = "prepared"
  /\ op.kind = "restore" /\ pc \in Started =>
       /\ point.status \notin {"none", "restored", "rolledBack"} /\ op.paths = point.paths
       /\ op.index.sel \in {point.indexBefore, point.indexAfter} /\ op.next = point.indexBefore
       /\ \A f \in Files :
            IF f \in op.paths
            THEN op.after[f] = point.before[f] /\ op.before[f] \in {point.before[f], point.after[f]}
            ELSE op.after[f] = op.before[f]

\* A record is of a file the job replaces; what stands at its path is not what
\* was moved aside; it was installed only over what the job expected.
RecordIsSound(f) ==
  LET r == records[f] IN
    /\ ~r.listed => r = NoRecord
    /\ r.listed => f \in op.paths /\ op.before[f] # op.after[f]
    /\ r.moved => r.backup # Missing /\ path[f] # r.backup
    /\ r.installed => op.after[f] # Missing

\* The old version of the file is out of the way, and was the expected one.
Cleared(f) == IF records[f].moved THEN records[f].backup = op.before[f] ELSE op.before[f] = Missing

\* The file of the last record is between two steps.
UnderWay ==
  /\ pc \in {"move", "recheck", "install", "unlink", "relink"} => Listed # {}
  /\ pc = "move" => ~records[Last].moved /\ ~records[Last].installed /\ op.before[Last] # Missing
  /\ pc = "recheck" => records[Last].moved /\ ~records[Last].installed
  /\ pc = "install" => op.after[Last] # Missing /\ ~records[Last].installed /\ Cleared(Last)
  /\ pc = "unlink" => /\ records[Last].installed
                      /\ EditInUnlink \/ path[Last] \in {op.after[Last], Missing}
  /\ pc = "relink" => ~records[Last].installed

\* Every other file of the job has been replaced or is still to come, later ones last.
Replaced(f) == Cleared(f) /\ (records[f].installed <=> op.after[f] # Missing)
InOrder ==
  /\ pc \in Trying \cup {"finish"} =>
       \A f \in Listed : ~(f = Last /\ pc \in {"move", "recheck", "install"}) => Replaced(f)
  /\ pc \in Trying => \A f \in Listed, g \in Todo : f < g
  /\ pc \in {"index", "finish"} => Todo = {}
  /\ \A f \in Files : records[f].installed => Cleared(f)

\* A file a restore leaves alone does not become what the operation made of it,
\* unless somebody deletes it.
RestoreSees ==
  op.kind = "restore" /\ pc \in {"lock"} \cup Trying =>
    \A f \in op.paths : path[f] = point.after[f] /\ op.before[f] # point.after[f] => path[f] = Missing

\* All of the above.
Steady ==
  /\ TypeOK /\ Placed /\ PlansAreSound /\ VersionsAreGiven /\ OnlyDiscard /\ PointIsOfJob
  /\ (\A f \in Files : RecordIsSound(f)) /\ UnderWay /\ InOrder /\ RestoreSees

\* Until a discard is published, or its rollback failed for a file, an editor's
\* version is at its path or is the backup of the record.
AtHome ==
  Discards(op) /\ pc \in Pending /\ (pc = "lock" \/ ~failures) =>
    \A f \in Files : /\ asides[f] = {}
                     /\ work[f] \in {path[f], Missing} \cup (IF records[f].moved THEN {records[f].backup} ELSE {})

\* What an editor wrote is kept.
Safe == NothingIsLost /\ AtHome

-----------------------------------------------------------------------------
(* The first and the last of a set of files.                               *)

\* A finite set of numbers that is not empty has a greatest and a least member:
\* a smallest subset without one could not have lost a member.
LEMMA Extremes ==
  ASSUME NEW S \in SUBSET Nat, IsFiniteSet(S), S # {}
  PROVE  (\E x \in S : \A y \in S : x >= y) /\ (\E x \in S : \A y \in S : x <= y)
<1> DEFINE Bounded(A) == (\E x \in A : \A y \in A : x >= y) /\ (\E x \in A : \A y \in A : x <= y)
           Odd == {A \in FiniteSubsetsOf(S) : A # {} /\ ~Bounded(A)}
<1> SUFFICES ASSUME S \in Odd PROVE FALSE
  BY DEF FiniteSubsetsOf
<1> HIDE DEF Bounded
<1>1. PICK A \in Odd : \A B \in Odd : <<B, A>> \notin StrictSubsetOrdering(S)
  <2>1. IsWellFoundedOn(StrictSubsetOrdering(S), FiniteSubsetsOf(S))
    BY FS_StrictSubsetOrderingWellFounded
  <2>2. Odd \subseteq FiniteSubsetsOf(S) /\ Odd # {}
    OBVIOUS
  <2> HIDE DEF Odd
  <2>3. QED
    BY <2>1, <2>2, WFMin
<1>2. A \subseteq S /\ IsFiniteSet(A) /\ A # {} /\ ~Bounded(A)
  BY DEF FiniteSubsetsOf
<1>3. PICK a \in A : TRUE
  BY <1>2
<1> DEFINE B == A \ {a}
<1>4. B \in FiniteSubsetsOf(S)
  BY <1>2, FS_RemoveElement DEF FiniteSubsetsOf
<1>5. <<B, A>> \in StrictSubsetOrdering(S)
  BY <1>2, <1>3 DEF StrictSubsetOrdering
<1>6. B = {} \/ Bounded(B)
  BY <1>1, <1>4, <1>5
<1>7. CASE B = {}
  <2>1. A = {a} /\ a \in Nat
    BY <1>2, <1>3, <1>7
  <2>2. QED
    BY <1>2, <2>1 DEF Bounded
<1>8. CASE B # {} /\ Bounded(B)
  <2>1. PICK x \in B, z \in B : \A y \in B : x >= y /\ z <= y
    BY <1>8 DEF Bounded
  <2>2. A \subseteq Nat /\ x \in A /\ z \in A
    BY <1>2
  <2>3. \E u \in A : \A y \in A : u >= y
    <3>1. CASE a >= x
      BY <3>1, <2>1, <2>2
    <3>2. CASE a < x
      BY <3>2, <2>1, <2>2
    <3>3. QED
      BY <3>1, <3>2, <2>2
  <2>4. \E u \in A : \A y \in A : u <= y
    <3>1. CASE a <= z
      BY <3>1, <2>1, <2>2
    <3>2. CASE a > z
      BY <3>2, <2>1, <2>2
    <3>3. QED
      BY <3>1, <3>2, <2>2
  <2>5. QED
    BY <1>2, <2>3, <2>4 DEF Bounded
<1>9. QED
  BY <1>6, <1>7, <1>8

LEMMA FirstFile ==
  ASSUME NEW S \in SUBSET Files, S # {}
  PROVE  Min(S) \in S /\ \A f \in S : Min(S) <= f
<1>1. S \subseteq Nat /\ IsFiniteSet(S)
  BY BoundsAssumption, FS_Subset
<1>2. QED
  BY <1>1, Extremes DEF Min

LEMMA LastFile ==
  ASSUME NEW S \in SUBSET Files, S # {}
  PROVE  Max(S) \in S /\ \A f \in S : Max(S) >= f
<1>1. S \subseteq Nat /\ IsFiniteSet(S)
  BY BoundsAssumption, FS_Subset
<1>2. QED
  BY <1>1, Extremes DEF Max

\* Last is the file just listed, as it comes after those listed before.
LEMMA LastOf ==
  ASSUME NEW S \in SUBSET Files, NEW f \in S, \A g \in S : g <= f
  PROVE  Max(S) = f
<1>1. f \in Nat /\ Max(S) \in Nat /\ Max(S) \in S /\ Max(S) >= f
  BY LastFile, BoundsAssumption
<1>2. QED
  BY <1>1

-----------------------------------------------------------------------------
(* Types.                                                                  *)

LEMMA NoPlanType == NoPlan \in Plans /\ NoPoint \in Points /\ NoFiles \in Images
BY DEF NoPlan, NoPoint, NoFiles, Plans, Points, Images, Indexes, Actions, Statuses, Missing

\* The file the job is at.
LEMMA LastIsListed ==
  ASSUME Listed # {}
  PROVE  Last \in Files /\ Last \in Listed /\ records[Last].listed /\ \A g \in Listed : g <= Last
<1>1. Listed \in SUBSET Files
  BY DEF Listed
<1>2. Last \in Listed /\ \A g \in Listed : Last >= g
  BY <1>1, LastFile DEF Last
<1>3. QED
  BY <1>1, <1>2, BoundsAssumption DEF Listed

LEMMA SameListed ==
  ASSUME records' = records
  PROVE  Listed' = Listed /\ Last' = Last
BY DEF Listed, Last

\* A record of the function of records.
FileRecords == [listed : BOOLEAN, moved : BOOLEAN, installed : BOOLEAN, backup : Nat]

LEMMA NoRecordType == NoRecord \in FileRecords /\ [f \in Files |-> NoRecord] \in [Files -> FileRecords]
BY DEF NoRecord, FileRecords, Missing

\* One record of the function changes, as the steps of a transaction change it.
JustListed(R, f) == [R EXCEPT ![f].listed = TRUE]

LEMMA RecordListed ==
  ASSUME NEW R \in [Files -> FileRecords], NEW f \in Files, NEW Q, Q = JustListed(R, f)
  PROVE  /\ Q \in [Files -> FileRecords]
         /\ Q[f] = [listed |-> TRUE, moved |-> R[f].moved, installed |-> R[f].installed, backup |-> R[f].backup]
         /\ \A g \in Files : g # f => Q[g] = R[g]
BY DEF FileRecords, JustListed

MovedAside(R, f, v) == [R EXCEPT ![f].moved = TRUE, ![f].backup = v]

LEMMA RecordMoved ==
  ASSUME NEW R \in [Files -> FileRecords], NEW f \in Files, NEW v \in Nat,
         NEW Q, Q = MovedAside(R, f, v)
  PROVE  /\ Q \in [Files -> FileRecords]
         /\ Q[f] = [listed |-> R[f].listed, moved |-> TRUE, installed |-> R[f].installed, backup |-> v]
         /\ \A g \in Files : g # f => Q[g] = R[g]
<1>1. R[f] \in FileRecords
  OBVIOUS
<1>2. PICK r : r = [R[f] EXCEPT !.moved = TRUE, !.backup = v]
  OBVIOUS
<1>3. Q = [R EXCEPT ![f] = r]
  BY <1>2 DEF MovedAside
<1>4. r = [listed |-> R[f].listed, moved |-> TRUE, installed |-> R[f].installed, backup |-> v] /\ r \in FileRecords
  BY <1>1, <1>2 DEF FileRecords
<1>5. QED
  BY <1>3, <1>4

InstalledAt(R, f) == [R EXCEPT ![f].installed = TRUE]

LEMMA RecordInstalled ==
  ASSUME NEW R \in [Files -> FileRecords], NEW f \in Files, NEW Q, Q = InstalledAt(R, f)
  PROVE  /\ Q \in [Files -> FileRecords]
         /\ Q[f] = [listed |-> R[f].listed, moved |-> R[f].moved, installed |-> TRUE, backup |-> R[f].backup]
         /\ \A g \in Files : g # f => Q[g] = R[g]
<1>1. R[f] \in FileRecords
  OBVIOUS
<1>2. PICK r : r = [R[f] EXCEPT !.installed = TRUE]
  OBVIOUS
<1>3. Q = [R EXCEPT ![f] = r]
  BY <1>2 DEF InstalledAt
<1>4. r = [listed |-> R[f].listed, moved |-> R[f].moved, installed |-> TRUE, backup |-> R[f].backup] /\ r \in FileRecords
  BY <1>1, <1>2 DEF FileRecords
<1>5. QED
  BY <1>3, <1>4

UnlinkedAt(R, f) == [R EXCEPT ![f].installed = FALSE]

LEMMA RecordUnlinked ==
  ASSUME NEW R \in [Files -> FileRecords], NEW f \in Files, NEW Q, Q = UnlinkedAt(R, f)
  PROVE  /\ Q \in [Files -> FileRecords]
         /\ Q[f] = [listed |-> R[f].listed, moved |-> R[f].moved, installed |-> FALSE, backup |-> R[f].backup]
         /\ \A g \in Files : g # f => Q[g] = R[g]
<1>1. R[f] \in FileRecords
  OBVIOUS
<1>2. PICK r : r = [R[f] EXCEPT !.installed = FALSE]
  OBVIOUS
<1>3. Q = [R EXCEPT ![f] = r]
  BY <1>2 DEF UnlinkedAt
<1>4. r = [listed |-> R[f].listed, moved |-> R[f].moved, installed |-> FALSE, backup |-> R[f].backup] /\ r \in FileRecords
  BY <1>1, <1>2 DEF FileRecords
<1>5. QED
  BY <1>3, <1>4

\* The rollback of a file that fails.
LEMMA BrokenTypes ==
  ASSUME TypeOK, Broken, Listed # {}
  PROVE  /\ records' \in [Files -> FileRecords] /\ asides' \in [Files -> SUBSET Nat]
         /\ pc' \in Places /\ failures' \in BOOLEAN
<1>1. Last \in Files
  BY LastIsListed
<1>2. records[Last].backup \in Nat /\ asides[Last] \in SUBSET Nat
  BY <1>1 DEF TypeOK
<1>3. (IF records[Last].moved THEN asides[Last] \cup {records[Last].backup} ELSE asides[Last]) \in SUBSET Nat
  BY <1>2
<1>4. asides' \in [Files -> SUBSET Nat]
  BY <1>3 DEF Broken, TypeOK
<1>5. records' \in [Files -> FileRecords]
  BY NoRecordType DEF Broken, TypeOK, FileRecords
<1>6. QED
  BY <1>4, <1>5 DEF Broken, Continue, Goto, Places, Undoing

LEMMA EnvironmentTypes ==
  ASSUME TypeOK, Edit \/ GitLocks \/ GitWrites \/ RemoveStaleLock
  PROVE  TypeOK'
<1>1. CASE Edit
  BY <1>1 DEF Edit, TypeOK, Images, Missing, memory, Trouble
<1>2. CASE GitLocks
  BY <1>2 DEF GitLocks, TypeOK, memory, Trouble
<1>3. CASE GitWrites
  <2>1. index' \in Indexes /\ version' \in Nat /\ head' \in Nat
    BY <1>3 DEF GitWrites, TypeOK, Indexes
  <2>2. QED
    BY <1>3, <2>1 DEF GitWrites, TypeOK, memory
<1>4. CASE RemoveStaleLock
  BY <1>4 DEF RemoveStaleLock, TypeOK, memory, counts
<1>5. QED
  BY <1>1, <1>2, <1>3, <1>4

LEMMA RequestTypes ==
  ASSUME TypeOK, AskPrepare \/ AskApply \/ AskRestore \/ Cancel \/ releaseOwner \/ Close
  PROVE  TypeOK'
<1>0. JobOnly /\ requests' \in Nat /\ epoch' \in Nat /\ plan' \in Plans
  <2>1. requests \in Nat /\ epoch \in Nat /\ plan \in Plans
    BY DEF TypeOK
  <2>2. JobOnly
    BY Zenon DEF AskPrepare, AskApply, AskRestore, Cancel, releaseOwner, Close
  <2>3. /\ UNCHANGED requests \/ requests' = requests + 1
        /\ UNCHANGED epoch \/ epoch' = epoch + 1
    BY Zenon DEF AskPrepare, AskApply, AskRestore, Cancel, releaseOwner, Close, Accept
  <2>4. requests' \in Nat /\ epoch' \in Nat
    BY <2>1, <2>3
  <2>5. plan' \in Plans
    BY <2>1, NoPlanType DEF AskPrepare, AskApply, AskRestore, Cancel, releaseOwner, Close
  <2>6. QED
    BY <2>2, <2>4, <2>5
<1>a. alive' \in BOOLEAN /\ closing' \in BOOLEAN
  BY DEF TypeOK, AskPrepare, AskApply, AskRestore, Cancel, releaseOwner, Close
<1>1. queue' \in Seq(Plans)
  <2>1. ASSUME NEW a \in Actions \ {"none"}, NEW P \in Selections
        PROVE  [NoPlan EXCEPT !.kind = "prepare", !.action = a, !.paths = P, !.before = path,
                              !.index = index, !.head = head, !.epoch = epoch] \in Plans
    BY <2>1, BoundsAssumption, NoPlanType DEF NoPlan, Plans, TypeOK
  <2>2. [NoPlan EXCEPT !.kind = "restore", !.head = head] \in Plans
    BY NoPlanType DEF NoPlan, Plans, TypeOK
  <2>3. CASE AskPrepare
    <3>1. PICK p \in Plans : queue' = Append(queue, p)
      BY <2>1, <2>3 DEF AskPrepare
    <3>2. QED
      BY <3>1 DEF TypeOK
  <2>4. CASE AskRestore
    BY <2>2, <2>4 DEF AskRestore, TypeOK
  <2>5. CASE AskApply
    BY <2>5 DEF AskApply, TypeOK
  <2>6. CASE Cancel \/ releaseOwner \/ Close
    BY <2>6 DEF Cancel, releaseOwner, Close, TypeOK
  <2>7. QED
    BY <2>3, <2>4, <2>5, <2>6
<1>2. QED
  BY <1>0, <1>a, <1>1 DEF TypeOK, JobOnly, disk

LEMMA DecidingTypes ==
  ASSUME TypeOK, Dequeue \/ PrepareReads \/ PrepareEnds \/ ApplyStarts \/ Create \/ RestoreStarts
  PROVE  TypeOK'
<1>1. CASE Dequeue
  BY <1>1 DEF Dequeue, TypeOK, Goto, SameRecords, InMemory, disk, counts, Places
<1>2. CASE PrepareReads
  BY <1>2, NoPlanType DEF PrepareReads, TypeOK, Goto, Continue, End, SameRecords, InMemory, disk, counts, Places
<1>3. CASE PrepareEnds
  <2>1. version' \in Nat
    BY <1>3 DEF PrepareEnds, TypeOK
  <2>2. plan' \in Plans
    <3>1. [f \in Files |-> IF f \notin op.paths \/ op.action = "stage" THEN path[f]
                           ELSE IF f \in Untracked THEN Missing ELSE version + 1] \in Images
      BY DEF TypeOK, Images, Missing
    <3>2. (IF op.action = "discard" THEN index.sel ELSE version + 1) \in Nat
      BY DEF TypeOK, Indexes
    <3>3. QED
      BY <1>3, <3>1, <3>2 DEF PrepareEnds, TypeOK, Plans
  <2>3. QED
    BY <1>3, <2>1, <2>2, NoPlanType DEF PrepareEnds, TypeOK, Goto, End, SameRecords, disk, Places
<1>4. CASE ApplyStarts
  BY <1>4, NoPlanType DEF ApplyStarts, TypeOK, Goto, Continue, End, SameRecords, InMemory, disk, counts, Places
<1>5. CASE Create
  <2>1. point' \in Points
    BY <1>5 DEF Create, TypeOK, Points, Plans, Indexes, Statuses
  <2>2. QED
    BY <1>5, <2>1 DEF Create, TypeOK, Goto, Continue, SameRecords, SameQueue, counts, Places
<1>6. CASE RestoreStarts
  <2>1. op' \in Plans
    <3>1. [f \in Files |-> IF f \in point.paths THEN point.before[f] ELSE path[f]] \in Images
      BY DEF TypeOK, Points, Images
    <3>2. QED
      BY ZenonT(30), <1>6, <3>1, NoPlanType DEF RestoreStarts, End, TypeOK, Plans, Points
  <2>2. QED
    BY <1>6, <2>1 DEF RestoreStarts, TypeOK, Goto, End, SameRecords, InMemory, disk, counts, Places
<1>7. QED
  BY <1>1, <1>2, <1>3, <1>4, <1>5, <1>6

LEMMA ReplacingTypes ==
  ASSUME TypeOK, Lock \/ Expect \/ Validate \/ Check \/ Write \/ Move \/ Recheck \/ Install \/ PublishIndex,
         pc \in {"move", "recheck", "install"} => Listed # {}
  PROVE  TypeOK'
<1>1. CASE Lock
  BY <1>1, NoPlanType DEF Lock, TypeOK, Goto, Continue, End, SameQueue, counts, Places, Trying
<1>2. CASE Expect \/ Validate \/ Check \/ Recheck
  BY <1>2 DEF Expect, Validate, Check, Recheck, Look, TypeOK, Goto, Continue, SameRecords, InMemory, disk, counts,
              Places, Trying, Undoing
<1>3. CASE Write
  <2>1. records' \in [Files -> FileRecords]
    BY <1>3 DEF Write, TypeOK, FileRecords
  <2>2. pc' \in Places
    BY <1>3 DEF Write, Goto, Continue, Places, Trying, Undoing
  <2>3. UNCHANGED <<op, plan, queue, failures, ownLock>> /\ InMemory
    BY <1>3 DEF Write, Continue
  <2>4. QED
    BY <2>1, <2>2, <2>3 DEF TypeOK, InMemory, disk, counts, FileRecords
<1>4. CASE Move
  <2>1. Last \in Files /\ path[Last] \in Nat
    BY <1>4, LastIsListed DEF Move, TypeOK, Images
  <2>2. records' \in [Files -> FileRecords] /\ path' \in Images
    <3>1. records \in [Files -> FileRecords] /\ path \in Images
      BY DEF TypeOK, FileRecords
    <3>2. MovedAside(records, Last, path[Last]) \in [Files -> FileRecords]
      BY <2>1, <3>1, RecordMoved
    <3>3. [records EXCEPT ![Last].moved = TRUE, ![Last].backup = path[Last]] \in [Files -> FileRecords]
      BY <3>2 DEF MovedAside
    <3>4. [path EXCEPT ![Last] = Missing] \in Images
      BY <3>1 DEF Images, Missing
    <3>5. QED
      BY <1>4, <3>1, <3>3, <3>4 DEF Move
  <2>3. pc' \in Places
    BY <1>4 DEF Move, Goto, Continue, Places, Trying, Undoing
  <2>4. UNCHANGED <<op, asides, index, head, lock, point, counts, failures, ownLock>> /\ SameQueue
    BY <1>4 DEF Move, Continue
  <2>5. QED
    BY <2>2, <2>3, <2>4 DEF TypeOK, SameQueue, counts, FileRecords
<1>5. CASE Install
  <2>1. Last \in Files /\ op.after[Last] \in Nat
    BY <1>5, LastIsListed DEF Install, TypeOK, Plans, Images
  <2>2. records' \in [Files -> FileRecords] /\ path' \in Images
    <3>1. records \in [Files -> FileRecords] /\ path \in Images
      BY DEF TypeOK, FileRecords
    <3>2. InstalledAt(records, Last) \in [Files -> FileRecords]
      BY <2>1, <3>1, RecordInstalled
    <3>3. [records EXCEPT ![Last].installed = TRUE] \in [Files -> FileRecords]
      BY <3>2 DEF InstalledAt
    <3>4. [path EXCEPT ![Last] = op.after[Last]] \in Images
      BY <2>1, <3>1 DEF Images
    <3>5. QED
      BY <1>5, <3>1, <3>3, <3>4 DEF Install
  <2>3. pc' \in Places
    BY <1>5 DEF Install, Goto, Continue, Places, Trying, Undoing
  <2>4. UNCHANGED <<op, asides, index, head, lock, point, counts, failures, ownLock>> /\ SameQueue
    BY <1>5 DEF Install, Continue
  <2>5. QED
    BY <2>2, <2>3, <2>4 DEF TypeOK, SameQueue, counts, FileRecords
<1>6. CASE PublishIndex
  <2>1. index' \in Indexes
    BY <1>6 DEF PublishIndex, TypeOK, Indexes, Plans
  <2>2. QED
    BY <1>6, <2>1 DEF PublishIndex, TypeOK, Goto, Continue, SameQueue, counts, Places, Undoing, Published
<1>7. QED
  BY <1>1, <1>2, <1>3, <1>4, <1>5, <1>6

LEMMA StatusType ==
  ASSUME TypeOK, NEW s \in Statuses, SetStatus(s)
  PROVE  /\ point' \in Points
         /\ UNCHANGED <<path, asides, index, head, lock, counts, alive, closing, epoch, plan, queue,
                        records, failures, ownLock>>
BY DEF SetStatus, TypeOK, Points, SameQueue, SameRecords

LEMMA EndingTypes ==
  ASSUME TypeOK, Finish \/ Applied \/ Unlock \/ Restored \/ Undone \/ StatusFails
  PROVE  TypeOK'
<1>1. CASE Finish
  <2>1. records' \in [Files -> FileRecords]
    BY <1>1, NoRecordType DEF Finish
  <2>2. QED
    BY <1>1, <2>1 DEF Finish, TypeOK, Goto, Continue, InMemory, disk, counts, FileRecords, Places, Published
<1>2. CASE Unlock
  BY <1>2, NoPlanType DEF Unlock, TypeOK, Goto, Continue, End, SameQueue, counts, Places, Published
<1>3. CASE Applied \/ Restored \/ Undone
  <2>1. PICK s \in Statuses : SetStatus(s)
    BY <1>3 DEF Applied, Restored, Undone, Statuses, TypeOK, Points
  <2>2. op' \in Plans /\ pc' \in Places
    BY <1>3, NoPlanType DEF Applied, Restored, Undone, TypeOK, Goto, Continue, End, Places, Published
  <2>3. QED
    BY <2>1, <2>2, StatusType DEF TypeOK, counts
<1>4. CASE StatusFails
  <2>1. point' \in Points
    BY <1>4 DEF StatusFails, TypeOK, Points, Statuses
  <2>2. op' \in Plans /\ pc' \in Places
    BY <1>4, NoPlanType DEF StatusFails, TypeOK, Goto, Continue, End, Places, Published
  <2>3. UNCHANGED <<path, asides, index, head, lock, work, version, requests, alive, closing, epoch, plan, queue,
                    records, failures, ownLock>> /\ troubles' = troubles + 1
    BY <1>4 DEF StatusFails, Fault, Trouble, SameQueue, SameRecords
  <2>4. QED
    BY <2>1, <2>2, <2>3 DEF TypeOK
<1>5. QED
  BY <1>1, <1>2, <1>3, <1>4

LEMMA RollbackTypes ==
  ASSUME TypeOK, Undo \/ Unlink \/ Relink \/ RollbackFails,
         pc \in {"unlink", "relink"} => Listed # {}
  PROVE  TypeOK'
<1>1. CASE Broken /\ Listed # {} /\ UNCHANGED <<work, version, requests>> /\ troubles' \in Nat
  BY <1>1, BrokenTypes DEF Broken, Continue, TypeOK, SameQueue, FileRecords
<1>2. CASE RollbackFails
  BY <1>1, <1>2 DEF RollbackFails, Fault, Trouble, TypeOK
<1>3. CASE Undo
  <2>1. CASE Broken /\ Listed # {}
    BY <1>1, <1>3, <2>1 DEF Undo, counts, TypeOK
  <2>2. CASE ~(Broken /\ Listed # {})
    BY <1>3, <2>2 DEF Undo, TypeOK, Goto, Continue, SameRecords, SameQueue, disk, counts, Places, Undoing
  <2>3. QED
    BY <2>1, <2>2
<1>4. CASE Unlink
  <2>1. CASE Broken
    BY <1>1, <1>4, <2>1 DEF Unlink, counts, TypeOK
  <2>2. CASE ~Broken
    <3>1. records' \in [Files -> FileRecords] /\ path' \in Images
      <4>1. records \in [Files -> FileRecords] /\ path \in Images /\ Last \in Files
        BY <1>4, LastIsListed DEF TypeOK, FileRecords, Unlink
      <4>a. UnlinkedAt(records, Last) \in [Files -> FileRecords]
        BY <4>1, RecordUnlinked
      <4>2. [records EXCEPT ![Last].installed = FALSE] \in [Files -> FileRecords]
        BY <4>a DEF UnlinkedAt
      <4>3. [path EXCEPT ![Last] = Missing] \in Images
        BY <4>1 DEF Images, Missing
      <4>4. QED
        BY <1>4, <2>2, <4>2, <4>3 DEF Unlink
    <3>2. QED
      BY <1>4, <2>2, <3>1 DEF Unlink, TypeOK, Goto, Continue, SameQueue, counts, FileRecords, Places, Undoing
  <2>3. QED
    BY <2>1, <2>2
<1>5. CASE Relink
  <2>1. CASE Broken
    BY <1>1, <1>5, <2>1 DEF Relink, counts, TypeOK
  <2>2. CASE ~Broken
    <3>1. Last \in Files /\ records[Last].backup \in Nat
      BY <1>5, LastIsListed DEF Relink, TypeOK
    <3>2. records' \in [Files -> FileRecords] /\ path' \in Images
      BY <1>5, <2>2, <3>1, NoRecordType DEF Relink, TypeOK, FileRecords, Images
    <3>3. QED
      BY <1>5, <2>2, <3>2 DEF Relink, TypeOK, Goto, Continue, SameQueue, counts, FileRecords, Places, Undoing
  <2>3. QED
    BY <2>1, <2>2
<1>6. QED
  BY <1>2, <1>3, <1>4, <1>5

LEMMA FaultTypes ==
  ASSUME TypeOK, StepFails \/ Crash \/ Restart
  PROVE  TypeOK'
<1>1. CASE StepFails
  <2>1. op' \in Plans /\ pc' \in Places
    BY <1>1, NoPlanType DEF StepFails, TypeOK, Goto, Continue, End, Places, Undoing
  <2>2. UNCHANGED <<disk, work, version, requests, alive, closing, epoch, plan, queue,
                    records, failures, ownLock>> /\ troubles' = troubles + 1
    BY <1>1 DEF StepFails, Fault, Trouble, SameQueue, SameRecords
  <2>3. QED
    BY <2>1, <2>2 DEF TypeOK, disk
<1>2. CASE Crash
  <2>1. asides' \in [Files -> SUBSET Nat]
    <3>1. ASSUME NEW f \in Files
          PROVE  (IF records[f].moved THEN asides[f] \cup {records[f].backup} ELSE asides[f]) \in SUBSET Nat
      BY DEF TypeOK
    <3>2. QED
      BY <1>2, <3>1 DEF Crash
  <2>2. records' \in [Files -> FileRecords] /\ plan' \in Plans /\ op' \in Plans /\ queue' \in Seq(Plans)
    BY <1>2, NoRecordType, NoPlanType DEF Crash
  <2>3. lock' \in {"free", "ours", "other", "stale"} /\ troubles' \in Nat /\ pc' \in Places
    BY <1>2 DEF Crash, TypeOK, Trouble, Places
  <2>4. alive' = FALSE /\ closing' = FALSE /\ failures' = FALSE /\ ownLock' = FALSE /\ epoch' = 0
    BY <1>2 DEF Crash
  <2>5. UNCHANGED <<path, index, head, point, work, version, requests>>
    BY <1>2 DEF Crash
  <2>6. QED
    BY <2>1, <2>2, <2>3, <2>4, <2>5 DEF TypeOK, FileRecords
<1>3. CASE Restart
  BY <1>3 DEF Restart, TypeOK, disk, counts
<1>4. QED
  BY <1>1, <1>2, <1>3

LEMMA TypeStep ==
  ASSUME TypeOK, UnderWay, [Next]_vars
  PROVE  TypeOK'
<1>1. /\ pc \in {"move", "recheck", "install"} => Listed # {}
      /\ pc \in {"unlink", "relink"} => Listed # {}
  BY DEF UnderWay
<1>2. CASE Next
  BY <1>1, <1>2, EnvironmentTypes, RequestTypes, DecidingTypes, ReplacingTypes, EndingTypes, RollbackTypes, FaultTypes
  DEF Next, Job
<1>3. CASE UNCHANGED vars
  BY <1>3 DEF vars, disk, memory, counts, TypeOK
<1>4. QED
  BY <1>2, <1>3

-----------------------------------------------------------------------------
(* What the actions leave alone, and where they lead.                      *)

\* The names of the actions, in groups.
Environment == Edit \/ GitLocks \/ GitWrites \/ RemoveStaleLock
Requests == AskPrepare \/ AskApply \/ AskRestore \/ Cancel \/ releaseOwner \/ Close
Deciding == Dequeue \/ PrepareReads \/ PrepareEnds \/ ApplyStarts \/ Create \/ RestoreStarts
Looking == Expect \/ Validate \/ Check \/ Recheck
Replacing == Write \/ Move \/ Install
Ending == Finish \/ Applied \/ Unlock \/ Restored \/ Undone \/ StatusFails
Rollback == Undo \/ Unlink \/ Relink \/ RollbackFails

LEMMA Groups ==
  Next <=> \/ Environment \/ Requests \/ Deciding \/ Lock \/ Looking \/ Replacing \/ PublishIndex
           \/ Ending \/ Rollback \/ StepFails \/ Crash \/ Restart
BY DEF Next, Job, Environment, Requests, Deciding, Looking, Replacing, Ending, Rollback

LEMMA EnvironmentFrame ==
  ASSUME Environment
  PROVE  UNCHANGED memory /\ UNCHANGED <<asides, point>>
BY DEF Environment, Edit, GitLocks, GitWrites, RemoveStaleLock

LEMMA RequestFrame ==
  ASSUME Requests
  PROVE  UNCHANGED <<disk, op, pc, records, failures, ownLock, work, version>> /\ alive /\ alive' = alive
BY DEF Requests, AskPrepare, AskApply, AskRestore, Cancel, releaseOwner, Close, JobOnly, Accept

\* Before the lock a job changes no file and has no records.
LEMMA DecidingFrame ==
  ASSUME Deciding
  PROVE  /\ UNCHANGED <<path, asides, index, head, lock, work, alive, records, failures, ownLock>> /\ alive
         /\ pc \in {"idle", "start", "prepared", "create"}
         /\ pc' \in {"idle", "start", "prepared", "create", "lock"}
<1>1. CASE Dequeue
  BY <1>1 DEF Dequeue, SameRecords, InMemory, disk, counts, Goto
<1>2. CASE PrepareReads
  BY <1>2 DEF PrepareReads, SameRecords, InMemory, disk, counts, Continue, End, Goto
<1>3. CASE PrepareEnds
  BY <1>3 DEF PrepareEnds, SameRecords, disk, End, Goto
<1>4. CASE ApplyStarts
  BY <1>4 DEF ApplyStarts, SameRecords, InMemory, disk, counts, Continue, End, Goto
<1>5. CASE Create
  BY <1>5 DEF Create, SameRecords, SameQueue, counts, Continue, Goto
<1>6. CASE RestoreStarts
  BY <1>6 DEF RestoreStarts, SameRecords, InMemory, disk, counts, End, Goto
<1>7. QED
  BY <1>1, <1>2, <1>3, <1>4, <1>5, <1>6 DEF Deciding

\* A look leaves everything as it was and goes on or to the rollback.
LEMMA LookingFrame ==
  ASSUME Looking
  PROVE  /\ UNCHANGED <<disk, alive, epoch, plan, queue, op, records, failures, ownLock, counts>> /\ alive
         /\ \/ pc = "expect" /\ pc' \in {"validate", "undo"}
            \/ pc = "validate" /\ pc' \in {"check", "undo"}
            \/ pc = "check" /\ pc' \in {"write", "undo"}
            \/ pc = "recheck" /\ pc' = "undo"
            \/ /\ pc = "recheck" /\ records[Last].backup = op.before[Last]
               /\ pc' = IF op.after[Last] = Missing THEN "write" ELSE "install"
BY DEF Looking, Expect, Validate, Check, Recheck, Look, Continue, Goto, SameRecords, InMemory

\* The steps that end a job do not touch a file.
LEMMA EndingFrame ==
  ASSUME Ending
  PROVE  /\ UNCHANGED <<path, asides, index, head, alive, closing, epoch, plan, queue, failures, work, version>> /\ alive
         /\ \/ pc = "finish" /\ pc' = (IF Discards(op) THEN "applied" ELSE "unlock") /\ records' = [f \in Files |-> NoRecord] /\ op' = op
               /\ point' = point /\ ownLock' = ownLock
            \/ pc = "applied" /\ pc' = "unlock" /\ UNCHANGED <<records, op, ownLock>>
               /\ point' \in {point, [point EXCEPT !.status = "applied"]}
            \/ pc = "unlock" /\ op.kind = "restore" /\ pc' = "restored" /\ UNCHANGED <<records, op, point>> /\ ownLock' = FALSE
            \/ pc \in {"unlock", "giveUp"} /\ pc' = "idle" /\ op' = NoPlan /\ UNCHANGED <<records, point>> /\ ownLock' = FALSE
            \/ pc = "restored" /\ pc' = "idle" /\ op' = NoPlan /\ UNCHANGED <<records, ownLock>>
               /\ point' \in {point, [point EXCEPT !.status = "restored"]}
            \/ pc = "undone" /\ pc' = "giveUp" /\ UNCHANGED <<records, op, ownLock>>
               /\ \/ point' = [point EXCEPT !.status = point.status]
                  \/ point' = point
                  \/ Discards(op) /\ point' = [point EXCEPT !.status = "needsAttention"]
                  \/ Discards(op) /\ ~failures /\ point' = [point EXCEPT !.status = "rolledBack"]
<1>1. CASE Finish
  BY <1>1 DEF Finish, Continue, Goto, InMemory, disk, counts
<1>2. CASE Applied \/ Restored
  BY <1>2 DEF Applied, Restored, Continue, End, Goto, SetStatus, SameQueue, SameRecords, counts
<1>3. CASE Unlock
  BY <1>3 DEF Unlock, Continue, End, Goto, SameQueue, counts
<1>4. CASE Undone
  BY <1>4 DEF Undone, Continue, Goto, SetStatus, SameQueue, SameRecords, counts
<1>5. CASE StatusFails
  BY <1>5 DEF StatusFails, Continue, End, Goto, Fault, SameQueue, SameRecords
<1>6. QED
  BY <1>1, <1>2, <1>3, <1>4, <1>5 DEF Ending

\* One record becomes r; one path becomes v.
SetsRecord(f, r) ==
  /\ records' \in [Files -> FileRecords] /\ records'[f] = r
  /\ \A g \in Files : g # f => records'[g] = records[g]
SetsPath(f, v) == path' \in Images /\ path'[f] = v /\ \A g \in Files : g # f => path'[g] = path[g]

LEMMA ReplacingFrame ==
  ASSUME Replacing
  PROVE  /\ UNCHANGED <<asides, index, head, lock, point, alive, closing, epoch, plan, queue, op, failures, ownLock, counts>>
         /\ alive /\ pc \in {"write", "move", "install"}
BY DEF Replacing, Write, Move, Install, Continue, Goto, InMemory, SameQueue, disk

LEMMA WriteEffect ==
  ASSUME TypeOK, Write
  PROVE  /\ path' = path
         /\ \/ Todo = {} /\ pc' = "index" /\ records' = records
            \/ \E f \in Todo :
                 /\ \A g \in Todo : f <= g
                 /\ SetsRecord(f, [listed |-> TRUE, moved |-> records[f].moved, installed |-> records[f].installed,
                                   backup |-> records[f].backup])
                 /\ pc' = IF path[f] # op.before[f] THEN "undo" ELSE IF op.before[f] = Missing THEN "install" ELSE "move"
<1>1. path' = path
  BY DEF Write, InMemory, disk
<1>2. CASE Todo = {}
  BY <1>1, <1>2 DEF Write, Continue, Goto
<1>3. CASE Todo # {}
  <2>1. Todo \in SUBSET Files
    BY DEF Todo, TypeOK, Plans
  <2>2. PICK f \in Todo : f = Min(Todo) /\ \A g \in Todo : f <= g
    BY <1>3, <2>1, FirstFile
  <2>3. records' = JustListed(records, f)
    BY <1>3, <2>2 DEF Write, JustListed
  <2>4. records \in [Files -> FileRecords] /\ f \in Files
    BY <2>1 DEF TypeOK, FileRecords
  <2>5. SetsRecord(f, [listed |-> TRUE, moved |-> records[f].moved, installed |-> records[f].installed,
                       backup |-> records[f].backup])
    BY <2>3, <2>4, RecordListed DEF SetsRecord
  <2>6. pc' = IF path[f] # op.before[f] THEN "undo" ELSE IF op.before[f] = Missing THEN "install" ELSE "move"
    BY <1>3, <2>2 DEF Write, Continue, Goto
  <2>7. QED
    BY <1>1, <2>2, <2>5, <2>6
<1>4. QED
  BY <1>2, <1>3

LEMMA MoveEffect ==
  ASSUME TypeOK, Move, NEW f \in Files, f = Last
  PROVE  \/ path[f] = Missing /\ pc' = "undo" /\ path' = path /\ records' = records
         \/ /\ path[f] # Missing /\ pc' = "recheck"
            /\ SetsPath(f, Missing)
            /\ SetsRecord(f, [listed |-> records[f].listed, moved |-> TRUE, installed |-> records[f].installed,
                              backup |-> path[f]])
<1>1. records \in [Files -> FileRecords] /\ path \in Images /\ path[f] \in Nat
  BY DEF TypeOK, FileRecords, Images
<1>2. CASE path[f] = Missing
  BY <1>2 DEF Move, Continue, Goto
<1>3. CASE path[f] # Missing
  <2>1. pc' = "recheck" /\ path' = [path EXCEPT ![f] = Missing]
    BY <1>3 DEF Move, Continue, Goto
  <2>2. SetsPath(f, Missing)
    BY <1>1, <2>1 DEF SetsPath, Images, Missing
  <2>3. records' = MovedAside(records, f, path[f])
    BY <1>3 DEF Move, MovedAside
  <2>4. SetsRecord(f, [listed |-> records[f].listed, moved |-> TRUE, installed |-> records[f].installed,
                       backup |-> path[f]])
    BY <1>1, <2>3, RecordMoved DEF SetsRecord
  <2>5. QED
    BY <1>3, <2>1, <2>2, <2>4
<1>4. QED
  BY <1>2, <1>3

LEMMA InstallEffect ==
  ASSUME TypeOK, Install, NEW f \in Files, f = Last
  PROVE  \/ pc' = "undo" /\ path' = path /\ records' = records
         \/ /\ path[f] = Missing /\ pc' = "write"
            /\ SetsPath(f, op.after[f])
            /\ SetsRecord(f, [listed |-> records[f].listed, moved |-> records[f].moved, installed |-> TRUE,
                              backup |-> records[f].backup])
<1>1. records \in [Files -> FileRecords] /\ path \in Images /\ op.after[f] \in Nat
  BY DEF TypeOK, FileRecords, Images, Plans
<1>2. CASE path[f] # Missing
  BY <1>2 DEF Install, Continue, Goto
<1>3. CASE path[f] = Missing
  <2>1. pc' = "write" /\ path' = [path EXCEPT ![f] = op.after[f]]
    BY <1>3 DEF Install, Continue, Goto
  <2>2. SetsPath(f, op.after[f])
    BY <1>1, <2>1 DEF SetsPath, Images
  <2>3. records' = InstalledAt(records, f)
    BY <1>3 DEF Install, InstalledAt
  <2>4. SetsRecord(f, [listed |-> records[f].listed, moved |-> records[f].moved, installed |-> TRUE,
                       backup |-> records[f].backup])
    BY <1>1, <2>3, RecordInstalled DEF SetsRecord
  <2>5. QED
    BY <1>3, <2>1, <2>2, <2>4
<1>4. QED
  BY <1>2, <1>3

\* The rollback of a file that fails keeps its backup beside the file.
LEMMA BrokenEffect ==
  ASSUME TypeOK, Broken, NEW f \in Files, f = Last
  PROVE  /\ pc' = "undo" /\ path' = path /\ failures' = TRUE
         /\ SetsRecord(f, NoRecord)
         /\ asides'[f] = IF records[f].moved THEN asides[f] \cup {records[f].backup} ELSE asides[f]
         /\ \A g \in Files : g # f => asides'[g] = asides[g]
<1>1. records \in [Files -> FileRecords] /\ asides \in [Files -> SUBSET Nat]
  BY DEF TypeOK, FileRecords
<1>2. SetsRecord(f, NoRecord)
  BY <1>1, NoRecordType DEF SetsRecord, Broken
<1>3. QED
  BY <1>1, <1>2 DEF Broken, Continue, Goto

LEMMA UnlinkEffect ==
  ASSUME TypeOK, Unlink, NEW f \in Files, f = Last
  PROVE  \/ Broken
         \/ /\ path[f] # Missing /\ pc' = "relink" /\ SetsPath(f, Missing)
            /\ UNCHANGED <<asides, failures>>
            /\ SetsRecord(f, [listed |-> records[f].listed, moved |-> records[f].moved, installed |-> FALSE,
                              backup |-> records[f].backup])
<1>1. records \in [Files -> FileRecords] /\ path \in Images
  BY DEF TypeOK, FileRecords
<1>2. CASE path[f] # Missing
  <2>1. pc' = "relink" /\ path' = [path EXCEPT ![f] = Missing] /\ UNCHANGED <<asides, failures>>
    BY <1>2 DEF Unlink, Continue, Goto
  <2>2. SetsPath(f, Missing)
    BY <1>1, <2>1 DEF SetsPath, Images, Missing
  <2>3. records' = UnlinkedAt(records, f)
    BY <1>2 DEF Unlink, UnlinkedAt
  <2>4. SetsRecord(f, [listed |-> records[f].listed, moved |-> records[f].moved, installed |-> FALSE,
                       backup |-> records[f].backup])
    BY <1>1, <2>3, RecordUnlinked DEF SetsRecord
  <2>5. QED
    BY <1>2, <2>1, <2>2, <2>4
<1>3. QED
  BY <1>2 DEF Unlink

LEMMA RelinkEffect ==
  ASSUME TypeOK, Relink, NEW f \in Files, f = Last
  PROVE  \/ Broken
         \/ /\ ~(records[f].moved /\ path[f] # Missing) /\ pc' = "undo" /\ UNCHANGED <<asides, failures>>
            /\ SetsPath(f, IF records[f].moved THEN records[f].backup ELSE path[f])
            /\ SetsRecord(f, NoRecord)
<1>1. records \in [Files -> FileRecords] /\ path \in Images /\ records[f].backup \in Nat
  BY DEF TypeOK, FileRecords
<1>2. CASE ~(records[f].moved /\ path[f] # Missing)
  <2>1. /\ pc' = "undo" /\ UNCHANGED <<asides, failures>> /\ records' = [records EXCEPT ![f] = NoRecord]
        /\ path' = IF records[f].moved THEN [path EXCEPT ![f] = records[f].backup] ELSE path
    BY <1>2 DEF Relink, Continue, Goto
  <2>2. SetsPath(f, IF records[f].moved THEN records[f].backup ELSE path[f])
    BY <1>1, <2>1 DEF SetsPath, Images
  <2>3. SetsRecord(f, NoRecord)
    BY <1>1, <2>1, NoRecordType DEF SetsRecord
  <2>4. QED
    BY <1>2, <2>1, <2>2, <2>3
<1>3. QED
  BY <1>2 DEF Relink

LEMMA RollbackFrame ==
  ASSUME Rollback
  PROVE  /\ UNCHANGED <<index, head, lock, point, alive, closing, epoch, plan, queue, op, ownLock, work, version>>
         /\ alive /\ pc \in {"undo", "unlink", "relink"}
<1>1. CASE Broken /\ UNCHANGED <<work, version>>
  BY <1>1 DEF Broken, Rollback, Undo, Unlink, Relink, RollbackFails, Continue, Goto, SameQueue
<1>2. CASE ~(Broken /\ UNCHANGED <<work, version>>)
  BY <1>2 DEF Rollback, Undo, Unlink, Relink, RollbackFails, Fault, Continue, Goto, SameQueue, SameRecords, disk, counts
<1>3. QED
  BY <1>1, <1>2

\* A step of the rollback either finds a file it cannot put back, or finds out
\* what to do, or does it.
LEMMA RollbackEffect ==
  ASSUME TypeOK, UnderWay, Rollback
  PROVE  \/ Broken /\ Listed # {}
         \/ /\ pc = "undo" /\ UNCHANGED <<path, records, asides, failures>>
            /\ \/ Listed = {} /\ pc' = "undone"
               \/ /\ Listed # {} /\ records[Last].installed /\ path[Last] = op.after[Last] /\ pc' = "unlink"
               \/ Listed # {} /\ ~records[Last].installed /\ pc' = "relink"
         \/ Unlink /\ ~Broken /\ pc = "unlink"
         \/ Relink /\ ~Broken /\ pc = "relink"
<1>1. pc \in {"unlink", "relink"} => Listed # {}
  BY DEF UnderWay
<1>2. CASE Undo
  BY <1>2 DEF Undo, Continue, Goto, SameRecords, disk
<1>3. CASE Unlink
  BY <1>1, <1>3 DEF Unlink
<1>4. CASE Relink
  BY <1>1, <1>4 DEF Relink
<1>5. CASE RollbackFails
  BY <1>5 DEF RollbackFails
<1>6. QED
  BY <1>2, <1>3, <1>4, <1>5 DEF Rollback

-----------------------------------------------------------------------------
(* Which job may stand where.                                              *)

LEMMA PlacedStep ==
  ASSUME TypeOK, Placed, UnderWay, \A f \in Files : RecordIsSound(f), Next
  PROVE  Placed'
<1> USE DEF Placed
<1>1. CASE Environment
  BY <1>1, EnvironmentFrame DEF memory, Discards
<1>2. CASE Requests
  BY <1>2, RequestFrame DEF Discards
<1>3. CASE Deciding
  <2>1. records = [f \in Files |-> NoRecord] /\ records' = records /\ alive'
    BY <1>3, DecidingFrame DEF Recording, Trying
  <2>2. pc' = "idle" => op' = NoPlan
    BY <1>3 DEF Deciding, Dequeue, PrepareReads, PrepareEnds, ApplyStarts, Create, RestoreStarts, Continue, End, Goto
  <2>3. pc' = "prepared" => op'.kind = "prepare"
    BY <1>3 DEF Deciding, Dequeue, PrepareReads, PrepareEnds, ApplyStarts, Create, RestoreStarts, Continue, End, Goto
  <2>4. pc' = "create" => Discards(op)'
    BY <1>3 DEF Deciding, Dequeue, PrepareReads, PrepareEnds, ApplyStarts, Create, RestoreStarts, Continue, End, Goto,
                Discards
  <2>5. pc' = "lock" => op'.kind \in {"apply", "restore"}
    <3>1. CASE RestoreStarts
      BY <3>1 DEF RestoreStarts, End, Goto, TypeOK, Plans
    <3>2. CASE ~RestoreStarts
      BY <1>3, <3>2 DEF Deciding, Dequeue, PrepareReads, PrepareEnds, ApplyStarts, Create, Continue, End, Goto, Discards
    <3>3. QED
      BY <3>1, <3>2
  <2>6. pc' \in {"idle", "start", "prepared", "create", "lock"}
    BY <1>3, DecidingFrame
  <2>7. QED
    BY <2>1, <2>2, <2>3, <2>4, <2>5, <2>6 DEF Started, Trying, Undoing, Published
<1>4. CASE Lock
  BY <1>4 DEF Lock, Continue, End, Goto, SameQueue, Started, Trying, Undoing, Published, Recording
<1>5. CASE Looking
  BY <1>5, LookingFrame DEF Started, Trying, Undoing, Published, Recording
<1>6. CASE Replacing
  <2>1. pc' \in {"index", "undo", "install", "move", "recheck", "write"}
    BY <1>6 DEF Replacing, Write, Move, Install, Continue, Goto
  <2>2. QED
    BY <1>6, <2>1, ReplacingFrame DEF Started, Trying, Undoing, Published, Recording
<1>7. CASE PublishIndex
  BY <1>7 DEF PublishIndex, Continue, Goto, SameQueue, Started, Trying, Undoing, Published, Recording
<1>8. CASE Ending
  BY <1>8, EndingFrame DEF Started, Trying, Undoing, Published, Recording
<1>9. CASE Rollback
  <2>1. pc' \in {"undo", "unlink", "relink", "undone"}
    BY <1>9, RollbackEffect DEF Broken, Unlink, Relink, Continue, Goto
  <2>2. pc' = "undone" => records' = [f \in Files |-> NoRecord]
    <3> SUFFICES ASSUME pc' = "undone" PROVE records' = [f \in Files |-> NoRecord]
      OBVIOUS
    <3>1. Listed = {} /\ records' = records
      BY <1>9, RollbackEffect DEF Broken, Unlink, Relink, Continue, Goto
    <3>2. ASSUME NEW f \in Files PROVE records[f] = NoRecord
      BY <3>1 DEF Listed, RecordIsSound
    <3>3. QED
      BY <3>1, <3>2 DEF TypeOK
  <2>3. QED
    BY <1>9, <2>1, <2>2, RollbackFrame DEF Started, Trying, Undoing, Published, Recording
<1>10. CASE StepFails
  BY <1>10 DEF StepFails, Continue, End, Goto, SameQueue, SameRecords, Started, Trying, Undoing, Published, Recording
<1>11. CASE Crash
  BY <1>11 DEF Crash, Started, Trying, Undoing, Published, Recording
<1>12. CASE Restart
  BY <1>12 DEF Restart, disk, counts, Discards
<1>13. QED
  BY <1>1, <1>2, <1>3, <1>4, <1>5, <1>6, <1>7, <1>8, <1>9, <1>10, <1>11, <1>12, Groups

-----------------------------------------------------------------------------
(* Versions and plans.                                                     *)

\* What an editor writes is new to everything made before.
EditorsWriteNew ==
  /\ version' >= version
  /\ \A f \in Files : work'[f] \in {work[f], Missing} \/ work'[f] > version

LEMMA EditorsStep ==
  ASSUME TypeOK, Next
  PROVE  EditorsWriteNew
<1>1. CASE Edit
  BY <1>1 DEF Edit, TypeOK, EditorsWriteNew, Images
<1>2. CASE GitWrites
  BY <1>2 DEF GitWrites, TypeOK, EditorsWriteNew
<1>3. CASE PrepareEnds
  BY <1>3 DEF PrepareEnds, TypeOK, EditorsWriteNew
<1>4. CASE ~(Edit \/ GitWrites \/ PrepareEnds)
  <2>1. UNCHANGED <<work, version>>
    <3>1. CASE GitLocks \/ RemoveStaleLock
      BY <3>1 DEF GitLocks, RemoveStaleLock, counts
    <3>2. CASE Requests
      BY <3>2, RequestFrame
    <3>3. CASE Deciding
      BY <1>4, <3>3 DEF Deciding, Dequeue, PrepareReads, ApplyStarts, Create, RestoreStarts, InMemory, counts
    <3>4. CASE Lock \/ PublishIndex
      BY <3>4 DEF Lock, PublishIndex, counts
    <3>5. CASE Looking \/ Replacing \/ Ending \/ Rollback
      BY <3>5, LookingFrame, ReplacingFrame, EndingFrame, RollbackFrame DEF counts
    <3>6. CASE StepFails \/ Crash \/ Restart
      BY <3>6 DEF StepFails, Crash, Restart, Fault, counts
    <3>7. QED
      BY <1>4, <3>1, <3>2, <3>3, <3>4, <3>5, <3>6, Groups DEF Environment
  <2>2. QED
    BY <2>1 DEF EditorsWriteNew, TypeOK
<1>5. QED
  BY <1>1, <1>2, <1>3, <1>4

LEMMA PlanStaysSound ==
  ASSUME TypeOK, EditorsWriteNew, NEW p \in Plans, PlanIsSound(p, version, work), version' \in Nat
  PROVE  PlanIsSound(p, version', work')
<1>1. ASSUME NEW f \in Files
      PROVE  /\ p.before[f] \in Nat /\ p.after[f] \in Nat
             /\ p.before[f] <= version' /\ p.after[f] <= version'
  <2>1. p.before[f] \in Nat /\ p.after[f] \in Nat /\ version \in Nat
    BY DEF TypeOK, Plans, Images
  <2>2. p.before[f] <= version /\ p.after[f] <= version /\ version' >= version
    BY Zenon DEF PlanIsSound, EditorsWriteNew
  <2>3. QED
    BY <2>1, <2>2
<1>2. ASSUME NEW f \in Files, p.after[f] # Missing, p.after[f] # work[f]
      PROVE  p.after[f] # work'[f]
  BY <1>1, <1>2 DEF PlanIsSound, EditorsWriteNew, TypeOK
<1>3. QED
  BY <1>1, <1>2 DEF PlanIsSound

LEMMA NoPlanIsSound == \A v \in Nat : \A w : PlanIsSound(NoPlan, v, w)
BY DEF PlanIsSound, NoPlan, NoFiles, Missing

LEMMA PreparedIsSound ==
  ASSUME TypeOK, VersionsAreGiven, PlanIsSound(op, version, work), PrepareEnds, op.kind = "prepare"
  PROVE  PlanIsSound(plan', version', work') \/ plan' = plan
<1>1. CASE plan' = plan
  BY <1>1
<1>2. CASE plan' # plan
  <2> DEFINE after == [f \in Files |-> IF f \notin op.paths \/ op.action = "stage" THEN path[f]
                                       ELSE IF f \in Untracked THEN Missing ELSE version + 1]
             next == IF op.action = "discard" THEN index.sel ELSE version + 1
  <2>1. Current /\ version' = version + 1 /\ work' = work
        /\ plan' = [op EXCEPT !.kind = "apply", !.after = after, !.next = next]
    BY <1>2 DEF PrepareEnds
  <2> HIDE DEF after, next
  <2>2. /\ plan'.kind = "apply" /\ plan'.paths = op.paths /\ plan'.action = op.action
        /\ plan'.before = path /\ plan'.after = after
    BY <2>1 DEF Current, TypeOK, Plans
  <2>3. op.paths # {} /\ op.action # "none"
    BY DEF PlanIsSound
  <2>4. ASSUME NEW f \in Files
        PROVE  /\ path[f] <= version' /\ after[f] <= version'
               /\ IF f \notin op.paths \/ op.action = "stage" THEN after[f] = path[f]
                  ELSE after[f] = Missing \/ after[f] \notin {path[f], work'[f]}
    BY <2>1 DEF after, VersionsAreGiven, TypeOK, Images, Missing
  <2>5. QED
    BY <2>2, <2>3, <2>4 DEF PlanIsSound
<1>3. QED
  BY <1>1, <1>2

LEMMA QueueStep ==
  ASSUME TypeOK, Next
  PROVE  \/ queue' = queue \/ queue' = <<>>
         \/ queue # <<>> /\ Dequeue /\ queue' = Tail(queue) /\ op' = Head(queue)
         \/ \E p \in Plans : /\ queue' = Append(queue, p)
                             /\ \/ p = plan /\ plan.kind = "apply" /\ OneDiscard /\ UNCHANGED <<op, point>>
                                \/ /\ p.kind = "prepare" /\ p.action # "none" /\ p.paths # {} /\ p.before = path
                                   /\ p.after = NoFiles /\ UNCHANGED <<op, point>>
                                \/ p.kind = "restore" /\ p.before = NoFiles /\ p.after = NoFiles /\ UNCHANGED <<op, point>>
<1>1. CASE AskPrepare
  <2>1. PICK a \in Actions \ {"none"}, P \in Selections :
          queue' = Append(queue, [NoPlan EXCEPT !.kind = "prepare", !.action = a, !.paths = P, !.before = path,
                                                !.index = index, !.head = head, !.epoch = epoch])
    BY <1>1 DEF AskPrepare
  <2>2. PICK p : p = [NoPlan EXCEPT !.kind = "prepare", !.action = a, !.paths = P, !.before = path,
                                    !.index = index, !.head = head, !.epoch = epoch]
    OBVIOUS
  <2>3. p \in Plans /\ p.kind = "prepare" /\ p.action # "none" /\ p.paths # {} /\ p.before = path /\ p.after = NoFiles
    BY <2>2, BoundsAssumption, NoPlanType DEF NoPlan, Plans, TypeOK
  <2>4. QED
    BY <1>1, <2>1, <2>2, <2>3, RequestFrame DEF Requests, disk
<1>2. CASE AskRestore
  <2>1. PICK p : p = [NoPlan EXCEPT !.kind = "restore", !.head = head]
    OBVIOUS
  <2>2. p \in Plans /\ p.kind = "restore" /\ p.before = NoFiles /\ p.after = NoFiles
    BY <2>1, NoPlanType DEF NoPlan, Plans, TypeOK
  <2>3. queue' = Append(queue, p)
    BY <1>2, <2>1 DEF AskRestore
  <2>4. QED
    BY <1>2, <2>2, <2>3, RequestFrame DEF Requests, disk
<1>3. CASE AskApply
  <2>1. plan \in Plans /\ queue' = Append(queue, plan) /\ plan.kind = "apply" /\ OneDiscard
    BY <1>3 DEF AskApply, TypeOK
  <2>2. QED
    BY <1>3, <2>1, RequestFrame DEF Requests, disk
<1>4. CASE Dequeue
  BY <1>4 DEF Dequeue
<1>5. CASE ~(AskPrepare \/ AskRestore \/ AskApply \/ Dequeue)
  <2>1. CASE Environment
    BY <2>1, EnvironmentFrame DEF memory
  <2>2. CASE Requests
    BY <1>5, <2>2 DEF Requests, Cancel, releaseOwner, Close
  <2>3. CASE Deciding
    BY <1>5, <2>3 DEF Deciding, PrepareReads, PrepareEnds, ApplyStarts, Create, RestoreStarts, SameQueue
  <2>4. CASE Lock \/ PublishIndex \/ StepFails \/ Crash \/ Restart
    BY <2>4 DEF Lock, PublishIndex, StepFails, Crash, Restart, SameQueue
  <2>5. CASE Looking \/ Replacing \/ Ending \/ Rollback
    BY <2>5, LookingFrame, ReplacingFrame, EndingFrame, RollbackFrame
  <2>6. QED
    BY <2>1, <2>2, <2>3, <2>4, <2>5, Groups
<1>6. QED
  BY <1>1, <1>2, <1>3, <1>4, <1>5

LEMMA PlansStep ==
  ASSUME TypeOK, TypeOK', PlansAreSound, VersionsAreGiven, PointIsOfJob, Placed, Next
  PROVE  PlansAreSound'
<1>0. EditorsWriteNew /\ version' \in Nat /\ version \in Nat
  BY EditorsStep DEF TypeOK
<1>1. PlanIsSound(plan, version', work') /\ PlanIsSound(op, version', work')
  BY <1>0, PlanStaysSound DEF TypeOK, PlansAreSound
<1>2. ASSUME NEW i \in DOMAIN queue
      PROVE  queue[i] \in Plans /\ PlanIsSound(queue[i], version', work')
  <2>1. queue[i] \in Plans
    BY <1>2 DEF TypeOK
  <2>2. QED
    BY <1>0, <2>1, PlanStaysSound DEF PlansAreSound
<1>3. PlanIsSound(NoPlan, version', work')
  BY <1>0, NoPlanIsSound
<1>4. PlanIsSound(plan', version', work')
  <2>1. CASE PrepareEnds
    <3>1. op.kind = "prepare"
      BY <2>1 DEF Placed, PrepareEnds
    <3>2. QED
      BY <1>1, <2>1, <3>1, PreparedIsSound DEF PlansAreSound
  <2>2. CASE ~PrepareEnds
    <3>1. plan' \in {plan, NoPlan}
      <4>1. CASE Environment
        BY <4>1, EnvironmentFrame DEF memory
      <4>2. CASE Requests
        BY <4>2 DEF Requests, AskPrepare, AskApply, AskRestore, Cancel, releaseOwner, Close
      <4>3. CASE Deciding
        BY <2>2, <4>3 DEF Deciding, Dequeue, PrepareReads, ApplyStarts, Create, RestoreStarts, SameQueue
      <4>4. CASE Lock \/ PublishIndex \/ StepFails \/ Crash \/ Restart
        BY <4>4 DEF Lock, PublishIndex, StepFails, Crash, Restart, SameQueue
      <4>5. CASE Looking \/ Replacing \/ Ending \/ Rollback
        BY <4>5, LookingFrame, ReplacingFrame, EndingFrame, RollbackFrame
      <4>6. QED
        BY <4>1, <4>2, <4>3, <4>4, <4>5, Groups
    <3>2. QED
      BY <1>1, <1>3, <3>1
  <2>3. QED
    BY <2>1, <2>2
<1>5. PlanIsSound(op', version', work')
  <2>1. CASE RestoreStarts /\ op' # NoPlan
    <3>1. /\ op' = [op EXCEPT !.paths = point.paths, !.before = path, !.index = index, !.next = point.indexBefore,
                              !.after = [f \in Files |-> IF f \in point.paths THEN point.before[f] ELSE path[f]]]
          /\ op.kind = "restore" /\ version' = version
      BY <2>1 DEF RestoreStarts, End, InMemory, counts
    <3>2. /\ op'.kind = "restore" /\ op'.before = path
          /\ op'.after = [f \in Files |-> IF f \in point.paths THEN point.before[f] ELSE path[f]]
      BY <3>1 DEF TypeOK, Plans
    <3>3. ASSUME NEW f \in Files
          PROVE  op'.before[f] <= version' /\ op'.after[f] <= version'
      BY <3>1, <3>2 DEF VersionsAreGiven
    <3>4. QED
      BY <3>2, <3>3 DEF PlanIsSound
  <2>2. CASE Dequeue
    <3>1. op' = queue[1] /\ 1 \in DOMAIN queue
      BY <2>2 DEF Dequeue, TypeOK
    <3>2. QED
      BY <1>2, <3>1
  <2>3. CASE ~(RestoreStarts /\ op' # NoPlan) /\ ~Dequeue
    <3>1. op' \in {op, NoPlan}
      <4>1. CASE Environment
        BY <4>1, EnvironmentFrame DEF memory
      <4>2. CASE Requests
        BY <4>2, RequestFrame
      <4>3. CASE Deciding
        BY <2>3, <4>3 DEF Deciding, PrepareReads, PrepareEnds, ApplyStarts, Create, Continue, End
      <4>4. CASE Lock \/ PublishIndex \/ StepFails \/ Crash \/ Restart
        BY <4>4 DEF Lock, PublishIndex, StepFails, Crash, Restart, Continue, End
      <4>5. CASE Looking \/ Replacing \/ Ending \/ Rollback
        BY <4>5, LookingFrame, ReplacingFrame, EndingFrame, RollbackFrame
      <4>6. QED
        BY <4>1, <4>2, <4>3, <4>4, <4>5, Groups
    <3>2. QED
      BY <1>1, <1>3, <3>1
  <2>4. QED
    BY <2>1, <2>2, <2>3
<1>6. ASSUME NEW i \in DOMAIN queue'
      PROVE  PlanIsSound(queue'[i], version', work')
  <2>1. CASE queue' = queue \/ queue' = <<>>
    BY <1>2, <1>6, <2>1
  <2>2. CASE queue # <<>> /\ queue' = Tail(queue)
    <3>1. i + 1 \in DOMAIN queue /\ queue'[i] = queue[i + 1]
      BY <1>6, <2>2 DEF TypeOK
    <3>2. QED
      BY <1>2, <3>1
  <2>3. ASSUME NEW p \in Plans, queue' = Append(queue, p), PlanIsSound(p, version', work')
        PROVE  PlanIsSound(queue'[i], version', work')
    <3>1. CASE i \in DOMAIN queue
      BY <1>2, <2>3, <3>1 DEF TypeOK
    <3>2. CASE i \notin DOMAIN queue
      <4>1. queue'[i] = p
        BY <1>6, <2>3, <3>2 DEF TypeOK
      <4>2. QED
        BY <2>3, <4>1
    <3>3. QED
      BY <3>1, <3>2
  <2>4. ASSUME NEW p \in Plans, p.kind = "prepare", p.action # "none", p.paths # {}, p.before = path, p.after = NoFiles
        PROVE  PlanIsSound(p, version', work')
    <3>1. PlanIsSound(p, version, work)
      BY <2>4 DEF PlanIsSound, VersionsAreGiven, NoFiles, Missing, TypeOK
    <3>2. QED
      BY <1>0, <3>1, PlanStaysSound
  <2>5. ASSUME NEW p \in Plans, p.kind = "restore", p.before = NoFiles, p.after = NoFiles
        PROVE  PlanIsSound(p, version', work')
    BY <1>0, <2>5 DEF PlanIsSound, NoFiles, Missing
  <2>6. QED
    BY <1>1, <2>1, <2>2, <2>3, <2>4, <2>5, QueueStep
<1>7. QED
  BY <1>4, <1>5, <1>6 DEF PlansAreSound

LEMMA EditEffect ==
  ASSUME TypeOK, Edit
  PROVE  /\ UNCHANGED memory /\ UNCHANGED <<asides, index, head, lock, point>>
         /\ \E f \in Files, v \in Nat :
              /\ (v = Missing /\ version' = version) \/ (v = version + 1 /\ version' = v)
              /\ EditInUnlink \/ v = Missing \/ ~(pc = "unlink" /\ f = Last)
              /\ SetsPath(f, v) /\ work' \in Images /\ work'[f] = v
              /\ work' = [work EXCEPT ![f] = v]
              /\ \A g \in Files : g # f => work'[g] = work[g]
<1>1. PICK f \in Files, v \in {version + 1, Missing} :
        /\ EditInUnlink \/ v = Missing \/ ~(pc = "unlink" /\ f = Last)
        /\ path' = [path EXCEPT ![f] = v] /\ work' = [work EXCEPT ![f] = v]
        /\ version' = IF v = Missing THEN version ELSE v
  BY DEF Edit
<1>2. version \in Nat /\ path \in Images /\ work \in Images
  BY DEF TypeOK
<1>3. v \in Nat
  BY <1>2 DEF Missing
<1>4. SetsPath(f, v) /\ work' \in Images /\ work'[f] = v /\ \A g \in Files : g # f => work'[g] = work[g]
  BY <1>1, <1>2, <1>3 DEF SetsPath, Images
<1>5. (v = Missing /\ version' = version) \/ (v = version + 1 /\ version' = v)
  <2>1. CASE v = Missing
    BY <1>1, <2>1
  <2>2. CASE v = version + 1
    <3>1. v # Missing
      BY <1>2, <2>2 DEF Missing
    <3>2. QED
      BY <1>1, <2>2, <3>1
  <2>3. QED
    BY <1>1, <2>1, <2>2
<1>6. UNCHANGED memory /\ UNCHANGED <<asides, index, head, lock, point>>
  BY DEF Edit
<1>7. QED
  BY <1>1, <1>3, <1>4, <1>5, <1>6

\* How a step changes a path: not at all; an editor writes; or the job does, at
\* the file of the last record, for which its place tells what it may do.
LEMMA FileStep ==
  ASSUME TypeOK, UnderWay, Next
  PROVE  \/ path' = path /\ records' = records /\ (work' = work \/ Edit)
         \/ Edit /\ UNCHANGED <<records, pc, op, point, asides, failures>>
         \/ work' = work /\ Write /\ path' = path
         \/ \E f \in Files :
              /\ Listed # {} /\ f = Last /\ work' = work /\ UNCHANGED <<op, point>>
              /\ \/ Move /\ pc = "move"
                 \/ Install /\ pc = "install"
                 \/ Broken
                 \/ Unlink /\ pc = "unlink" /\ ~Broken
                 \/ Relink /\ pc = "relink" /\ ~Broken
         \/ path' = path /\ work' = work /\ records' = [f \in Files |-> NoRecord] /\ (Crash \/ Finish)
<1>1. CASE Environment
  BY <1>1, EnvironmentFrame DEF Environment, GitLocks, GitWrites, RemoveStaleLock, memory, counts
<1>2. CASE Requests
  BY <1>2, RequestFrame DEF disk
<1>3. CASE Deciding
  BY <1>3, DecidingFrame
<1>4. CASE Lock \/ PublishIndex
  BY <1>4 DEF Lock, PublishIndex, counts
<1>5. CASE Looking
  BY <1>5, LookingFrame DEF disk, counts
<1>6. CASE Replacing
  <2>1. work' = work /\ UNCHANGED <<op, point>>
    BY <1>6, ReplacingFrame DEF counts
  <2>2. CASE Write
    BY <2>1, <2>2, WriteEffect
  <2>3. CASE Move \/ Install
    <3>1. Listed # {} /\ pc \in {"move", "install"}
      BY <2>3 DEF UnderWay, Move, Install
    <3>2. QED
      BY <2>1, <2>3, <3>1, LastIsListed DEF Move, Install
  <2>4. QED
    BY <1>6, <2>2, <2>3 DEF Replacing
<1>7. CASE Ending
  <2>1. CASE Finish
    BY <1>7, <2>1, EndingFrame DEF Finish
  <2>2. CASE ~Finish
    <3>1. records' = records
      BY <1>7, <2>2 DEF Ending, Applied, Unlock, Restored, Undone, StatusFails, SetStatus, SameRecords
    <3>2. QED
      BY <1>7, <3>1, EndingFrame
  <2>3. QED
    BY <2>1, <2>2
<1>8. CASE Rollback
  <2>1. work' = work /\ UNCHANGED <<op, point>>
    BY <1>8, RollbackFrame
  <2>2. pc \in {"unlink", "relink"} => Listed # {}
    BY DEF UnderWay
  <2>3. QED
    BY <1>8, <2>1, <2>2, RollbackEffect, LastIsListed
<1>9. CASE StepFails \/ Restart
  BY <1>9 DEF StepFails, Restart, Fault, SameRecords, disk, counts
<1>10. CASE Crash
  BY <1>10 DEF Crash
<1>11. QED
  BY <1>1, <1>2, <1>3, <1>4, <1>5, <1>6, <1>7, <1>8, <1>9, <1>10, Groups

LEMMA PointStep ==
  ASSUME TypeOK, Next
  PROVE  \/ point' = point
         \/ Create
         \/ /\ Ending /\ \E s \in Statuses \ {"none", "prepared"} : point' = [point EXCEPT !.status = s]
         \/ Undone /\ point' = [point EXCEPT !.status = point.status]
<1>1. CASE Environment \/ Requests \/ Looking \/ Replacing \/ Rollback
  BY <1>1, EnvironmentFrame, RequestFrame, LookingFrame, ReplacingFrame, RollbackFrame DEF disk
<1>2. CASE Deciding
  BY <1>2 DEF Deciding, Dequeue, PrepareReads, PrepareEnds, ApplyStarts, RestoreStarts, InMemory, disk
<1>3. CASE Lock \/ PublishIndex \/ StepFails \/ Crash \/ Restart
  BY <1>3 DEF Lock, PublishIndex, StepFails, Crash, Restart, disk
<1>4. CASE Ending
  BY <1>4 DEF Ending, Finish, Applied, Unlock, Restored, Undone, StatusFails, SetStatus, InMemory, disk, Statuses
<1>5. QED
  BY <1>1, <1>2, <1>3, <1>4, Groups

LEMMA VersionsStep ==
  ASSUME TypeOK, TypeOK', PlansAreSound, VersionsAreGiven, UnderWay, Next
  PROVE  VersionsAreGiven'
<1>0. EditorsWriteNew /\ version' \in Nat /\ version \in Nat
  BY EditorsStep DEF TypeOK
<1>1. ASSUME NEW f \in Files
      PROVE  /\ path[f] \in Nat /\ path'[f] \in Nat /\ work[f] \in Nat /\ work'[f] \in Nat
             /\ records[f].backup \in Nat /\ records'[f].backup \in Nat
             /\ point.before[f] \in Nat /\ point.after[f] \in Nat
             /\ op.before[f] \in Nat /\ op.after[f] \in Nat
             /\ path[f] <= version' /\ work[f] <= version' /\ records[f].backup <= version'
             /\ point.before[f] <= version' /\ point.after[f] <= version'
             /\ op.before[f] <= version' /\ op.after[f] <= version'
  <2>1. /\ path[f] \in Nat /\ path'[f] \in Nat /\ work[f] \in Nat /\ work'[f] \in Nat
        /\ records[f].backup \in Nat /\ records'[f].backup \in Nat
    BY DEF TypeOK, Images
  <2>2. point.before[f] \in Nat /\ point.after[f] \in Nat /\ op.before[f] \in Nat /\ op.after[f] \in Nat
    BY DEF TypeOK, Points, Plans, Images
  <2>3. /\ path[f] <= version /\ work[f] <= version /\ records[f].backup <= version
        /\ point.before[f] <= version /\ point.after[f] <= version
        /\ op.before[f] <= version /\ op.after[f] <= version /\ version' >= version
    BY <1>0 DEF VersionsAreGiven, PlansAreSound, PlanIsSound, EditorsWriteNew
  <2>4. QED
    BY <1>0, <2>1, <2>2, <2>3
<1>2. ASSUME NEW f \in Files
      PROVE  work'[f] <= version'
  <2>1. CASE work'[f] \in {work[f], Missing}
    BY <1>0, <1>1, <2>1 DEF Missing
  <2>2. CASE Edit
    BY <1>0, <1>1, <2>2, EditEffect DEF Missing
  <2>3. CASE work' = work
    BY <1>1, <2>3
  <2>4. QED
    BY <2>2, <2>3, FileStep
<1>3. ASSUME NEW g \in Files
      PROVE  path'[g] <= version' /\ records'[g].backup <= version'
  <2>1. CASE path' = path /\ records' = records
    BY <1>1, <2>1
  <2>2. CASE Edit
    BY <1>0, <1>1, <1>2, <2>2, EditEffect DEF SetsPath, memory
  <2>3. CASE Write
    <3>1. CASE records' = records
      BY <1>1, <2>3, <3>1, WriteEffect
    <3>2. ASSUME NEW f \in Files,
                 SetsRecord(f, [listed |-> TRUE, moved |-> records[f].moved, installed |-> records[f].installed,
                                backup |-> records[f].backup])
          PROVE  records'[g].backup = records[g].backup
      BY <3>2 DEF SetsRecord
    <3>3. Todo \subseteq Files
      BY DEF Todo, TypeOK, Plans
    <3>4. QED
      BY <1>1, <2>3, <3>1, <3>2, <3>3, WriteEffect
  <2>4. ASSUME NEW f \in Files, f = Last, Move \/ Install \/ Broken \/ Unlink \/ Relink
        PROVE  /\ path'[g] \in {path[g], op.after[g], records[g].backup, Missing}
               /\ records'[g].backup \in {records[g].backup, path[g], Missing}
    <3> DEFINE r == records[f]
               SomeRecord == \E b1, b2, b3 \in BOOLEAN, v \in {r.backup, path[f], Missing} :
                  SetsRecord(f, [listed |-> b1, moved |-> b2, installed |-> b3, backup |-> v])
    <3>1. path' = path \/ \E v \in {path[f], op.after[f], r.backup, Missing} : SetsPath(f, v)
      BY <2>4, MoveEffect, InstallEffect, BrokenEffect, UnlinkEffect, RelinkEffect
    <3>2. r.listed \in BOOLEAN /\ r.moved \in BOOLEAN /\ r.installed \in BOOLEAN
      BY DEF TypeOK
    <3>3. records' = records \/ SetsRecord(f, NoRecord) \/ SomeRecord
      BY <2>4, <3>2, MoveEffect, InstallEffect, BrokenEffect, UnlinkEffect, RelinkEffect
    <3>4. path'[g] \in {path[g], op.after[g], records[g].backup, Missing}
      BY <3>1 DEF SetsPath
    <3>5. records'[g].backup \in {records[g].backup, path[g], Missing}
      <4>1. CASE SomeRecord
        BY <4>1 DEF SetsRecord
      <4>2. CASE records' = records \/ SetsRecord(f, NoRecord)
        BY <4>2 DEF SetsRecord, NoRecord
      <4>3. QED
        BY <3>3, <4>1, <4>2
    <3>6. QED
      BY <3>4, <3>5
  <2>5. ASSUME path'[g] \in {path[g], op.after[g], records[g].backup, Missing},
               records'[g].backup \in {records[g].backup, path[g], Missing}
        PROVE  path'[g] <= version' /\ records'[g].backup <= version'
    BY <1>0, <1>1, <2>5 DEF Missing
  <2>9. CASE path' = path /\ records' = [f \in Files |-> NoRecord]
    BY <1>0, <1>1, <2>9 DEF NoRecord, Missing
  <2>10. QED
    BY <2>1, <2>2, <2>3, <2>4, <2>5, <2>9, FileStep
<1>4. ASSUME NEW f \in Files
      PROVE  point'.before[f] <= version' /\ point'.after[f] <= version'
  <2>1. CASE Create
    BY <1>1, <2>1 DEF Create
  <2>2. CASE point'.before = point.before /\ point'.after = point.after
    BY <1>1, <2>2
  <2>3. QED
    BY <2>1, <2>2, PointStep DEF TypeOK, Points
<1>5. QED
  BY <1>2, <1>3, <1>4 DEF VersionsAreGiven

-----------------------------------------------------------------------------
(* One discard, and its recovery point.                                    *)

LEMMA AsidesStep ==
  ASSUME TypeOK, UnderWay, Next
  PROVE  asides' = asides \/ (Broken /\ Listed # {}) \/ Crash
<1>1. CASE Environment \/ Requests \/ Deciding \/ Looking \/ Replacing \/ Ending
  BY <1>1, EnvironmentFrame, RequestFrame, DecidingFrame, LookingFrame, ReplacingFrame, EndingFrame DEF disk
<1>2. CASE Lock \/ PublishIndex \/ StepFails \/ Restart
  BY <1>2 DEF Lock, PublishIndex, StepFails, Restart, disk
<1>3. CASE Rollback
  BY <1>3, RollbackEffect DEF Unlink, Relink
<1>4. QED
  BY <1>1, <1>2, <1>3, Groups

RecordsAreSound == \A f \in Files : RecordIsSound(f)

\* Records are of a job whose images are saved.
LEMMA RecordsArePointed ==
  ASSUME TypeOK, Placed, PlansAreSound, PointIsOfJob, RecordsAreSound, NEW f \in Files, records[f] # NoRecord
  PROVE  /\ pc \in Recording /\ pc \in Started /\ f \in op.paths /\ f \in point.paths /\ point.status # "none"
         /\ Discards(op) \/ op.kind = "restore"
<1>1. pc \in Recording /\ pc \in Started
  BY DEF Placed, Started, Recording, Trying, Undoing, Published
<1>2. records[f].listed /\ f \in op.paths /\ op.before[f] # op.after[f]
  BY DEF RecordsAreSound, RecordIsSound
<1>3. op.kind \in {"apply", "restore"}
  BY <1>1 DEF Placed
<1>4. op.kind = "apply" => op.action # "stage"
  BY <1>2 DEF PlansAreSound, PlanIsSound
<1>5. QED
  BY <1>1, <1>2, <1>3, <1>4 DEF Discards, PointIsOfJob

LEMMA UntouchedStep ==
  ASSUME TypeOK, TypeOK', Placed, PlansAreSound, PointIsOfJob, OnlyDiscard, RecordsAreSound, UnderWay, Next,
         point'.status = "none"
  PROVE  point.status = "none" /\ point'.paths = {} /\ work' = path' /\ \A f \in Files : asides'[f] = {}
<1>1. point.status = "none" /\ point'.paths = point.paths
  <2>1. ~Create
    BY DEF Create
  <2>2. CASE point' = point
    BY <2>2
  <2>3. ASSUME NEW s \in Statuses \ {"none"}, point' = [point EXCEPT !.status = s]
        PROVE  FALSE
    BY <2>3 DEF TypeOK, Points
  <2>4. CASE point' = [point EXCEPT !.status = point.status]
    BY <2>4 DEF TypeOK, Points
  <2>5. QED
    BY <2>1, <2>2, <2>3, <2>4, PointStep
<1>2. \A f \in Files : records[f] = NoRecord
  BY <1>1, RecordsArePointed
<1>3. Listed = {}
  BY <1>2 DEF Listed, NoRecord
<1>4. work = path /\ \A f \in Files : asides[f] = {}
  BY <1>1 DEF OnlyDiscard
<1>5. work' = path'
  <2>1. CASE Edit
    BY <1>4, <2>1 DEF Edit
  <2>2. CASE work' = work /\ path' = path
    BY <1>4, <2>2
  <2>3. QED
    BY <1>3, <2>1, <2>2, FileStep
<1>6. ASSUME NEW f \in Files
      PROVE  asides'[f] = {}
  <2>1. CASE Crash
    BY <1>2, <1>4, <2>1 DEF Crash, NoRecord
  <2>2. CASE asides' = asides
    BY <1>4, <2>2
  <2>3. QED
    BY <1>3, <2>1, <2>2, AsidesStep
<1>7. QED
  BY <1>1, <1>5, <1>6 DEF OnlyDiscard

\* How the job changes.
LEMMA JobStep ==
  ASSUME TypeOK, UnderWay, Next
  PROVE  \/ op' = op
         \/ op' = NoPlan /\ pc' = "idle"
         \/ Dequeue /\ queue # <<>> /\ op' = Head(queue) /\ queue' = Tail(queue) /\ pc' = "start" /\ pc = "idle" /\ point' = point
         \/ RestoreStarts /\ op.kind = "restore" /\ pc = "start" /\ pc' = "lock" /\ Restorable /\ op.head = point.head
            /\ op' = [op EXCEPT !.paths = point.paths, !.before = path, !.index = index, !.next = point.indexBefore,
                                !.after = [f \in Files |-> IF f \in point.paths THEN point.before[f] ELSE path[f]]]
            /\ UNCHANGED disk
<1>1. CASE Environment \/ Requests \/ Looking \/ Replacing \/ Rollback
  BY <1>1, EnvironmentFrame, RequestFrame, LookingFrame, ReplacingFrame, RollbackFrame DEF memory
<1>2. CASE Ending
  BY <1>2, EndingFrame
<1>3. CASE Dequeue
  BY <1>3 DEF Dequeue, Goto, InMemory, disk
<1>4. CASE RestoreStarts
  BY <1>4 DEF RestoreStarts, End, Goto, InMemory
<1>5. CASE PrepareReads \/ PrepareEnds \/ ApplyStarts \/ Create \/ Lock \/ PublishIndex \/ StepFails \/ Crash \/ Restart
  BY <1>5 DEF PrepareReads, PrepareEnds, ApplyStarts, Create, Lock, PublishIndex, StepFails, Crash, Restart, Continue, End, Goto
<1>6. QED
  BY <1>1, <1>2, <1>3, <1>4, <1>5, Groups DEF Deciding

LEMMA DiscardStep ==
  ASSUME TypeOK, TypeOK', Placed, OnlyDiscard, UnderWay, Next,
         Discards(op'), pc' \in {"start", "create"}
  PROVE  point'.status = "none"
<1>1. op'.kind = "apply" /\ op' # NoPlan
  BY DEF Discards, NoPlan
<1>2. CASE Dequeue
  <2>1. op' = queue[1] /\ 1 \in DOMAIN queue /\ point' = point
    BY <1>2 DEF Dequeue, TypeOK, InMemory, disk
  <2>2. QED
    BY <2>1 DEF OnlyDiscard
<1>3. CASE ~Dequeue
  <2>1. op' = op
    BY <1>1, <1>3, JobStep
  <2>2. pc \in {"start", "create"} /\ point' = point
    <3>1. CASE Environment \/ Requests
      BY <3>1, EnvironmentFrame, RequestFrame DEF memory, disk
    <3>2. CASE Deciding
      BY <1>3, <3>2 DEF Deciding, PrepareReads, PrepareEnds, ApplyStarts, Create, RestoreStarts, Continue, End, Goto,
                       InMemory, disk
    <3>3. CASE Lock \/ PublishIndex \/ StepFails \/ Crash
      BY <3>3 DEF Lock, PublishIndex, StepFails, Crash, Continue, End, Goto
    <3>4. CASE Restart
      BY <3>4 DEF Restart, disk
    <3>5. CASE Looking \/ Ending
      BY <3>5, LookingFrame, EndingFrame
    <3>6. CASE Replacing
      BY <3>6 DEF Replacing, Write, Move, Install, Continue, Goto
    <3>7. CASE Rollback
      BY <3>7 DEF Rollback, Undo, Unlink, Relink, RollbackFails, Broken, Continue, Goto
    <3>8. QED
      BY <3>1, <3>2, <3>3, <3>4, <3>5, <3>6, <3>7, Groups
  <2>3. QED
    BY <2>1, <2>2 DEF OnlyDiscard
<1>4. QED
  BY <1>2, <1>3

LEMMA QueueOfOne ==
  ASSUME TypeOK, TypeOK', Placed, OnlyDiscard, PointIsOfJob, UnderWay, Next,
         NEW i \in DOMAIN queue', Discards(queue'[i])
  PROVE  /\ point'.status = "none" /\ ~Discards(op')
         /\ \A j \in DOMAIN queue' : Discards(queue'[j]) => j = i
<1>0. ~Discards(NoPlan)
  BY DEF Discards, NoPlan
<1>1. CASE queue' = queue
  <2>1. point.status = "none" /\ ~Discards(op) /\ \A j \in DOMAIN queue' : Discards(queue'[j]) => j = i
    BY <1>1 DEF OnlyDiscard
  <2>2. ~Discards(op')
    <3>1. CASE op' = op \/ op' = NoPlan
      BY <1>0, <2>1, <3>1
    <3>2. CASE Dequeue /\ queue # <<>> /\ queue' = Tail(queue)
      BY <1>1, <3>2 DEF TypeOK
    <3>3. CASE RestoreStarts /\ op.kind = "restore" /\ op' # NoPlan
      <4>1. op'.kind = "restore"
        BY <3>3 DEF RestoreStarts, End, TypeOK, Plans
      <4>2. QED
        BY <4>1 DEF Discards
    <3>4. QED
      BY <3>1, <3>2, <3>3, JobStep
  <2>3. ~Create
    BY <2>1 DEF Create, Placed
  <2>4. [point EXCEPT !.status = point.status] = point
    BY DEF TypeOK, Points
  <2>5. ~Ending \/ point' = point
    <3> SUFFICES ASSUME Ending, point' # point PROVE FALSE
      OBVIOUS
    <3>1. pc \in {"applied", "restored"}
      <4>1. pc \in {"applied", "restored", "undone"}
        BY EndingFrame
      <4>2. pc = "undone" => point' = [point EXCEPT !.status = point.status] \/ point' = point
        BY <2>1, EndingFrame
      <4>3. QED
        BY <2>4, <4>1, <4>2
    <3>2. pc # "applied"
      BY <2>1 DEF Placed
    <3>3. pc # "restored"
      BY <2>1 DEF Placed, PointIsOfJob, Started, Published
    <3>4. QED
      BY <3>1, <3>2, <3>3
  <2>6. point' = point
    BY <2>3, <2>4, <2>5, PointStep
  <2>7. QED
    BY <2>1, <2>2, <2>6
<1>2. CASE Dequeue /\ queue # <<>> /\ queue' = Tail(queue) /\ op' = Head(queue)
  <2>1. point' = point
    BY <1>2 DEF Dequeue, InMemory, disk
  <2>2. ASSUME NEW j \in DOMAIN queue'
        PROVE  j + 1 \in DOMAIN queue /\ queue'[j] = queue[j + 1] /\ j \in Nat /\ j # 0
    <3>1. queue \in Seq(Plans) /\ queue # <<>> /\ queue' = Tail(queue)
      BY <1>2 DEF TypeOK
    <3>2. Len(queue') = Len(queue) - 1 /\ DOMAIN queue' = 1..Len(queue') /\ DOMAIN queue = 1..Len(queue)
      BY <3>1
    <3>3. j \in Nat /\ j # 0 /\ j + 1 \in DOMAIN queue
      BY <3>1, <3>2
    <3>4. QED
      BY <3>1, <3>2, <3>3
  <2>3. op' = queue[1] /\ 1 \in DOMAIN queue
    BY <1>2 DEF TypeOK
  <2>4. /\ point.status = "none" /\ i + 1 \in DOMAIN queue
        /\ \A j \in DOMAIN queue : Discards(queue[j]) => j = i + 1
    BY <2>2 DEF OnlyDiscard
  <2>5. i + 1 # 1
    BY <2>2
  <2>6. ~Discards(op')
    BY <2>3, <2>4, <2>5
  <2>7. ASSUME NEW j \in DOMAIN queue', Discards(queue'[j])
        PROVE  j = i
    <3>1. j + 1 = i + 1
      BY <2>2, <2>4, <2>7
    <3>2. QED
      BY <2>2, <3>1
  <2>8. QED
    BY <2>1, <2>4, <2>6, <2>7
<1>3. ASSUME NEW p \in Plans, queue' = Append(queue, p), UNCHANGED <<op, point>>,
             p.kind \in {"prepare", "restore"} \/ (p = plan /\ plan.kind = "apply" /\ OneDiscard)
      PROVE  /\ point'.status = "none" /\ ~Discards(op')
             /\ \A j \in DOMAIN queue' : Discards(queue'[j]) => j = i
  <2>1. ASSUME NEW j \in DOMAIN queue'
        PROVE  \/ j \in DOMAIN queue /\ queue'[j] = queue[j]
               \/ j = Len(queue) + 1 /\ queue'[j] = p /\ j \notin DOMAIN queue
    BY <1>3 DEF TypeOK
  <2>2. CASE Discards(p)
    <3>1. OneDiscard /\ p = plan
      BY <1>3, <2>2 DEF Discards
    <3>2. point.status = "none" /\ ~Discards(op) /\ \A j \in DOMAIN queue : ~Discards(queue[j])
      BY <2>2, <3>1 DEF OneDiscard
    <3>3. QED
      BY <1>3, <2>1, <3>2
  <2>3. CASE ~Discards(p)
    <3>1. i \in DOMAIN queue /\ Discards(queue[i])
      BY <2>1, <2>3
    <3>2. QED
      BY <1>3, <2>1, <2>3, <3>1 DEF OnlyDiscard
  <2>4. QED
    BY <2>2, <2>3
<1>4. QED
  BY <1>0, <1>1, <1>2, <1>3, QueueStep

LEMMA OnlyDiscardStep ==
  ASSUME TypeOK, TypeOK', Placed, PlansAreSound, PointIsOfJob, OnlyDiscard, RecordsAreSound, UnderWay, Next
  PROVE  OnlyDiscard'
<1>1. point'.status = "none" => point'.paths = {} /\ work' = path' /\ \A f \in Files : asides'[f] = {}
  BY UntouchedStep
<1>2. Discards(op') /\ pc' \in {"start", "create"} => point'.status = "none"
  BY DiscardStep
<1>3. ASSUME NEW i \in DOMAIN queue', Discards(queue'[i])
      PROVE  /\ point'.status = "none" /\ ~Discards(op')
             /\ \A j \in DOMAIN queue' : Discards(queue'[j]) => j = i
  BY <1>3, QueueOfOne
<1>4. QED
  BY <1>1, <1>2, <1>3 DEF OnlyDiscard

\* How a job that has passed its looks goes on; its status changes at its end.
LEMMA StartedStep ==
  ASSUME TypeOK, Placed, UnderWay, Next, pc' \in Started
  PROVE  \/ RestoreStarts
         \/ Create /\ op' = op /\ pc' = "lock"
         \/ ApplyStarts /\ op' = op /\ op.kind = "apply" /\ op.action = "stage" /\ point' = point
         \/ /\ pc \in Started /\ op' = op
            /\ pc \in {"unlock", "giveUp"} => pc' = pc \/ op.kind = "restore"
            /\ \/ point' = point
               \/ /\ pc' \in {"unlock", "giveUp"} /\ Discards(op)
                  /\ \E s \in Statuses \ {"none", "prepared"} : point' = [point EXCEPT !.status = s]
<1> DEFINE Goes == /\ pc \in Started /\ op' = op
                   /\ pc \in {"unlock", "giveUp"} => pc' = pc \/ op.kind = "restore"
                   /\ \/ point' = point
                      \/ /\ pc' \in {"unlock", "giveUp"} /\ Discards(op)
                         /\ \E s \in Statuses \ {"none", "prepared"} : point' = [point EXCEPT !.status = s]
<1>0. pc' # "idle" /\ [point EXCEPT !.status = point.status] = point
  BY DEF Started, Trying, Undoing, Published, TypeOK, Points
<1>1. CASE Environment \/ Requests
  BY <1>1, EnvironmentFrame, RequestFrame DEF memory, disk
<1>2. CASE Deciding
  BY <1>0, <1>2 DEF Deciding, Dequeue, PrepareReads, PrepareEnds, ApplyStarts, Create, Continue, End, Goto,
                InMemory, disk, Started, Trying, Undoing, Published
<1>3. CASE Lock \/ PublishIndex \/ StepFails \/ Crash \/ Restart
  <2>1. CASE Lock \/ PublishIndex \/ Restart
    BY <1>0, <2>1 DEF Lock, PublishIndex, Restart, disk, Continue, End, Goto, Started, Trying
  <2>2. CASE Crash
    BY <1>0, <2>2 DEF Crash
  <2>3. CASE StepFails
    BY <1>0, <2>3 DEF StepFails, disk, Continue, End, Goto, Started, Trying
  <2>4. QED
    BY <1>3, <2>1, <2>2, <2>3
<1>4. CASE Looking \/ Replacing \/ Rollback
  BY <1>4, LookingFrame, ReplacingFrame, RollbackFrame DEF disk, Started, Trying, Undoing
<1>5. CASE Ending
  <2>1. op' = op /\ pc \in {"finish", "applied", "unlock", "undone"} /\ (pc = "unlock" => op.kind = "restore")
    BY <1>0, <1>5, EndingFrame
  <2>2. pc \in {"finish", "unlock"} => point' = point
    BY <1>0, <1>5, EndingFrame
  <2>3. pc = "applied" => pc' = "unlock" /\ Discards(op) /\ point' \in {point, [point EXCEPT !.status = "applied"]}
    BY <1>5, EndingFrame DEF Placed
  <2>4. pc = "undone" => /\ pc' = "giveUp"
                         /\ \/ point' = point
                            \/ /\ Discards(op)
                               /\ point' \in {[point EXCEPT !.status = "needsAttention"], [point EXCEPT !.status = "rolledBack"]}
    BY <1>0, <1>5, EndingFrame
  <2>5. Goes
    BY <2>1, <2>2, <2>3, <2>4 DEF Started, Published, Undoing, Statuses
  <2>6. QED
    BY <2>5
<1>6. QED
  BY <1>1, <1>2, <1>3, <1>4, <1>5, Groups

LEMMA PointOfJobStep ==
  ASSUME TypeOK, Placed, UnderWay, PointIsOfJob, Next
  PROVE  PointIsOfJob'
<1> SUFFICES ASSUME pc' \in Started PROVE PointIsOfJob'
  BY DEF PointIsOfJob
<1>1. CASE RestoreStarts
  <2>1. pc' = "lock" /\ op.kind = "restore" /\ Restorable /\ point' = point
        /\ op' = [op EXCEPT !.paths = point.paths, !.before = path, !.index = index, !.next = point.indexBefore,
                            !.after = [f \in Files |-> IF f \in point.paths THEN point.before[f] ELSE path[f]]]
    BY <1>1 DEF RestoreStarts, End, Goto, InMemory, disk, Started, Trying, Undoing, Published
  <2>2. /\ op'.kind = "restore" /\ op'.paths = point.paths /\ op'.before = path /\ op'.index = index
        /\ op'.next = point.indexBefore
        /\ op'.after = [f \in Files |-> IF f \in point.paths THEN point.before[f] ELSE path[f]]
    BY <2>1 DEF TypeOK, Plans
  <2>3. QED
    BY <2>1, <2>2 DEF PointIsOfJob, Discards, Restorable
<1>2. CASE Create /\ op' = op /\ pc' = "lock"
  BY <1>2 DEF Create, PointIsOfJob, Placed, Discards
<1>3. CASE op' = op /\ op.kind = "apply" /\ op.action = "stage"
  BY <1>3 DEF PointIsOfJob, Discards
<1>4. CASE /\ pc \in Started /\ op' = op /\ point' = point
           /\ pc \in {"unlock", "giveUp"} => pc' = pc \/ op.kind = "restore"
  BY <1>4 DEF PointIsOfJob, Discards
<1>5. ASSUME pc \in Started, op' = op, pc' \in {"unlock", "giveUp"}, Discards(op),
             NEW s \in Statuses \ {"none", "prepared"}, point' = [point EXCEPT !.status = s]
      PROVE  PointIsOfJob'
  <2>1. /\ point'.status # "none" /\ point'.paths = point.paths /\ point'.before = point.before
        /\ point'.after = point.after /\ point'.indexBefore = point.indexBefore /\ point'.indexAfter = point.indexAfter
    BY <1>5 DEF TypeOK, Points
  <2>2. QED
    BY <1>5, <2>1 DEF PointIsOfJob, Discards
<1>6. QED
  BY <1>1, <1>2, <1>3, <1>4, <1>5, StartedStep

-----------------------------------------------------------------------------
(* Records.                                                                *)

\* A job that has records goes on with the same plan.
LEMMA RecordsOfJob ==
  ASSUME TypeOK, Placed, Placed', UnderWay, Next, NEW f \in Files, records'[f] # NoRecord
  PROVE  op' = op /\ pc' \in Recording
<1>1. pc' \in Recording
  BY DEF Placed
<1>2. pc' \notin {"idle", "start", "lock"}
  BY <1>1 DEF Recording, Trying
<1>3. QED
  BY <1>1, <1>2, JobStep

LEMMA RecordsStep ==
  ASSUME TypeOK, TypeOK', Placed, Placed', VersionsAreGiven, RecordsAreSound, UnderWay, Next
  PROVE  RecordsAreSound'
<1> SUFFICES ASSUME NEW g \in Files PROVE RecordIsSound(g)'
  BY DEF RecordsAreSound
<1>1. CASE records'[g] = NoRecord
  BY <1>1 DEF RecordIsSound, NoRecord
<1>2. CASE records'[g] # NoRecord
  <2>0. op' = op
    BY <1>2, RecordsOfJob
  <2>1. RecordIsSound(g)
    BY DEF RecordsAreSound
  <2>2. CASE path' = path /\ records' = records
    BY <2>0, <2>1, <2>2 DEF RecordIsSound
  <2>3. CASE Edit
    <3>1. path'[g] \in {path[g], Missing, version + 1} /\ records' = records
      BY <2>3, EditEffect DEF SetsPath, memory
    <3>2. records[g].backup <= version /\ records[g].backup \in Nat /\ version \in Nat
      BY DEF VersionsAreGiven, TypeOK
    <3>3. records[g].backup # version + 1
      BY <3>2
    <3>4. QED
      BY <2>0, <2>1, <3>1, <3>3 DEF RecordIsSound
  <2>4. CASE Write
    <3>1. CASE records' = records
      BY <2>0, <2>1, <2>4, <3>1, WriteEffect DEF RecordIsSound
    <3>2. ASSUME NEW f \in Todo,
                 SetsRecord(f, [listed |-> TRUE, moved |-> records[f].moved, installed |-> records[f].installed,
                                backup |-> records[f].backup])
          PROVE  RecordIsSound(g)'
      <4>1. f \in Files /\ f \in op.paths /\ op.before[f] # op.after[f] /\ f \notin Listed
        BY DEF Todo, TypeOK, Plans
      <4>2. records[f] = NoRecord
        BY <4>1 DEF Listed, RecordsAreSound, RecordIsSound
      <4>3. CASE g = f
        <5>1. records'[g] = [listed |-> TRUE, moved |-> FALSE, installed |-> FALSE, backup |-> Missing]
          BY <3>2, <4>2, <4>3 DEF SetsRecord, NoRecord
        <5>2. QED
          BY <2>0, <4>1, <4>3, <5>1 DEF RecordIsSound
      <4>4. CASE g # f
        <5>1. records'[g] = records[g] /\ path' = path
          BY <2>4, <3>2, <4>4, WriteEffect DEF SetsRecord
        <5>2. QED
          BY <2>0, <2>1, <5>1 DEF RecordIsSound
      <4>5. QED
        BY <4>3, <4>4
    <3>3. QED
      BY <2>4, <3>1, <3>2, WriteEffect
  <2>5. ASSUME NEW f \in Files, f = Last, Listed # {}, Move \/ Install \/ Broken \/ Unlink \/ Relink
        PROVE  RecordIsSound(g)'
    <3>0. RecordIsSound(f) /\ records[f].listed
      BY <2>5, LastIsListed DEF RecordsAreSound
    <3>1. CASE g # f
      <4>1. path' = path \/ SetsPath(f, path'[f])
        BY <2>5, MoveEffect, InstallEffect, BrokenEffect, UnlinkEffect, RelinkEffect DEF SetsPath
      <4>2. records' = records \/ SetsRecord(f, records'[f])
        BY <2>5, MoveEffect, InstallEffect, BrokenEffect, UnlinkEffect, RelinkEffect DEF SetsRecord
      <4>3. path'[g] = path[g] /\ records'[g] = records[g]
        BY <3>1, <4>1, <4>2 DEF SetsPath, SetsRecord
      <4>4. QED
        BY <2>0, <2>1, <4>3 DEF RecordIsSound
    <3>2. CASE g = f /\ Move
      <4>1. ~records[f].installed
        BY <2>5, <3>2 DEF UnderWay, Move
      <4>2. CASE path' = path /\ records' = records
        BY <2>0, <2>1, <4>2 DEF RecordIsSound
      <4>3. CASE /\ path[f] # Missing /\ SetsPath(f, Missing)
                 /\ SetsRecord(f, [listed |-> records[f].listed, moved |-> TRUE, installed |-> records[f].installed,
                                   backup |-> path[f]])
        <5>1. /\ path'[f] = Missing
              /\ records'[f] = [listed |-> TRUE, moved |-> TRUE, installed |-> FALSE, backup |-> path[f]]
          BY <3>0, <4>1, <4>3 DEF SetsPath, SetsRecord, TypeOK
        <5>2. QED
          BY <2>0, <3>0, <3>2, <4>3, <5>1 DEF RecordIsSound
      <4>4. QED
        BY <2>5, <3>2, <4>2, <4>3, MoveEffect
    <3>3. CASE g = f /\ Install
      <4>1. op.after[f] # Missing /\ Cleared(f) /\ op.before[f] # op.after[f]
        BY <2>5, <3>0, <3>3 DEF UnderWay, Install, RecordIsSound
      <4>2. CASE path' = path /\ records' = records
        BY <2>0, <2>1, <4>2 DEF RecordIsSound
      <4>3. CASE /\ SetsPath(f, op.after[f])
                 /\ SetsRecord(f, [listed |-> records[f].listed, moved |-> records[f].moved, installed |-> TRUE,
                                   backup |-> records[f].backup])
        <5>1. /\ path'[f] = op.after[f] /\ records'[f].listed /\ records'[f].moved = records[f].moved
              /\ records'[f].backup = records[f].backup
          BY <3>0, <4>3 DEF SetsPath, SetsRecord
        <5>2. records[f].moved => records[f].backup # Missing /\ records[f].backup = op.before[f]
          BY <3>0, <4>1 DEF RecordIsSound, Cleared
        <5>3. QED
          BY <2>0, <3>0, <3>3, <4>1, <5>1, <5>2 DEF RecordIsSound
      <4>4. QED
        BY <2>5, <3>3, <4>2, <4>3, InstallEffect
    <3>4. CASE g = f /\ ~Broken /\ Unlink
      <4>1. /\ SetsPath(f, Missing)
            /\ SetsRecord(f, [listed |-> records[f].listed, moved |-> records[f].moved, installed |-> FALSE,
                              backup |-> records[f].backup])
        BY <2>5, <3>4, UnlinkEffect
      <4>2. /\ path'[f] = Missing /\ records'[f].listed /\ records'[f].moved = records[f].moved
            /\ records'[f].backup = records[f].backup /\ ~records'[f].installed
        BY <3>0, <4>1 DEF SetsPath, SetsRecord
      <4>3. QED
        BY <2>0, <3>0, <3>4, <4>2 DEF RecordIsSound
    <3>5. CASE g = f /\ (Broken \/ Relink)
      BY <1>2, <2>5, <3>5, BrokenEffect, RelinkEffect DEF SetsRecord
    <3>6. QED
      BY <2>5, <3>1, <3>2, <3>3, <3>4, <3>5
  <2>6. QED
    BY <1>2, <2>2, <2>3, <2>4, <2>5, FileStep
<1>3. QED
  BY <1>1, <1>2

\* The records listed after one of them has changed.
LEMMA ListedAfter ==
  ASSUME NEW f \in Files, NEW r, SetsRecord(f, r)
  PROVE  Listed' = IF r.listed THEN Listed \cup {f} ELSE Listed \ {f}
BY DEF SetsRecord, Listed

\* The place of a step within a transaction.
Midway == {"move", "recheck", "install", "unlink", "relink"}

LEMMA MidwayStep ==
  ASSUME TypeOK, Placed, UnderWay, Next, pc' \in Midway
  PROVE  \/ pc' = pc /\ UNCHANGED <<records, op>> /\ (path' = path \/ Edit)
         \/ Write
         \/ Move /\ pc' = "recheck"
         \/ /\ pc = "recheck" /\ pc' = "install" /\ UNCHANGED <<records, op, path>>
            /\ records[Last].backup = op.before[Last] /\ op.after[Last] # Missing
         \/ Rollback
<1>1. CASE Environment \/ Requests
  BY <1>1, EnvironmentFrame, RequestFrame DEF memory, disk, Environment, GitLocks, GitWrites, RemoveStaleLock
<1>2. CASE Deciding \/ Lock \/ PublishIndex \/ StepFails \/ Crash
  BY <1>2, DecidingFrame DEF Lock, PublishIndex, StepFails, Crash, Continue, End, Goto, Midway
<1>3. CASE Restart
  BY <1>3 DEF Restart, disk
<1>4. CASE Looking
  BY <1>4, LookingFrame DEF Midway, disk
<1>5. CASE Replacing
  <2>1. CASE Write
    BY <2>1
  <2>2. CASE Move
    BY <2>2 DEF Move, Continue, Goto, Midway
  <2>3. CASE Install
    BY <2>3 DEF Install, Continue, Goto, Midway
  <2>4. QED
    BY <1>5, <2>1, <2>2, <2>3 DEF Replacing
<1>6. CASE Ending
  BY <1>6, EndingFrame DEF Midway
<1>7. CASE Rollback
  BY <1>7
<1>8. QED
  BY <1>1, <1>2, <1>3, <1>4, <1>5, <1>6, <1>7, Groups

\* The file that Write lists comes after all those listed before.
LEMMA WriteLists ==
  ASSUME TypeOK, RecordsAreSound, InOrder, Write, NEW f \in Todo,
         SetsRecord(f, [listed |-> TRUE, moved |-> records[f].moved, installed |-> records[f].installed,
                        backup |-> records[f].backup])
  PROVE  /\ f \in Files /\ Listed' = Listed \cup {f} /\ Last' = f
         /\ records'[f] = [listed |-> TRUE, moved |-> FALSE, installed |-> FALSE, backup |-> Missing]
<1>1. f \in Files /\ f \notin Listed
  BY DEF Todo, TypeOK, Plans
<1>2. records[f] = NoRecord
  BY <1>1 DEF Listed, RecordsAreSound, RecordIsSound
<1>3. Listed' = Listed \cup {f}
  BY <1>1, ListedAfter
<1>4. pc \in Trying
  BY DEF Write, Trying
<1>5. ASSUME NEW g \in Listed'
      PROVE  g <= f
  <2>1. CASE g \in Listed
    <3>1. g < f /\ g \in Nat /\ f \in Nat
      BY <1>1, <1>4, <2>1, BoundsAssumption DEF InOrder, Listed
    <3>2. QED
      BY <3>1
  <2>2. CASE g = f
    BY <1>1, <2>2, BoundsAssumption
  <2>3. QED
    BY <1>3, <1>5, <2>1, <2>2
<1>6. Max(Listed') = f
  <2>1. Listed' \in SUBSET Files /\ f \in Listed'
    BY <1>1, <1>3 DEF Listed
  <2>2. QED
    BY <1>5, <2>1, LastOf
<1>7. QED
  BY <1>1, <1>2, <1>3, <1>6 DEF Last, SetsRecord, NoRecord

\* A step at the last record that keeps it listed leaves it the last.
LEMMA SameLast ==
  ASSUME Listed # {}, NEW r, SetsRecord(Last, r), r.listed
  PROVE  Listed' = Listed /\ Last' = Last /\ records'[Last] = r /\ \A g \in Files : g # Last => records'[g] = records[g]
<1>1. Last \in Files /\ Last \in Listed
  BY LastIsListed
<1>2. Listed' = Listed
  BY <1>1, ListedAfter
<1>3. QED
  BY <1>2 DEF SetsRecord, Last

LEMMA UnderWayStep ==
  ASSUME TypeOK, Placed, UnderWay, InOrder, RecordsAreSound, Next
  PROVE  UnderWay'
<1> SUFFICES ASSUME pc' \in Midway PROVE UnderWay'
  BY DEF UnderWay, Midway
<1>1. CASE pc' = pc /\ UNCHANGED <<records, op>> /\ (path' = path \/ Edit)
  <2>1. Listed' = Listed /\ Last' = Last
    BY <1>1, SameListed
  <2>2. Listed # {} /\ Last \in Files
    BY <1>1, LastIsListed DEF UnderWay, Midway
  <2>3. path'[Last] = path[Last] \/ path'[Last] = Missing \/ EditInUnlink \/ pc # "unlink"
    BY <1>1, <2>2, EditEffect DEF SetsPath
  <2>4. QED
    BY <1>1, <2>1, <2>2, <2>3 DEF UnderWay, Cleared
<1>2. CASE Write
  <2>1. Todo # {}
    BY <1>2, WriteEffect DEF Midway
  <2>2. PICK f \in Todo :
          /\ SetsRecord(f, [listed |-> TRUE, moved |-> records[f].moved, installed |-> records[f].installed,
                            backup |-> records[f].backup])
          /\ pc' = IF path[f] # op.before[f] THEN "undo" ELSE IF op.before[f] = Missing THEN "install" ELSE "move"
    BY <1>2, <2>1, WriteEffect
  <2>3. /\ Listed' = Listed \cup {f} /\ Last' = f
        /\ records'[f] = [listed |-> TRUE, moved |-> FALSE, installed |-> FALSE, backup |-> Missing]
    BY <1>2, <2>2, WriteLists
  <2>4. op' = op /\ op.before[f] # op.after[f]
    BY <1>2, ReplacingFrame DEF Replacing, Todo
  <2>5. pc' \in {"install", "move"} /\ (pc' = "install" <=> op.before[f] = Missing)
    BY <2>2 DEF Midway
  <2>6. QED
    BY <2>3, <2>4, <2>5 DEF UnderWay, Cleared
<1>3. CASE Move /\ pc' = "recheck"
  <2>1. Listed # {} /\ ~records[Last].installed
    BY <1>3 DEF UnderWay, Move
  <2>2. Last \in Files /\ records[Last].listed
    BY <2>1, LastIsListed
  <2>3. SetsRecord(Last, [listed |-> records[Last].listed, moved |-> TRUE, installed |-> records[Last].installed,
                          backup |-> path[Last]])
    BY <1>3, <2>2, MoveEffect
  <2>4. Listed' = Listed /\ Last' = Last /\ records'[Last].moved /\ ~records'[Last].installed
    BY <2>1, <2>2, <2>3, SameLast
  <2>5. QED
    BY <1>3, <2>1, <2>4 DEF UnderWay
<1>4. CASE /\ pc = "recheck" /\ pc' = "install" /\ UNCHANGED <<records, op, path>>
           /\ records[Last].backup = op.before[Last] /\ op.after[Last] # Missing
  <2>1. Listed # {} /\ records[Last].moved /\ ~records[Last].installed
    BY <1>4 DEF UnderWay
  <2>2. Listed' = Listed /\ Last' = Last
    BY <1>4, SameListed
  <2>3. QED
    BY <1>4, <2>1, <2>2 DEF UnderWay, Cleared
<1>5. CASE Rollback
  <2>0. op' = op
    BY <1>5, RollbackFrame
  <2>1. ~Broken
    BY DEF Broken, Continue, Goto, Midway
  <2>2. CASE pc = "undo" /\ UNCHANGED <<path, records>>
    <3>1. \/ Listed # {} /\ records[Last].installed /\ path[Last] = op.after[Last] /\ pc' = "unlink"
          \/ Listed # {} /\ ~records[Last].installed /\ pc' = "relink"
      BY <1>5, <2>1, <2>2, RollbackEffect DEF Midway
    <3>2. Listed' = Listed /\ Last' = Last
      BY <2>2, SameListed
    <3>3. QED
      BY <2>0, <2>2, <3>1, <3>2 DEF UnderWay
  <2>3. CASE Unlink /\ pc = "unlink"
    <3>1. Listed # {}
      BY <2>3 DEF UnderWay
    <3>2. Last \in Files /\ records[Last].listed
      BY <3>1, LastIsListed
    <3>3. /\ pc' = "relink"
          /\ SetsRecord(Last, [listed |-> records[Last].listed, moved |-> records[Last].moved, installed |-> FALSE,
                               backup |-> records[Last].backup])
      BY <2>1, <2>3, <3>2, UnlinkEffect
    <3>4. Listed' = Listed /\ Last' = Last /\ ~records'[Last].installed
      BY <3>1, <3>2, <3>3, SameLast
    <3>5. QED
      BY <3>1, <3>3, <3>4 DEF UnderWay
  <2>4. CASE Relink
    BY <2>1, <2>4 DEF Relink, Continue, Goto, Midway
  <2>5. QED
    BY <1>5, <2>1, <2>2, <2>3, <2>4, RollbackEffect
<1>6. QED
  BY <1>1, <1>2, <1>3, <1>4, <1>5, MidwayStep

\* How a job gets to a place where it goes forward.
LEMMA ForwardStep ==
  ASSUME TypeOK, Placed, UnderWay, Next, pc' \in Trying \cup {"finish"}
  PROVE  /\ op' = op /\ point' = point
         /\ \/ pc' = pc /\ UNCHANGED records /\ (path' = path \/ Edit)
            \/ pc = "lock" /\ pc' = "expect" /\ UNCHANGED <<records, path>>
            \/ Looking /\ UNCHANGED <<records, path>>
            \/ Replacing
            \/ pc = "index" /\ pc' = "finish" /\ UNCHANGED <<records, path>>
<1>1. CASE Environment \/ Requests
  BY <1>1, EnvironmentFrame, RequestFrame DEF memory, disk, Environment, GitLocks, GitWrites, RemoveStaleLock
<1>2. CASE Deciding \/ StepFails \/ Crash
  BY <1>2, DecidingFrame DEF StepFails, Crash, Continue, End, Goto, Trying
<1>3. CASE Lock \/ PublishIndex
  BY <1>3 DEF Lock, PublishIndex, Continue, End, Goto, Trying
<1>4. CASE Restart
  BY <1>4 DEF Restart, disk
<1>5. CASE Looking
  BY <1>5, LookingFrame DEF disk
<1>6. CASE Replacing
  BY <1>6, ReplacingFrame
<1>7. CASE Ending
  BY <1>7, EndingFrame DEF Trying
<1>8. CASE Rollback
  <2>1. pc' \in {"undo", "unlink", "relink", "undone"}
    BY <1>8, RollbackEffect DEF Broken, Unlink, Relink, Continue, Goto
  <2>2. QED
    BY <2>1 DEF Trying
<1>9. QED
  BY <1>1, <1>2, <1>3, <1>4, <1>5, <1>6, <1>7, <1>8, Groups

\* Replaced files stay so, and listed files stay before those to come.
ReplacedSoFar == \A f \in Listed : ~(f = Last /\ pc \in {"move", "recheck", "install"}) => Replaced(f)
ListedFirst == \A f \in Listed, g \in Todo : f < g

LEMMA SameTodo ==
  ASSUME op' = op, Listed' = Listed
  PROVE  Todo' = Todo
BY DEF Todo

LEMMA ForwardOrder ==
  ASSUME TypeOK, Placed, UnderWay, InOrder, RecordsAreSound, Next, pc' \in Trying \cup {"finish"}
  PROVE  ReplacedSoFar' /\ (pc' \in Trying => ListedFirst') /\ (pc' \in {"index", "finish"} => Todo' = {})
<1>0. op' = op
  BY ForwardStep
<1>1. CASE pc' = pc /\ records' = records
  <2>1. Listed' = Listed /\ Last' = Last /\ Todo' = Todo
    BY <1>0, <1>1, SameListed, SameTodo
  <2>2. QED
    BY <1>0, <1>1, <2>1 DEF InOrder, ReplacedSoFar, ListedFirst, Replaced, Cleared
<1>2. CASE pc = "lock" /\ pc' = "expect" /\ records' = records
  <2>1. records' = [f \in Files |-> NoRecord]
    BY <1>2 DEF Placed, Recording, Trying
  <2>2. Listed' = {}
    BY <2>1 DEF Listed, NoRecord
  <2>3. QED
    BY <1>2, <2>2 DEF ReplacedSoFar, ListedFirst
<1>3. CASE Looking /\ records' = records
  <2>1. Listed' = Listed /\ Last' = Last /\ Todo' = Todo
    BY <1>0, <1>3, SameListed, SameTodo
  <2>2. pc \in {"expect", "validate", "check", "recheck"} /\ pc' \in {"validate", "check", "write", "install"}
    BY <1>3, LookingFrame DEF Trying
  <2>3. ListedFirst'
    BY <1>0, <2>1, <2>2 DEF InOrder, ListedFirst, Trying
  <2>4. ASSUME NEW f \in Listed, ~(f = Last /\ pc' = "install")
        PROVE  Replaced(f)'
    <3>1. CASE f = Last /\ pc = "recheck"
      <4>1. records[Last].moved /\ ~records[Last].installed
        BY <3>1 DEF UnderWay
      <4>2. records[Last].backup = op.before[Last] /\ op.after[Last] = Missing
        BY <1>3, <2>2, <2>4, <3>1, LookingFrame
      <4>3. QED
        BY <1>0, <1>3, <3>1, <4>1, <4>2 DEF Replaced, Cleared
    <3>2. CASE ~(f = Last /\ pc = "recheck")
      <4>1. Replaced(f)
        BY <2>2, <2>4, <3>2 DEF InOrder, Trying
      <4>2. QED
        BY <1>0, <1>3, <4>1 DEF Replaced, Cleared
    <3>3. QED
      BY <3>1, <3>2
  <2>5. QED
    BY <2>1, <2>2, <2>3, <2>4 DEF ReplacedSoFar
<1>4. CASE Write
  <2>0. pc = "write" /\ pc \in Trying
    BY <1>4 DEF Write, Trying
  <2>1. CASE records' = records /\ Todo = {} /\ pc' = "index"
    <3>1. Listed' = Listed /\ Last' = Last /\ Todo' = Todo
      BY <1>0, <2>1, SameListed, SameTodo
    <3>2. QED
      BY <1>0, <2>0, <2>1, <3>1 DEF InOrder, ReplacedSoFar, ListedFirst, Replaced, Cleared
  <2>2. ASSUME NEW f \in Todo, \A g \in Todo : f <= g, pc' \in {"install", "move"},
               SetsRecord(f, [listed |-> TRUE, moved |-> records[f].moved, installed |-> records[f].installed,
                              backup |-> records[f].backup])
        PROVE  ReplacedSoFar' /\ ListedFirst'
    <3>1. f \in Files /\ Listed' = Listed \cup {f} /\ Last' = f
      BY <1>4, <2>2, WriteLists
    <3>2. ASSUME NEW g \in Listed, g # f
          PROVE  Replaced(g)'
      <4>1. Replaced(g) /\ g \in Files
        BY <2>0 DEF InOrder, Listed
      <4>2. records'[g] = records[g]
        BY <2>2, <3>2, <4>1 DEF SetsRecord
      <4>3. QED
        BY <1>0, <4>1, <4>2 DEF Replaced, Cleared
    <3>3. ReplacedSoFar'
      BY <2>2, <3>1, <3>2 DEF ReplacedSoFar
    <3>4. ASSUME NEW h \in Todo'
          PROVE  h \in Todo /\ h # f /\ h \in Nat /\ f \in Nat
      BY <1>0, <3>1, BoundsAssumption DEF Todo, TypeOK, Plans
    <3>5. ASSUME NEW g \in Listed', NEW h \in Todo'
          PROVE  g < h
      <4>1. CASE g \in Listed
        BY <2>0, <3>4, <4>1 DEF InOrder
      <4>2. CASE g = f
        <5>1. f <= h
          BY <2>2, <3>4
        <5>2. QED
          BY <3>4, <4>2, <5>1
      <4>3. QED
        BY <3>1, <4>1, <4>2
    <3>6. QED
      BY <3>3, <3>5 DEF ListedFirst
  <2>3. pc' \in {"undo", "install", "move", "index"} /\ pc' # "undo"
    BY <1>4, WriteEffect DEF Trying
  <2>4. QED
    BY <1>4, <2>1, <2>2, <2>3, WriteEffect
<1>5. CASE Move \/ Install
  <2>1. pc \in {"move", "install"} /\ pc \in Trying /\ Listed # {}
    BY <1>5 DEF Move, Install, Trying, UnderWay
  <2>2. Last \in Files /\ records[Last].listed
    BY <2>1, LastIsListed
  <2>3. PICK r : SetsRecord(Last, r) /\ r.listed /\ (pc' = "write" => Install /\ r.installed /\ r.moved = records[Last].moved
                                                                      /\ r.backup = records[Last].backup)
    <3>1. CASE Move
      <4>1. SetsRecord(Last, [listed |-> records[Last].listed, moved |-> TRUE, installed |-> records[Last].installed,
                              backup |-> path[Last]]) /\ pc' = "recheck"
        BY <2>2, <3>1, MoveEffect DEF Trying
      <4>2. QED
        BY <2>2, <4>1
    <3>2. CASE Install
      <4>1. SetsRecord(Last, [listed |-> records[Last].listed, moved |-> records[Last].moved, installed |-> TRUE,
                              backup |-> records[Last].backup]) /\ pc' = "write"
        BY <2>2, <3>2, InstallEffect DEF Trying
      <4>2. QED
        BY <2>2, <3>2, <4>1
    <3>3. QED
      BY <1>5, <3>1, <3>2
  <2>4. /\ Listed' = Listed /\ Last' = Last /\ records'[Last] = r
        /\ \A g \in Files : g # Last => records'[g] = records[g]
    BY <2>1, <2>3, SameLast
  <2>5. Todo' = Todo
    BY <1>0, <2>4, SameTodo
  <2>6. ListedFirst' /\ pc' \in {"write", "recheck"}
    <3>1. pc' \in {"write", "recheck"}
      BY <1>5, <2>2, MoveEffect, InstallEffect DEF Trying
    <3>2. QED
      BY <2>1, <2>4, <2>5, <3>1 DEF InOrder, ListedFirst
  <2>7. ASSUME NEW f \in Listed, ~(f = Last /\ pc' = "recheck")
        PROVE  Replaced(f)'
    <3>1. CASE f = Last
      <4>1. Install /\ op.after[Last] # Missing /\ Cleared(Last)
        BY <2>3, <2>6, <2>7, <3>1 DEF UnderWay, Install
      <4>2. QED
        BY <1>0, <2>3, <2>4, <2>6, <2>7, <3>1, <4>1 DEF Replaced, Cleared
    <3>2. CASE f # Last
      <4>1. Replaced(f) /\ f \in Files
        BY <2>1, <3>2 DEF InOrder, Listed
      <4>2. QED
        BY <1>0, <2>4, <3>2, <4>1 DEF Replaced, Cleared
    <3>3. QED
      BY <3>1, <3>2
  <2>8. QED
    BY <2>4, <2>6, <2>7 DEF ReplacedSoFar
<1>6. CASE pc = "index" /\ pc' = "finish" /\ records' = records
  <2>1. Listed' = Listed /\ Last' = Last /\ Todo' = Todo
    BY <1>0, <1>6, SameListed, SameTodo
  <2>2. QED
    BY <1>0, <1>6, <2>1 DEF InOrder, ReplacedSoFar, Replaced, Cleared, Trying
<1>7. QED
  BY <1>1, <1>2, <1>3, <1>4, <1>5, <1>6, ForwardStep DEF Replacing

\* Only Install installs; what a record has moved aside stays its backup.
LEMMA InstalledStep ==
  ASSUME TypeOK, Placed, Placed', UnderWay, InOrder, RecordsAreSound, Next, NEW g \in Files, records'[g].installed
  PROVE  Cleared(g)'
<1>0. op' = op /\ records'[g] # NoRecord
  BY RecordsOfJob DEF NoRecord
<1>1. records[g].installed => Cleared(g)
  BY DEF InOrder
<1>2. CASE records'[g] = records[g]
  BY <1>0, <1>1, <1>2 DEF Cleared
<1>3. CASE records'[g] # records[g]
  <2>1. CASE Write
    <3>1. ASSUME NEW f \in Todo,
                 SetsRecord(f, [listed |-> TRUE, moved |-> records[f].moved, installed |-> records[f].installed,
                                backup |-> records[f].backup])
          PROVE  FALSE
      <4>1. ~records'[f].installed /\ f \in Files
        BY <2>1, <3>1, WriteLists
      <4>2. g # f
        BY <4>1
      <4>3. QED
        BY <1>3, <3>1, <4>2 DEF SetsRecord
    <3>2. QED
      BY <1>3, <2>1, <3>1, WriteEffect
  <2>2. ASSUME NEW f \in Files, f = Last, Listed # {}, Move \/ Install \/ Broken \/ Unlink \/ Relink
        PROVE  Cleared(g)'
    <3>1. g = f
      BY <1>3, <2>2, MoveEffect, InstallEffect, BrokenEffect, UnlinkEffect, RelinkEffect DEF SetsRecord
    <3>2. CASE Move
      <4>1. ~records[f].installed
        BY <2>2, <3>2 DEF UnderWay, Move
      <4>2. SetsRecord(f, [listed |-> records[f].listed, moved |-> TRUE, installed |-> records[f].installed,
                           backup |-> path[f]])
        BY <1>3, <2>2, <3>1, <3>2, MoveEffect
      <4>3. ~records'[f].installed
        BY <4>1, <4>2 DEF SetsRecord
      <4>4. QED
        BY <3>1, <4>3
    <3>3. CASE Install
      <4>1. Cleared(f)
        BY <2>2, <3>3 DEF UnderWay, Install
      <4>2. SetsRecord(f, [listed |-> records[f].listed, moved |-> records[f].moved, installed |-> TRUE,
                           backup |-> records[f].backup])
        BY <1>3, <2>2, <3>3, InstallEffect
      <4>3. records'[g].moved = records[g].moved /\ records'[g].backup = records[g].backup
        BY <3>1, <4>2 DEF SetsRecord
      <4>4. QED
        BY <1>0, <3>1, <4>1, <4>3 DEF Cleared
    <3>4. CASE Broken \/ Relink
      BY <1>0, <2>2, <3>1, <3>4, BrokenEffect, RelinkEffect DEF SetsRecord
    <3>5. CASE Unlink /\ ~Broken
      <4>1. SetsRecord(f, [listed |-> records[f].listed, moved |-> records[f].moved, installed |-> FALSE,
                           backup |-> records[f].backup])
        BY <2>2, <3>5, UnlinkEffect
      <4>2. ~records'[f].installed
        BY <4>1 DEF SetsRecord
      <4>3. QED
        BY <3>1, <4>2
    <3>6. QED
      BY <2>2, <3>2, <3>3, <3>4, <3>5
  <2>3. ~Edit /\ records' # records
    BY <1>3, EditEffect DEF memory
  <2>4. QED
    BY <1>0, <2>1, <2>2, <2>3, FileStep
<1>4. QED
  BY <1>2, <1>3

LEMMA InOrderStep ==
  ASSUME TypeOK, Placed, Placed', UnderWay, InOrder, RecordsAreSound, Next
  PROVE  InOrder'
<1>1. pc' \in Trying \cup {"finish"} =>
        ReplacedSoFar' /\ (pc' \in Trying => ListedFirst') /\ (pc' \in {"index", "finish"} => Todo' = {})
  BY ForwardOrder
<1>2. \A g \in Files : records'[g].installed => Cleared(g)'
  BY InstalledStep
<1>3. pc' \in Trying \cup {"finish"} => ReplacedSoFar'
  BY <1>1
<1>4. pc' \in Trying => ListedFirst'
  BY <1>1
<1>5. pc' \in {"index", "finish"} => Todo' = {}
  BY <1>1 DEF Trying
<1>6. QED
  BY <1>2, <1>3, <1>4, <1>5 DEF InOrder, ReplacedSoFar, ListedFirst

LEMMA RestoreSeesStep ==
  ASSUME TypeOK, TypeOK', Placed, Placed', PointIsOfJob, VersionsAreGiven, UnderWay, RestoreSees, Next
  PROVE  RestoreSees'
<1> SUFFICES ASSUME op'.kind = "restore", pc' \in {"lock"} \cup Trying, NEW g \in op'.paths,
                    path'[g] = point'.after[g], op'.before[g] # point'.after[g]
             PROVE  path'[g] = Missing
  BY DEF RestoreSees
<1>0. g \in Files
  BY DEF TypeOK, Plans
<1>1. CASE RestoreStarts
  <2>1. op' = [op EXCEPT !.paths = point.paths, !.before = path, !.index = index, !.next = point.indexBefore,
                         !.after = [f \in Files |-> IF f \in point.paths THEN point.before[f] ELSE path[f]]]
        /\ path' = path
    BY <1>1 DEF RestoreStarts, End, Goto, InMemory, disk, Trying
  <2>2. op'.before = path'
    BY <2>1 DEF TypeOK, Plans
  <2>3. QED
    BY <2>2
<1>2. CASE ~RestoreStarts
  <2>1. pc \in Started /\ op' = op /\ pc' \in Started
    <3>1. pc' \in Started
      BY DEF Started
    <3>2. ~(Create /\ op' = op) /\ ~(op' = op /\ op.kind = "apply")
      BY DEF Create, Placed, Discards
    <3>3. QED
      BY <1>2, <3>1, <3>2, StartedStep
  <2>2. point' = point
    <3>1. ~Create /\ op.kind = "restore"
      BY <2>1 DEF Create, Placed, Discards
    <3>2. pc' \notin {"unlock", "giveUp"}
      BY DEF Trying
    <3>3. QED
      BY <1>2, <2>1, <3>1, <3>2, StartedStep
  <2>3. pc \in {"lock"} \cup Trying
    <3>1. CASE pc' = "lock"
      <4>1. pc # "idle" /\ pc' # "expect"
        BY <2>1, <3>1 DEF Started, Trying, Undoing, Published
      <4>2. CASE Environment \/ Requests
        BY <3>1, <4>2, EnvironmentFrame, RequestFrame DEF memory
      <4>3. CASE Deciding \/ Lock \/ Looking \/ PublishIndex \/ StepFails \/ Crash \/ Ending \/ Restart
        BY <2>1, <3>1, <4>3, DecidingFrame, LookingFrame, EndingFrame
        DEF Lock, PublishIndex, StepFails, Crash, Restart, Continue, End, Goto, Started, Trying, Undoing, Published
      <4>4. CASE Replacing
        BY <3>1, <4>4 DEF Replacing, Write, Move, Install, Continue, Goto
      <4>5. CASE Rollback
        BY <3>1, <4>5 DEF Rollback, Undo, Unlink, Relink, RollbackFails, Broken, Continue, Goto
      <4>6. QED
        BY <4>2, <4>3, <4>4, <4>5, Groups
    <3>2. CASE pc' \in Trying
      BY <3>2, ForwardStep, LookingFrame, ReplacingFrame DEF Trying
    <3>3. QED
      BY <3>1, <3>2
  <2>4. CASE path'[g] = path[g]
    BY <2>1, <2>2, <2>3, <2>4 DEF RestoreSees
  <2>5. CASE path'[g] # path[g]
    <3>1. CASE Edit
      <4>1. path'[g] \in {path[g], Missing, version + 1}
        BY <1>0, <3>1, EditEffect DEF SetsPath
      <4>2. point.after[g] <= version /\ point.after[g] \in Nat /\ version \in Nat
        BY <1>0 DEF VersionsAreGiven, TypeOK, Points, Images
      <4>3. point.after[g] # version + 1
        BY <4>2
      <4>4. QED
        BY <2>2, <2>5, <4>1, <4>3
    <3>2. CASE Move \/ Install
      <4>1. pc \in {"move", "install"} /\ Listed # {}
        BY <3>2 DEF Move, Install, UnderWay
      <4>2. Last \in Files
        BY <4>1, LastIsListed
      <4>3. CASE path'[g] = Missing
        BY <4>3
      <4>4. CASE path'[g] # Missing
        <5>1. Install /\ g = Last /\ path'[g] = op.after[g]
          BY <1>0, <2>5, <3>2, <4>2, <4>4, MoveEffect, InstallEffect DEF SetsPath
        <5>2. op.after[g] = point.before[g] /\ op.before[g] \in {point.before[g], point.after[g]}
          BY <1>0, <2>1 DEF PointIsOfJob
        <5>3. QED
          BY <2>1, <2>2, <5>1, <5>2
      <4>5. QED
        BY <4>3, <4>4
    <3>3. CASE Broken \/ Unlink \/ Relink
      BY <3>3 DEF Broken, Unlink, Relink, Continue, Goto, Trying
    <3>4. QED
      BY <2>5, <3>1, <3>2, <3>3, FileStep
  <2>6. QED
    BY <2>4, <2>5
<1>3. QED
  BY <1>1, <1>2

-----------------------------------------------------------------------------
(* The inductive invariant holds.                                          *)

LEMMA SteadyInit ==
  ASSUME Init
  PROVE  Steady
<1>1. TypeOK
  <2>1. path \in Images /\ asides \in [Files -> SUBSET Nat] /\ work \in Images
    BY DEF Init, Images
  <2>2. index \in Indexes /\ head \in Nat /\ point \in Points /\ plan \in Plans /\ op \in Plans /\ queue \in Seq(Plans)
    BY NoPlanType DEF Init, Indexes
  <2>3. records \in [Files -> FileRecords]
    BY NoRecordType DEF Init
  <2>4. /\ lock \in {"free", "ours", "other", "stale"} /\ pc \in Places /\ (ownLock => lock = "ours")
        /\ alive \in BOOLEAN /\ closing \in BOOLEAN /\ failures \in BOOLEAN /\ ownLock \in BOOLEAN
    BY DEF Init, Places
  <2>5. epoch \in Nat /\ {version, requests, troubles} \subseteq Nat
    BY DEF Init
  <2>6. QED
    BY Zenon, <2>1, <2>2, <2>3, <2>4, <2>5 DEF TypeOK, FileRecords
<1>2. Placed
  BY DEF Init, Placed, Recording, Started, Trying, Undoing, Published
<1>3. PlansAreSound
  <2>1. PlanIsSound(NoPlan, version, work)
    BY NoPlanIsSound DEF Init
  <2>2. QED
    BY <2>1 DEF Init, PlansAreSound
<1>4. VersionsAreGiven
  BY DEF Init, VersionsAreGiven, NoRecord, NoPoint, NoFiles, Missing
<1>5. OnlyDiscard
  BY DEF Init, OnlyDiscard, NoPoint, NoPlan, Discards
<1>6. PointIsOfJob /\ RestoreSees
  BY DEF Init, PointIsOfJob, RestoreSees, NoPlan, Discards
<1>7. \A f \in Files : RecordIsSound(f)
  BY DEF Init, RecordIsSound, NoRecord
<1>8. UnderWay
  BY DEF Init, UnderWay
<1>9. InOrder
  BY DEF Init, InOrder, NoRecord, Trying
<1>10. QED
  BY <1>1, <1>2, <1>3, <1>4, <1>5, <1>6, <1>7, <1>8, <1>9 DEF Steady

LEMMA SteadyNext ==
  ASSUME Steady, Next
  PROVE  Steady'
<1>0. /\ TypeOK /\ Placed /\ PlansAreSound /\ VersionsAreGiven /\ OnlyDiscard /\ PointIsOfJob
      /\ RecordsAreSound /\ UnderWay /\ InOrder /\ RestoreSees
  BY DEF Steady, RecordsAreSound
<1>1. TypeOK' /\ Placed'
  BY <1>0, TypeStep, PlacedStep DEF RecordsAreSound
<1>2. PlansAreSound' /\ VersionsAreGiven'
  BY <1>0, <1>1, PlansStep, VersionsStep
<1>3. OnlyDiscard' /\ PointIsOfJob'
  BY <1>0, <1>1, OnlyDiscardStep, PointOfJobStep
<1>4. RecordsAreSound' /\ UnderWay'
  BY <1>0, <1>1, RecordsStep, UnderWayStep
<1>5. InOrder' /\ RestoreSees'
  BY <1>0, <1>1, InOrderStep, RestoreSeesStep
<1>6. QED
  BY <1>1, <1>2, <1>3, <1>4, <1>5 DEF Steady, RecordsAreSound

LEMMA SteadyStutter ==
  ASSUME Steady, UNCHANGED vars
  PROVE  Steady'
<1>1. UNCHANGED <<path, asides, index, head, lock, point, alive, closing, epoch, plan, queue, op, pc, records,
                  failures, ownLock, work, version, requests, troubles>>
  BY DEF vars, disk, memory, counts
<1>2. Listed' = Listed /\ Last' = Last /\ Todo' = Todo
  BY <1>1, SameListed, SameTodo
<1>3. TypeOK' /\ Placed'
  BY <1>1 DEF Steady, TypeOK, Placed, Discards
<1>4. PlansAreSound' /\ VersionsAreGiven'
  BY <1>1 DEF Steady, PlansAreSound, PlanIsSound, VersionsAreGiven
<1>5. OnlyDiscard' /\ PointIsOfJob' /\ RestoreSees'
  BY <1>1 DEF Steady, OnlyDiscard, PointIsOfJob, RestoreSees, Discards
<1>6. \A f \in Files : RecordIsSound(f)'
  BY <1>1 DEF Steady, RecordIsSound
<1>7. UnderWay' /\ InOrder'
  BY <1>1, <1>2 DEF Steady, UnderWay, InOrder, Cleared, Replaced
<1>8. QED
  BY <1>3, <1>4, <1>5, <1>6, <1>7 DEF Steady

\* Records, plans, versions, the recovery point and the place of the job fit together.
THEOREM SteadyHolds == Spec => []Steady
<1>1. Steady /\ [Next]_vars => Steady'
  BY SteadyNext, SteadyStutter
<1>2. QED
  BY <1>1, SteadyInit, PTL DEF Spec

\* Every variable keeps its type, and the lock this application counts as its
\* own is its own (git-mutations.ts, recovery-store.ts, file-transaction.ts).
THEOREM TypeCorrect == Spec => []TypeOK
<1>1. Steady => TypeOK
  BY DEF Steady
<1>2. QED
  BY <1>1, SteadyHolds, PTL

\* The index.lock of another Git process goes only when that process has written
\* the index: a job removes the lock only while it is its own.
THEOREM ForeignLockIsKept == Spec => ForeignLockKept
<1>1. Steady /\ [Next]_vars => [lock = "other" => lock' = "other" \/ index'.rest # index.rest]_vars
  <2> SUFFICES ASSUME Steady, Next, lock = "other"
               PROVE  lock' = "other" \/ index'.rest # index.rest
    OBVIOUS
  <2>1. TypeOK /\ ~ownLock /\ pc \notin Trying
    BY DEF Steady, TypeOK, Placed
  <2>2. CASE Environment
    <3>1. CASE GitWrites
      <4>1. PICK s : index' = [sel |-> s, rest |-> index.rest + 1]
        BY <3>1 DEF GitWrites
      <4>2. index.rest \in Nat
        BY <2>1 DEF TypeOK, Indexes
      <4>3. QED
        BY <4>1, <4>2
    <3>2. CASE Edit \/ GitLocks \/ RemoveStaleLock
      BY <3>2 DEF Edit, GitLocks, RemoveStaleLock
    <3>3. QED
      BY <2>2, <3>1, <3>2 DEF Environment
  <2>3. CASE Requests \/ Deciding \/ Looking \/ Replacing \/ Rollback
    BY <2>3, RequestFrame, DecidingFrame, LookingFrame, ReplacingFrame, RollbackFrame DEF disk
  <2>4. CASE Lock \/ PublishIndex \/ Unlock
    BY <2>1, <2>4 DEF Lock, PublishIndex, Unlock, Trying
  <2>5. CASE Ending /\ ~Unlock
    BY <2>5 DEF Ending, Finish, Applied, Restored, Undone, StatusFails, SetStatus, InMemory, disk
  <2>6. CASE StepFails \/ Crash \/ Restart
    BY <2>6 DEF StepFails, Crash, Restart, disk
  <2>7. QED
    BY <2>2, <2>3, <2>4, <2>5, <2>6, Groups
<1>2. QED
  BY <1>1, SteadyHolds, PTL DEF Spec, ForeignLockKept

-----------------------------------------------------------------------------
(* What editors wrote is kept.                                             *)

LEMMA AsidesGrow ==
  ASSUME TypeOK, UnderWay, Next, NEW g \in Files
  PROVE  asides[g] \subseteq asides'[g]
<1>1. CASE Broken /\ Listed # {}
  <2>1. Last \in Files
    BY <1>1, LastIsListed
  <2>2. QED
    BY <1>1, <2>1, BrokenEffect
<1>2. CASE Crash
  BY <1>2 DEF Crash
<1>3. QED
  BY <1>1, <1>2, AsidesStep

\* A recovery point that is there stays, and only the end of a job changes its status.
LEMMA PointKept ==
  ASSUME TypeOK, Placed, OnlyDiscard, Next, point.status # "none"
  PROVE  /\ point'.status # "none" /\ point'.paths = point.paths
         /\ point'.before = point.before /\ point'.after = point.after
         /\ point'.status = point.status \/ Ending
<1>1. ~Create
  BY DEF Create, Placed, OnlyDiscard
<1>2. ASSUME NEW s \in Statuses \ {"none"}, point' = [point EXCEPT !.status = s]
      PROVE  /\ point'.status = s /\ point'.paths = point.paths
             /\ point'.before = point.before /\ point'.after = point.after
  BY <1>2 DEF TypeOK, Points
<1>3. point.status \in Statuses \ {"none"}
  BY DEF TypeOK, Points
<1>4. QED
  BY <1>1, <1>2, <1>3, PointStep

\* The images of a file that a job has a record of are saved.
LEMMA ImagesAreSaved ==
  ASSUME TypeOK, Placed, PlansAreSound, PointIsOfJob, RecordsAreSound, NEW f \in Files, records[f] # NoRecord
  PROVE  point.status # "none" /\ {op.before[f], op.after[f]} \subseteq {point.before[f], point.after[f]}
BY RecordsArePointed DEF PointIsOfJob

\* A step at the file of the last record leaves the others alone.
LEMMA OtherFile ==
  ASSUME TypeOK, NEW f \in Files, f = Last, NEW g \in Files, g # f, Move \/ Install \/ Broken \/ Unlink \/ Relink
  PROVE  path'[g] = path[g] /\ records'[g] = records[g]
<1>1. path' = path \/ SetsPath(f, path'[f])
  BY MoveEffect, InstallEffect, BrokenEffect, UnlinkEffect, RelinkEffect DEF SetsPath
<1>2. records' = records \/ SetsRecord(f, records'[f])
  BY MoveEffect, InstallEffect, BrokenEffect, UnlinkEffect, RelinkEffect DEF SetsRecord
<1>3. QED
  BY <1>1, <1>2 DEF SetsPath, SetsRecord

\* How a step changes one file.
LEMMA StepAt ==
  ASSUME TypeOK, UnderWay, InOrder, RecordsAreSound, Next, NEW g \in Files
  PROVE  \/ path'[g] = path[g] /\ records'[g] = records[g] /\ work'[g] = work[g]
         \/ Edit /\ work'[g] = path'[g] /\ UNCHANGED <<records, pc, op, point, asides, failures>>
         \/ /\ Write /\ UNCHANGED <<path, work>> /\ g \in Todo /\ records[g] = NoRecord
            /\ records'[g] = [listed |-> TRUE, moved |-> FALSE, installed |-> FALSE, backup |-> Missing]
         \/ /\ Listed # {} /\ g = Last /\ work' = work
            /\ Move \/ Install \/ Broken \/ (Unlink /\ pc = "unlink" /\ ~Broken) \/ (Relink /\ ~Broken)
         \/ UNCHANGED <<path, work>> /\ records' = [f \in Files |-> NoRecord] /\ (Crash \/ Finish)
<1>1. CASE Edit
  <2>1. UNCHANGED <<records, pc, op, point, asides, failures>>
    BY <1>1, EditEffect DEF memory
  <2>2. work'[g] = path'[g] \/ (path'[g] = path[g] /\ work'[g] = work[g])
    BY <1>1, EditEffect DEF SetsPath
  <2>3. QED
    BY <1>1, <2>1, <2>2
<1>2. CASE Write /\ work' = work /\ path' = path
  <2>1. CASE records' = records
    BY <1>2, <2>1
  <2>2. ASSUME NEW f \in Todo,
               SetsRecord(f, [listed |-> TRUE, moved |-> records[f].moved, installed |-> records[f].installed,
                              backup |-> records[f].backup])
        PROVE  \/ records'[g] = records[g]
               \/ /\ g \in Todo /\ records[g] = NoRecord
                  /\ records'[g] = [listed |-> TRUE, moved |-> FALSE, installed |-> FALSE, backup |-> Missing]
    <3>1. CASE g = f
      <4>1. records'[g] = [listed |-> TRUE, moved |-> FALSE, installed |-> FALSE, backup |-> Missing]
        BY <1>2, <2>2, <3>1, WriteLists
      <4>2. g \notin Listed
        BY <3>1 DEF Todo
      <4>3. QED
        BY <3>1, <4>1, <4>2 DEF RecordsAreSound, RecordIsSound, Listed
    <3>2. CASE g # f
      BY <2>2, <3>2 DEF SetsRecord
    <3>3. QED
      BY <3>1, <3>2
  <2>3. QED
    BY <1>2, <2>1, <2>2, WriteEffect
<1>3. QED
  BY <1>1, <1>2, OtherFile, FileStep

LEMMA NoEditLostStep ==
  ASSUME Steady, ~EditInUnlink, NoEditLost, Next
  PROVE  NoEditLost'
<1>0. /\ TypeOK /\ Placed /\ PlansAreSound /\ OnlyDiscard /\ PointIsOfJob /\ RecordsAreSound /\ UnderWay /\ InOrder
  BY DEF Steady, RecordsAreSound
<1> SUFFICES ASSUME NEW g \in Files, work'[g] # Missing PROVE work'[g] \in Kept(g)'
  BY DEF NoEditLost
<1> DEFINE Image == IF point.status # "none" THEN {point.before[g], point.after[g]} ELSE {}
           Backup == IF records[g].moved THEN {records[g].backup} ELSE {}
<1>1. asides'[g] \cup Image \cup {path'[g]} \subseteq Kept(g)' /\ asides[g] \subseteq asides'[g]
      /\ (records'[g].moved => records'[g].backup \in Kept(g)')
  BY <1>0, AsidesGrow, PointKept DEF Kept
<1>2. work[g] # Missing => work[g] \in {path[g]} \cup asides[g] \cup Backup \cup Image
  BY DEF NoEditLost, Kept
<1> HIDE DEF Image
<1>3. CASE work'[g] = path'[g]
  BY <1>1, <1>3
<1>4. CASE path'[g] = path[g] /\ records'[g] = records[g] /\ work'[g] = work[g]
  BY <1>1, <1>2, <1>4
<1>5. CASE Crash
  BY <1>1, <1>2, <1>5 DEF Crash
<1>6. CASE Finish
  <2>1. work' = work /\ path' = path
    BY <1>6, EndingFrame DEF Ending
  <2>2. records[g].moved => records[g].backup \in Image
    <3> SUFFICES ASSUME records[g].moved PROVE records[g].backup \in Image
      OBVIOUS
    <3>1. g \in Listed /\ records[g] # NoRecord
      BY <1>0 DEF RecordsAreSound, RecordIsSound, NoRecord, Listed
    <3>2. records[g].backup = op.before[g]
      BY <1>0, <1>6, <3>1 DEF InOrder, Finish, Replaced, Cleared
    <3>3. QED
      BY <1>0, <3>1, <3>2, ImagesAreSaved DEF Image
  <2>3. QED
    BY <1>1, <1>2, <2>1, <2>2
<1>7. ASSUME Listed # {}, g = Last, work' = work
      PROVE  ~(Move \/ Install \/ Broken \/ (Unlink /\ pc = "unlink" /\ ~Broken) \/ (Relink /\ ~Broken))
             \/ work'[g] \in Kept(g)'
  <2>0. records[g].listed /\ records[g] # NoRecord
    BY <1>7, LastIsListed DEF NoRecord
  <2>1. CASE Move
    <3>1. ~records[g].moved
      BY <1>0, <1>7, <2>1 DEF UnderWay, Move
    <3>2. CASE path' = path /\ records' = records
      BY <1>4, <1>7, <3>2
    <3>3. CASE SetsRecord(g, [listed |-> records[g].listed, moved |-> TRUE, installed |-> records[g].installed,
                              backup |-> path[g]])
      <4>1. records'[g].moved /\ records'[g].backup = path[g]
        BY <3>3 DEF SetsRecord
      <4>2. QED
        BY <1>1, <1>2, <1>7, <3>1, <4>1
    <3>4. QED
      BY <1>0, <1>7, <2>1, <3>2, <3>3, MoveEffect
  <2>2. CASE Install
    <3>1. CASE path' = path /\ records' = records
      BY <1>4, <1>7, <3>1
    <3>2. CASE /\ path[g] = Missing
               /\ SetsRecord(g, [listed |-> records[g].listed, moved |-> records[g].moved, installed |-> TRUE,
                                 backup |-> records[g].backup])
      <4>1. records'[g].moved = records[g].moved /\ records'[g].backup = records[g].backup
        BY <3>2 DEF SetsRecord
      <4>2. QED
        BY <1>1, <1>2, <1>7, <3>2, <4>1
    <3>3. QED
      BY <1>0, <1>7, <2>2, <3>1, <3>2, InstallEffect
  <2>3. CASE Broken
    <3>1. path' = path /\ asides'[g] = IF records[g].moved THEN asides[g] \cup {records[g].backup} ELSE asides[g]
      BY <1>0, <1>7, <2>3, BrokenEffect
    <3>2. QED
      BY <1>1, <1>2, <1>7, <3>1
  <2>4. CASE Unlink /\ pc = "unlink" /\ ~Broken
    <3>1. /\ path[g] # Missing
          /\ SetsRecord(g, [listed |-> records[g].listed, moved |-> records[g].moved, installed |-> FALSE,
                            backup |-> records[g].backup])
      BY <1>0, <1>7, <2>4, UnlinkEffect
    <3>2. records'[g].moved = records[g].moved /\ records'[g].backup = records[g].backup
      BY <3>1 DEF SetsRecord
    <3>3. path[g] = op.after[g]
      BY <1>0, <1>7, <2>4, <3>1 DEF UnderWay
    <3>4. path[g] \in Image
      BY <1>0, <2>0, <3>3, ImagesAreSaved DEF Image
    <3>5. QED
      BY <1>1, <1>2, <1>7, <3>2, <3>4
  <2>5. CASE Relink /\ ~Broken
    <3>1. /\ ~(records[g].moved /\ path[g] # Missing)
          /\ SetsPath(g, IF records[g].moved THEN records[g].backup ELSE path[g])
      BY <1>0, <1>7, <2>5, RelinkEffect
    <3>2. path'[g] = IF records[g].moved THEN records[g].backup ELSE path[g]
      BY <3>1 DEF SetsPath
    <3>3. QED
      BY <1>1, <1>2, <1>7, <3>1, <3>2
  <2>6. QED
    BY <2>1, <2>2, <2>3, <2>4, <2>5
<1>8. CASE Write /\ UNCHANGED <<path, work>> /\ records[g] = NoRecord
  BY <1>1, <1>2, <1>8 DEF NoRecord
<1>9. QED
  BY <1>0, <1>3, <1>4, <1>5, <1>6, <1>7, <1>8, StepAt

\* Once a discard has been rolled back no job replaces a file any more.
LEMMA RolledBackStep ==
  ASSUME Steady, RolledBackIsClean, AtHome, Next
  PROVE  RolledBackIsClean'
<1>0. /\ TypeOK /\ Placed /\ PlansAreSound /\ OnlyDiscard /\ PointIsOfJob /\ RecordsAreSound /\ UnderWay /\ InOrder
  BY DEF Steady, RecordsAreSound
<1> SUFFICES ASSUME point'.status = "rolledBack", NEW g \in point'.paths
             PROVE  work'[g] \in {path'[g], Missing} /\ asides'[g] = {}
  BY DEF RolledBackIsClean
<1>1. CASE point.status = "rolledBack"
  <2>1. g \in point.paths /\ g \in Files
    BY <1>0, <1>1, PointKept DEF TypeOK, Points
  <2>2. \A f \in Files : records[f] = NoRecord
    BY <1>0, <1>1, RecordsArePointed DEF PointIsOfJob, Recording, Trying
  <2>3. Listed = {}
    BY <2>2 DEF Listed, NoRecord
  <2>4. asides'[g] = asides[g]
    <3>1. CASE Crash
      BY <2>1, <2>2, <3>1 DEF Crash, NoRecord
    <3>2. QED
      BY <1>0, <2>3, <3>1, AsidesStep
  <2>5. work'[g] = path'[g] \/ (work'[g] = work[g] /\ path'[g] = path[g])
    BY <1>0, <2>1, <2>3, StepAt
  <2>6. QED
    BY <1>1, <2>1, <2>4, <2>5 DEF RolledBackIsClean
<1>2. CASE point.status # "rolledBack"
  <2>1. CASE Create
    BY <2>1 DEF Create
  <2>2. [point EXCEPT !.status = point.status] = point
    BY <1>0 DEF TypeOK, Points
  <2>3. ASSUME NEW t \in Statuses \ {"none", "prepared"}, point' = [point EXCEPT !.status = t], Ending
        PROVE  work'[g] \in {path'[g], Missing} /\ asides'[g] = {}
    <3>1. ASSUME NEW s, point' = [point EXCEPT !.status = s]
          PROVE  s = "rolledBack" /\ point'.paths = point.paths
      BY <1>0, <3>1 DEF TypeOK, Points
    <3>2. pc = "undone" /\ Discards(op) /\ ~failures
      BY <1>2, <2>2, <2>3, <3>1, EndingFrame
    <3>3. g \in Files
      BY <1>0, <2>3, <3>1 DEF TypeOK, Points
    <3>4. records[g] = NoRecord
      BY <1>0, <3>2, <3>3 DEF Placed, Recording, Trying
    <3>5. work[g] \in {path[g], Missing} /\ asides[g] = {}
      BY <3>2, <3>3, <3>4 DEF AtHome, Pending, Undoing, NoRecord
    <3>6. QED
      BY <2>3, <3>5, EndingFrame
  <2>4. QED
    BY <1>0, <1>2, <2>1, <2>2, <2>3, PointStep
<1>3. QED
  BY <1>1, <1>2

\* A job gets to where it is not published or undone only from there.
LEMMA PendingStep ==
  ASSUME TypeOK, Placed, UnderWay, Next, pc' \in Pending, pc \in Started
  PROVE  pc \in Pending /\ op' = op /\ (failures => failures' \/ pc = "lock") /\ (pc' = "lock" => pc = "lock")
<1> USE DEF Pending, Trying, Undoing
<1>1. CASE Environment \/ Requests
  BY <1>1, EnvironmentFrame, RequestFrame DEF memory
<1>2. CASE Deciding \/ Crash \/ Restart
  BY <1>2, DecidingFrame DEF Crash, Restart, Started, Published, disk
<1>3. CASE Lock \/ PublishIndex \/ StepFails
  BY <1>3 DEF Lock, PublishIndex, StepFails, Continue, End, Goto, SameRecords
<1>4. CASE Looking \/ Replacing \/ Rollback
  <2>1. CASE Rollback
    <3>1. failures => failures'
      BY <2>1, RollbackEffect DEF Broken, Unlink, Relink
    <3>2. pc' # "lock"
      BY <2>1, RollbackEffect DEF Broken, Unlink, Relink, Continue, Goto
    <3>3. QED
      BY <2>1, <3>1, <3>2, RollbackFrame
  <2>2. CASE Replacing
    <3>1. pc' # "lock"
      BY <2>2 DEF Replacing, Write, Move, Install, Continue, Goto
    <3>2. QED
      BY <2>2, <3>1, ReplacingFrame
  <2>3. QED
    BY <1>4, <2>1, <2>2, LookingFrame
<1>5. CASE Ending
  BY <1>5, EndingFrame
<1>6. QED
  BY <1>1, <1>2, <1>3, <1>4, <1>5, Groups

\* While a discard is not published an editor's version is not taken away.
LEMMA AtHomeStep ==
  ASSUME Steady, ~EditInUnlink, AtHome, Next
  PROVE  AtHome'
<1>0. /\ TypeOK /\ Placed /\ PlansAreSound /\ OnlyDiscard /\ PointIsOfJob /\ RecordsAreSound /\ UnderWay /\ InOrder
  BY DEF Steady, RecordsAreSound
<1> SUFFICES ASSUME Discards(op'), pc' \in Pending, pc' = "lock" \/ ~failures', NEW g \in Files
             PROVE  /\ asides'[g] = {}
                    /\ work'[g] \in {path'[g], Missing} \cup (IF records'[g].moved THEN {records'[g].backup} ELSE {})
  BY DEF AtHome, Discards
<1>1. CASE Create
  <2>1. UNCHANGED <<path, asides, work>>
    BY <1>1 DEF Create, counts
  <2>2. point.status = "none"
    BY <1>0, <1>1 DEF Create, Placed, OnlyDiscard
  <2>3. QED
    BY <1>0, <2>1, <2>2 DEF OnlyDiscard
<1>2. CASE ~Create
  <2>1. pc \in Started /\ op' = op
    <3>1. ~RestoreStarts
      <4>1. SUFFICES ASSUME RestoreStarts PROVE FALSE
        OBVIOUS
      <4>2. op.kind = "restore" /\ op' \in {NoPlan, op'} /\ (op'.kind = op.kind \/ op' = NoPlan)
        BY <1>0, <4>1 DEF RestoreStarts, End, TypeOK, Plans
      <4>3. QED
        BY <4>2 DEF Discards, NoPlan
    <3>2. pc' \in Started
      BY DEF Pending, Started
    <3>3. QED
      BY <1>0, <1>2, <3>1, <3>2, StartedStep DEF Discards
  <2>2. pc \in Pending /\ (pc = "lock" \/ ~failures)
    BY <1>0, <2>1, PendingStep
  <2>3. Broken => pc' = "undo" /\ failures' = TRUE
    BY DEF Broken, Continue, Goto
  <2>4. ~Broken /\ ~Crash /\ ~Finish
    BY <2>2, <2>3 DEF Crash, Finish, Pending, Trying, Undoing
  <2>5. asides'[g] = {} /\ asides[g] = {}
    BY <1>0, <2>1, <2>2, <2>4, AsidesStep DEF AtHome, Discards
  <2>6. work[g] \in {path[g], Missing} \cup (IF records[g].moved THEN {records[g].backup} ELSE {})
    BY <2>1, <2>2 DEF AtHome, Discards
  <2>7. CASE work'[g] = path'[g] \/ (path'[g] = path[g] /\ records'[g] = records[g] /\ work'[g] = work[g])
    BY <2>5, <2>6, <2>7
  <2>8. CASE /\ UNCHANGED <<path, work>> /\ records[g] = NoRecord
    BY <2>5, <2>6, <2>8 DEF NoRecord
  <2>9. CASE Listed # {} /\ g = Last /\ work' = work /\ (Move \/ Install \/ (Unlink /\ pc = "unlink") \/ Relink)
    <3>0. records[g].listed /\ RecordIsSound(g)
      BY <1>0, <2>9, LastIsListed DEF RecordsAreSound
    <3>1. CASE path' = path /\ records' = records
      BY <2>7, <2>9, <3>1
    <3>2. CASE Move /\ ~(path' = path /\ records' = records)
      <4>1. /\ ~records[g].moved
            /\ SetsRecord(g, [listed |-> records[g].listed, moved |-> TRUE, installed |-> records[g].installed,
                              backup |-> path[g]])
        BY <1>0, <2>9, <3>2, MoveEffect DEF UnderWay, Move
      <4>2. records'[g].moved /\ records'[g].backup = path[g]
        BY <4>1 DEF SetsRecord
      <4>3. QED
        BY <2>5, <2>6, <2>9, <4>1, <4>2
    <3>3. CASE Install /\ ~(path' = path /\ records' = records)
      <4>1. /\ path[g] = Missing
            /\ SetsRecord(g, [listed |-> records[g].listed, moved |-> records[g].moved, installed |-> TRUE,
                              backup |-> records[g].backup])
        BY <1>0, <2>9, <3>3, InstallEffect
      <4>2. records'[g].moved = records[g].moved /\ records'[g].backup = records[g].backup
        BY <4>1 DEF SetsRecord
      <4>3. QED
        BY <2>5, <2>6, <2>9, <4>1, <4>2
    <3>4. CASE Unlink /\ pc = "unlink"
      <4>1. /\ path[g] # Missing
            /\ SetsRecord(g, [listed |-> records[g].listed, moved |-> records[g].moved, installed |-> FALSE,
                              backup |-> records[g].backup])
        BY <1>0, <2>4, <2>9, <3>4, UnlinkEffect
      <4>2. records'[g].moved = records[g].moved /\ records'[g].backup = records[g].backup
        BY <4>1 DEF SetsRecord
      <4>3. path[g] = op.after[g] /\ op.after[g] # Missing
        BY <1>0, <2>9, <3>0, <3>4, <4>1 DEF UnderWay, RecordIsSound
      <4>4. op.kind = "apply" /\ op.action # "stage" /\ g \in op.paths
        BY <2>1, <3>0 DEF Discards, RecordIsSound
      <4>5. op.after[g] # work[g]
        BY <1>0, <4>3, <4>4 DEF PlansAreSound, PlanIsSound
      <4>6. QED
        BY <2>5, <2>6, <2>9, <4>2, <4>3, <4>5
    <3>5. CASE Relink
      <4>1. /\ ~(records[g].moved /\ path[g] # Missing)
            /\ SetsPath(g, IF records[g].moved THEN records[g].backup ELSE path[g])
        BY <1>0, <2>4, <2>9, <3>5, RelinkEffect
      <4>2. path'[g] = IF records[g].moved THEN records[g].backup ELSE path[g]
        BY <4>1 DEF SetsPath
      <4>3. QED
        BY <2>5, <2>6, <2>9, <4>1, <4>2
    <3>6. QED
      BY <1>0, <2>9, <3>1, <3>2, <3>3, <3>4, <3>5, MoveEffect, InstallEffect
  <2>10. QED
    BY <1>0, <2>4, <2>7, <2>8, <2>9, StepAt
<1>3. QED
  BY <1>1, <1>2

\* No edit is lost to an operation, its rollback or a restore, and what counts as
\* rolled back is back, if no editor writes between the last look of a rollback
\* and its unlink (file-transaction.ts).
THEOREM NothingLost == ~EditInUnlink => (Spec => []NothingIsLost)
<1> SUFFICES ASSUME ~EditInUnlink PROVE Spec => []NothingIsLost
  OBVIOUS
<1>1. Init => Safe
  BY DEF Init, Safe, NothingIsLost, NoEditLost, RolledBackIsClean, AtHome, Kept, NoPoint, NoPlan, Discards
<1>2. Steady /\ Safe /\ Next => Safe'
  BY NoEditLostStep, RolledBackStep, AtHomeStep DEF Safe, NothingIsLost
<1>3. Steady /\ Safe /\ UNCHANGED vars => Safe'
  BY DEF vars, disk, memory, counts, Safe, NothingIsLost, NoEditLost, RolledBackIsClean, AtHome, Kept, Discards
<1>4. Steady /\ Safe /\ [Next]_vars => Safe'
  BY <1>2, <1>3
<1>5. Safe => NothingIsLost
  BY DEF Safe
<1>6. QED
  BY <1>1, <1>4, <1>5, SteadyHolds, PTL DEF Spec

-----------------------------------------------------------------------------
(* GitMutation implements GitChange.                                       *)

\* What the job hides of a file while it may still be undone, and the version
\* it shows instead.
Old(f) == IF records[f].moved THEN records[f].backup ELSE Missing
Hidden(f) == pc # "finish" /\ IF records[f].installed THEN path[f] = op.after[f] ELSE records[f].moved /\ path[f] = Missing

LEMMA ShownAt ==
  ASSUME NEW f \in Files, TypeOK
  PROVE  Shown[f] = IF Hidden(f) THEN Old(f) ELSE path[f]
<1>1. records[f].installed \in BOOLEAN /\ records[f].moved \in BOOLEAN
  BY DEF TypeOK
<1>2. QED
  BY <1>1 DEF Shown, Hidden, Old

LEMMA ShownNext ==
  ASSUME NEW f \in Files, TypeOK'
  PROVE  Shown'[f] = IF Hidden(f)' THEN Old(f)' ELSE path'[f]
<1>1. records'[f].installed \in BOOLEAN /\ records'[f].moved \in BOOLEAN
  BY DEF TypeOK
<1>2. QED
  BY <1>1 DEF Shown, Hidden, Old

\* Saved images are of some file.
PointHasPaths == point.status # "none" => point.paths # {}

LEMMA PointHasPathsStep ==
  ASSUME Steady, PointHasPaths, Next
  PROVE  PointHasPaths'
<1>0. TypeOK /\ Placed /\ OnlyDiscard /\ PlansAreSound /\ PointIsOfJob
  BY DEF Steady
<1>1. CASE point.status # "none"
  BY <1>0, <1>1, PointKept DEF PointHasPaths
<1>2. CASE point.status = "none" /\ Create
  BY <1>0, <1>2 DEF Create, Placed, Discards, PlansAreSound, PlanIsSound, PointHasPaths
<1>3. CASE point.status = "none" /\ ~Create
  <2>0. [point EXCEPT !.status = point.status] = point
    BY <1>0 DEF TypeOK, Points
  <2>1. Ending => point' = point
    <3> SUFFICES ASSUME Ending, point' # point PROVE FALSE
      OBVIOUS
    <3>1. pc \in {"applied", "restored"} \/ (pc = "undone" /\ Discards(op))
      BY <2>0, EndingFrame
    <3>2. pc \in {"applied", "restored"} => pc \in Started /\ (Discards(op) \/ op.kind = "restore")
      BY <1>0 DEF Placed, Started, Published
    <3>3. pc \in Started
      BY <3>1, <3>2 DEF Started, Undoing
    <3>4. QED
      BY <1>0, <1>3, <3>1, <3>2, <3>3 DEF PointIsOfJob
  <2>2. point' = point
    BY <1>0, <1>3, <2>0, <2>1, PointStep
  <2>3. QED
    BY <1>3, <2>2 DEF PointHasPaths
<1>4. QED
  BY <1>1, <1>2, <1>3

LEMMA ChangeInit ==
  ASSUME Init
  PROVE  Change!Init
<1>1. Shown = path
  BY DEF Init, Shown, NoRecord
<1>2. QED
  BY <1>1 DEF Init, Change!Init, Saved, NoPoint

\* What a job shows of a file it has no record of is what is there.
LEMMA ShownPlain ==
  ASSUME TypeOK, NEW f \in Files, records[f] = NoRecord
  PROVE  Shown[f] = path[f]
<1>1. Shown[f] = IF Hidden(f) THEN Old(f) ELSE path[f]
  BY ShownAt
<1>2. QED
  BY <1>1 DEF Hidden, NoRecord

LEMMA SameShown ==
  ASSUME \A f \in Files : Shown'[f] = Shown[f]
  PROVE  Shown' = Shown
<1>1. Shown = [f \in Files |-> Shown[f]] /\ Shown' = [f \in Files |-> Shown'[f]]
  BY DEF Shown
<1>2. QED
  BY <1>1

\* A step of the job at the file of the last record leaves what it shows, or gives it up.
LEMMA ShownAtLast ==
  ASSUME Steady, Steady', ~EditInUnlink, NEW g \in Files, Listed # {}, g = Last, op' = op,
         Move \/ Install \/ (Unlink /\ pc = "unlink" /\ ~Broken) \/ (Relink /\ ~Broken)
  PROVE  Shown'[g] = Shown[g]
<1>0. TypeOK /\ UnderWay /\ RecordIsSound(g) /\ pc # "finish" /\ TypeOK'
  BY DEF Steady, Move, Install, Unlink, Relink
<1>1. Shown[g] = IF Hidden(g) THEN Old(g) ELSE path[g]
  BY <1>0, ShownAt
<1>2. Shown'[g] = IF Hidden(g)' THEN Old(g)' ELSE path'[g]
  BY <1>0, ShownNext
<1>3. pc' # "finish"
  BY DEF Move, Install, Unlink, Relink, Continue, Goto, Broken
<1>4. records[g].listed
  BY LastIsListed
<1>5. CASE Move
  <2>1. ~records[g].moved /\ ~records[g].installed
    BY <1>0, <1>5 DEF UnderWay, Move
  <2>2. CASE path' = path /\ records' = records
    BY <1>1, <1>2, <2>1, <2>2 DEF Hidden
  <2>3. CASE /\ path[g] # Missing /\ SetsPath(g, Missing)
             /\ SetsRecord(g, [listed |-> records[g].listed, moved |-> TRUE, installed |-> records[g].installed,
                               backup |-> path[g]])
    <3>1. path'[g] = Missing /\ records'[g].moved /\ ~records'[g].installed /\ records'[g].backup = path[g]
      BY <2>1, <2>3 DEF SetsPath, SetsRecord
    <3>2. QED
      BY <1>1, <1>2, <1>3, <2>1, <3>1 DEF Hidden, Old
  <2>4. QED
    BY <1>0, <1>5, <2>2, <2>3, MoveEffect
<1>6. CASE Install
  <2>1. ~records[g].installed /\ op.after[g] # Missing
    BY <1>0, <1>6 DEF UnderWay, Install
  <2>2. CASE path' = path /\ records' = records
    BY <1>0, <1>1, <1>2, <1>3, <2>2 DEF Hidden, Old
  <2>3. CASE /\ path[g] = Missing /\ SetsPath(g, op.after[g])
             /\ SetsRecord(g, [listed |-> records[g].listed, moved |-> records[g].moved, installed |-> TRUE,
                               backup |-> records[g].backup])
    <3>1. /\ path'[g] = op.after[g] /\ records'[g].moved = records[g].moved /\ records'[g].installed
          /\ records'[g].backup = records[g].backup
      BY <2>3 DEF SetsPath, SetsRecord
    <3>2. QED
      BY <1>0, <1>1, <1>2, <1>3, <2>1, <2>3, <3>1 DEF Hidden, Old
  <2>4. QED
    BY <1>0, <1>6, <2>2, <2>3, InstallEffect
<1>7. CASE Unlink /\ pc = "unlink" /\ ~Broken
  <2>1. /\ path[g] # Missing /\ SetsPath(g, Missing)
        /\ SetsRecord(g, [listed |-> records[g].listed, moved |-> records[g].moved, installed |-> FALSE,
                          backup |-> records[g].backup])
    BY <1>0, <1>7, UnlinkEffect
  <2>2. path[g] = op.after[g] /\ records[g].installed
    BY <1>0, <1>7, <2>1 DEF UnderWay
  <2>3. /\ path'[g] = Missing /\ records'[g].moved = records[g].moved /\ ~records'[g].installed
        /\ records'[g].backup = records[g].backup
    BY <2>1 DEF SetsPath, SetsRecord
  <2>4. QED
    BY <1>0, <1>1, <1>2, <1>3, <2>2, <2>3 DEF Hidden, Old
<1>8. CASE Relink /\ ~Broken
  <2>1. /\ ~(records[g].moved /\ path[g] # Missing)
        /\ SetsPath(g, IF records[g].moved THEN records[g].backup ELSE path[g])
        /\ SetsRecord(g, NoRecord)
    BY <1>0, <1>8, RelinkEffect
  <2>2. ~records[g].installed
    BY <1>0, <1>8 DEF UnderWay, Relink
  <2>3. /\ path'[g] = IF records[g].moved THEN records[g].backup ELSE path[g]
        /\ ~records'[g].moved /\ ~records'[g].installed
    BY <2>1 DEF SetsPath, SetsRecord, NoRecord
  <2>4. QED
    BY <1>0, <1>1, <1>2, <2>1, <2>2, <2>3 DEF Hidden, Old
<1>9. QED
  BY <1>5, <1>6, <1>7, <1>8

LEMMA ShownSame ==
  ASSUME TypeOK, TypeOK', NEW g \in Files, path'[g] = path[g], records'[g] = records[g],
         records[g] = NoRecord \/ (op' = op /\ (pc' = "finish" <=> pc = "finish"))
  PROVE  Shown'[g] = Shown[g]
<1>1. Shown[g] = IF Hidden(g) THEN Old(g) ELSE path[g]
  BY ShownAt
<1>2. Shown'[g] = IF Hidden(g)' THEN Old(g)' ELSE path'[g]
  BY ShownNext
<1>3. QED
  BY <1>1, <1>2 DEF Hidden, Old, NoRecord

LEMMA SavedKept ==
  ASSUME TypeOK, Next, ~Create
  PROVE  Saved' = Saved
<1>1. ASSUME NEW s, point' = [point EXCEPT !.status = s]
      PROVE  Saved' = Saved
  BY <1>1 DEF Saved, TypeOK, Points
<1>2. point' = point => Saved' = Saved
  BY DEF Saved
<1>3. QED
  BY <1>1, <1>2, PointStep

\* Nothing changes for a change that is under way.
LEMMA SeesNothing ==
  ASSUME work' = work, index' = index, Saved' = Saved, \A g \in Files : Shown'[g] = Shown[g]
  PROVE  UNCHANGED Change!vars
BY SameShown DEF Change!vars

\* A record that is given up leaves a saved image, or no file, in the tree.
LEMMA GivenUp ==
  ASSUME Steady, NEW g \in Files
  PROVE  \/ Shown[g] = path[g]
         \/ /\ g \in point.paths /\ point.status # "none"
            /\ path[g] = Missing \/ {Shown[g], path[g]} \subseteq {point.before[g], point.after[g]}
<1>0. /\ TypeOK /\ Placed /\ PlansAreSound /\ PointIsOfJob /\ RecordsAreSound /\ RecordIsSound(g)
      /\ (records[g].installed => Cleared(g))
  BY DEF Steady, RecordsAreSound, InOrder
<1>1. Shown[g] = IF Hidden(g) THEN Old(g) ELSE path[g]
  BY <1>0, ShownAt
<1>2. CASE ~Hidden(g)
  BY <1>1, <1>2
<1>3. CASE Hidden(g)
  <2>1. records[g] # NoRecord
    BY <1>3 DEF Hidden, NoRecord
  <2>2. /\ g \in point.paths /\ point.status # "none"
        /\ {op.before[g], op.after[g]} \subseteq {point.before[g], point.after[g]}
    BY <1>0, <2>1, RecordsArePointed, ImagesAreSaved
  <2>3. CASE records[g].installed
    <3>1. path[g] = op.after[g] /\ Shown[g] = op.before[g]
      BY <1>0, <1>1, <1>3, <2>3 DEF Hidden, Old, Cleared
    <3>2. QED
      BY <2>2, <3>1
  <2>4. CASE ~records[g].installed
    BY <1>3, <2>2, <2>4 DEF Hidden
  <2>5. QED
    BY <2>3, <2>4
<1>4. QED
  BY <1>2, <1>3

LEMMA TearStep ==
  ASSUME Steady, PointHasPaths, work' = work, index' = index, Saved' = Saved,
         \A g \in Files : Shown'[g] \in {Shown[g], path[g]}
  PROVE  Change!Tear \/ UNCHANGED Change!vars
<1>1. CASE \A g \in Files : Shown'[g] = Shown[g]
  BY <1>1, SeesNothing
<1>2. CASE \E g \in Files : Shown'[g] # Shown[g]
  <2>1. point.paths # {}
    BY <1>2, GivenUp
  <2>2. ASSUME NEW g \in Files
        PROVE  \/ Shown'[g] = Shown[g]
               \/ g \in point.paths /\ Shown'[g] = 0
               \/ g \in point.paths /\ {Shown[g], Shown'[g]} \subseteq {point.before[g], point.after[g]}
    BY GivenUp DEF Missing
  <2>3. QED
    BY <2>1, <2>2 DEF Change!Tear, Saved
<1>3. QED
  BY <1>1, <1>2

LEMMA CrashSeen ==
  ASSUME Steady, Steady', PointHasPaths, Next, Crash
  PROVE  Change!Tear \/ UNCHANGED Change!vars
<1>0. TypeOK /\ TypeOK'
  BY DEF Steady
<1>1. ASSUME NEW g \in Files
      PROVE  Shown'[g] = path[g]
  <2>1. records'[g] = NoRecord /\ path' = path
    BY DEF Crash
  <2>2. Shown'[g] = IF Hidden(g)' THEN Old(g)' ELSE path'[g]
    BY <1>0, ShownNext
  <2>3. QED
    BY <2>1, <2>2 DEF Hidden, NoRecord
<1>2. work' = work /\ index' = index /\ Saved' = Saved
  BY <1>0 DEF Crash, Saved
<1>3. QED
  BY <1>1, <1>2, TearStep

LEMMA RollbackSeen ==
  ASSUME Steady, Steady', ~EditInUnlink, PointHasPaths, Next, Rollback
  PROVE  Change!Tear \/ UNCHANGED Change!vars
<1>0. TypeOK /\ TypeOK' /\ UnderWay /\ InOrder /\ RecordsAreSound
  BY DEF Steady, RecordsAreSound
<1>1. work' = work /\ index' = index /\ Saved' = Saved /\ op' = op /\ pc \in {"undo", "unlink", "relink"}
  BY RollbackFrame DEF Saved
<1>2. pc' # "finish"
  BY <1>0, RollbackEffect DEF Broken, Unlink, Relink, Continue, Goto
<1>3. ASSUME NEW g \in Files
      PROVE  Shown'[g] \in {Shown[g], path[g]}
  <2>1. CASE path'[g] = path[g] /\ records'[g] = records[g]
    BY <1>0, <1>1, <1>2, <2>1, ShownSame
  <2>2. CASE Listed # {} /\ g = Last /\ ((Unlink /\ pc = "unlink" /\ ~Broken) \/ (Relink /\ ~Broken))
    BY <1>1, <2>2, ShownAtLast
  <2>3. CASE g = Last /\ Broken
    <3>1. path'[g] = path[g] /\ records'[g] = NoRecord
      BY <1>0, <2>3, BrokenEffect DEF SetsRecord
    <3>2. Shown'[g] = IF Hidden(g)' THEN Old(g)' ELSE path'[g]
      BY <1>0, ShownNext
    <3>3. QED
      BY <3>1, <3>2 DEF Hidden, NoRecord
  <2>4. ASSUME Listed # {}, Broken \/ Unlink \/ Relink, g # Last
        PROVE  path'[g] = path[g] /\ records'[g] = records[g]
    BY <1>0, <2>4, LastIsListed, OtherFile
  <2>5. QED
    BY <1>0, <1>1, <2>1, <2>2, <2>3, <2>4, RollbackEffect DEF UnderWay
<1>4. QED
  BY <1>1, <1>3, TearStep

LEMMA ReplacingSeen ==
  ASSUME Steady, Steady', ~EditInUnlink, Next, Replacing
  PROVE  UNCHANGED Change!vars
<1>0. TypeOK /\ TypeOK' /\ UnderWay /\ InOrder /\ RecordsAreSound
  BY DEF Steady, RecordsAreSound
<1>1. work' = work /\ index' = index /\ Saved' = Saved /\ op' = op /\ pc # "finish"
  BY ReplacingFrame DEF Saved, counts
<1>2. pc' # "finish"
  BY DEF Replacing, Write, Move, Install, Continue, Goto
<1>3. ASSUME NEW g \in Files
      PROVE  Shown'[g] = Shown[g]
  <2>1. CASE path'[g] = path[g] /\ records'[g] = records[g]
    BY <1>0, <1>1, <1>2, <2>1, ShownSame
  <2>2. CASE Write
    <3>1. path' = path /\ (Todo = {} => records' = records)
      BY <1>0, <2>2, WriteEffect
    <3>2. ASSUME NEW f \in Todo,
                 SetsRecord(f, [listed |-> TRUE, moved |-> records[f].moved, installed |-> records[f].installed,
                                backup |-> records[f].backup])
          PROVE  Shown'[g] = Shown[g]
      <4>1. CASE g = f
        <5>1. records[g] = NoRecord
          BY <1>0, <4>1 DEF Todo, RecordsAreSound, RecordIsSound, Listed
        <5>2. records'[g] = [listed |-> TRUE, moved |-> FALSE, installed |-> FALSE, backup |-> Missing]
          BY <1>0, <2>2, <3>2, <4>1, WriteLists
        <5>3. Shown[g] = path[g]
          BY <1>0, <5>1, ShownPlain
        <5>4. Shown'[g] = IF Hidden(g)' THEN Old(g)' ELSE path'[g]
          BY <1>0, ShownNext
        <5>5. QED
          BY <3>1, <5>2, <5>3, <5>4 DEF Hidden
      <4>2. CASE g # f
        BY <2>1, <3>1, <3>2, <4>2 DEF SetsRecord
      <4>3. QED
        BY <4>1, <4>2
    <3>3. QED
      BY <1>0, <2>1, <2>2, <3>1, <3>2, WriteEffect
  <2>3. CASE Move \/ Install
    <3>1. Listed # {}
      BY <1>0, <2>3 DEF UnderWay, Move, Install
    <3>2. CASE g = Last
      BY <1>1, <2>3, <3>1, <3>2, ShownAtLast
    <3>3. CASE g # Last
      BY <1>0, <2>1, <2>3, <3>1, <3>3, LastIsListed, OtherFile
    <3>4. QED
      BY <3>2, <3>3
  <2>4. QED
    BY <2>2, <2>3 DEF Replacing
<1>4. QED
  BY <1>1, <1>3, SeesNothing

\* An editor's step is seen at its file, unless it uncovers a file moved aside.
LEMMA EditSeen ==
  ASSUME Steady, Steady', Next, Edit
  PROVE  Change!EditFile
<1>0. /\ TypeOK /\ TypeOK' /\ VersionsAreGiven /\ Placed /\ PlansAreSound /\ PointIsOfJob /\ RecordsAreSound
  BY DEF Steady, RecordsAreSound
<1>1. UNCHANGED <<records, op, pc, index, point>>
  BY <1>0, EditEffect DEF memory
<1>2. PICK f \in Files, v \in Nat :
        /\ (v = Missing /\ version' = version) \/ (v = version + 1 /\ version' = v)
        /\ SetsPath(f, v) /\ work' = [work EXCEPT ![f] = v]
  BY <1>0, EditEffect
<1>3. ASSUME NEW g \in Files, g # f
      PROVE  Shown'[g] = Shown[g]
  <2>1. path'[g] = path[g]
    BY <1>2, <1>3 DEF SetsPath
  <2>2. QED
    BY <1>0, <1>1, <2>1, ShownSame
<1>4. Shown' = [Shown EXCEPT ![f] = Shown'[f]]
  <2>1. Shown' = [g \in Files |-> Shown'[g]] /\ Shown = [g \in Files |-> Shown[g]]
    BY DEF Shown
  <2>2. QED
    BY <1>3, <2>1
<1>5. work'[f] = v /\ work' = [work EXCEPT ![f] = work'[f]] /\ path'[f] = v
  BY <1>0, <1>2 DEF SetsPath, TypeOK, Images
<1>6. Shown'[f] = v \/ (v = 0 /\ f \in point.paths)
  <2>1. Shown'[f] = IF Hidden(f)' THEN Old(f)' ELSE path'[f]
    BY <1>0, ShownNext
  <2>2. CASE ~Hidden(f)'
    BY <1>5, <2>1, <2>2
  <2>3. CASE Hidden(f)'
    <3>1. records[f] # NoRecord
      BY <1>1, <2>3 DEF Hidden, NoRecord
    <3>2. f \in point.paths
      BY <1>0, <3>1, RecordsArePointed
    <3>3. records[f].installed => op.after[f] # Missing
      BY <1>0 DEF RecordsAreSound, RecordIsSound
    <3>4. op.after[f] # version + 1
      <4>1. op.after[f] <= version /\ op.after[f] \in Nat /\ version \in Nat
        BY <1>0 DEF PlansAreSound, PlanIsSound, TypeOK, Plans, Images
      <4>2. QED
        BY <4>1
    <3>5. v = Missing
      BY <1>1, <1>2, <1>5, <2>3, <3>4 DEF Hidden
    <3>6. QED
      BY <3>2, <3>5 DEF Missing
  <2>4. QED
    BY <2>2, <2>3
<1>7. Saved.paths = point.paths /\ Saved' = Saved
  BY <1>1 DEF Saved
<1>8. QED
  BY <1>1, <1>4, <1>5, <1>6, <1>7 DEF Change!EditFile, Change!Uncovers

LEMMA CreateSeen ==
  ASSUME Steady, Steady', Next, Create
  PROVE  Change!Save
<1>0. TypeOK /\ TypeOK' /\ Placed /\ PlansAreSound /\ OnlyDiscard
  BY DEF Steady
<1>1. point.paths = {} /\ point'.paths # {}
  BY <1>0 DEF Placed, Create, Discards, OnlyDiscard, PlansAreSound, PlanIsSound
<1>2. UNCHANGED <<path, records, work, index>>
  BY DEF Create, SameRecords, counts
<1>3. records = [f \in Files |-> NoRecord]
  BY <1>0 DEF Create, Placed, Recording, Trying
<1>4. ASSUME NEW g \in Files
      PROVE  Shown'[g] = Shown[g]
  BY <1>0, <1>2, <1>3, ShownSame
<1>5. QED
  BY <1>1, <1>2, <1>4, SameShown DEF Change!Save, Saved

\* The steps that touch no record with a file, nor the file, show nothing.
LEMMA OthersSeeNothing ==
  ASSUME Steady, Steady', Next,
         GitLocks \/ RemoveStaleLock \/ Requests \/ (Deciding /\ ~Create) \/ Lock \/ Looking \/ StepFails \/ Restart
  PROVE  UNCHANGED Change!vars
<1>0. TypeOK /\ TypeOK' /\ Placed
  BY DEF Steady
<1>1. work' = work /\ index' = index /\ Saved' = Saved /\ path' = path /\ records' = records
  <2>1. CASE GitLocks \/ RemoveStaleLock
    BY <2>1 DEF GitLocks, RemoveStaleLock, memory, counts, Saved
  <2>2. CASE Requests
    BY <2>2, RequestFrame DEF disk, Saved
  <2>3. CASE Deciding /\ ~Create
    BY <1>0, <2>3, DecidingFrame, SavedKept
  <2>4. CASE Lock \/ StepFails \/ Restart
    BY <2>4 DEF Lock, StepFails, Restart, disk, counts, Fault, SameRecords, Saved
  <2>5. CASE Looking
    BY <2>5, LookingFrame DEF disk, counts, Saved
  <2>6. QED
    BY <2>1, <2>2, <2>3, <2>4, <2>5
<1>2. records = [f \in Files |-> NoRecord] \/ (op' = op /\ (pc' = "finish" <=> pc = "finish"))
  <2>1. CASE GitLocks \/ RemoveStaleLock \/ Requests \/ Restart
    BY <2>1, RequestFrame DEF GitLocks, RemoveStaleLock, Restart, memory
  <2>2. CASE Deciding \/ (pc = "lock" /\ Lock) \/ (StepFails /\ pc \notin Trying)
    BY <1>0, <2>2, DecidingFrame DEF Placed, Recording, Trying, StepFails
  <2>3. CASE Looking \/ (StepFails /\ pc \in Trying)
    BY <2>3, LookingFrame DEF StepFails, Continue, Goto, Trying
  <2>4. QED
    BY <2>1, <2>2, <2>3 DEF Lock
<1>3. ASSUME NEW g \in Files
      PROVE  Shown'[g] = Shown[g]
  BY <1>0, <1>1, <1>2, ShownSame
<1>4. QED
  BY <1>1, <1>3, SeesNothing

\* The backups are removed when the change counts: Finish shows what was shown.
LEMMA EndingSeen ==
  ASSUME Steady, Steady', Next, Ending
  PROVE  UNCHANGED Change!vars
<1>0. TypeOK /\ TypeOK' /\ Placed
  BY DEF Steady
<1>1. work' = work /\ index' = index /\ Saved' = Saved /\ path' = path
  <2>1. ~Create
    BY EndingFrame DEF Create
  <2>2. QED
    BY <1>0, <2>1, EndingFrame, SavedKept
<1>2. ASSUME NEW g \in Files
      PROVE  Shown'[g] = Shown[g]
  <2>1. CASE Finish
    <3>1. Shown[g] = IF Hidden(g) THEN Old(g) ELSE path[g]
      BY <1>0, ShownAt
    <3>2. Shown'[g] = IF Hidden(g)' THEN Old(g)' ELSE path'[g]
      BY <1>0, ShownNext
    <3>3. pc = "finish" /\ records'[g] = NoRecord
      BY <2>1 DEF Finish
    <3>4. QED
      BY <1>1, <3>1, <3>2, <3>3 DEF Hidden, NoRecord
  <2>2. CASE ~Finish
    <3>1. records' = records /\ pc \in {"applied", "unlock", "giveUp", "restored", "undone"}
      BY <2>2 DEF Ending, Applied, Unlock, Restored, Undone, StatusFails, SetStatus, SameRecords
    <3>2. records[g] = NoRecord
      BY <1>0, <3>1 DEF Placed, Recording, Trying
    <3>3. QED
      BY <1>0, <1>1, <3>1, <3>2, ShownSame
  <2>3. QED
    BY <2>1, <2>2
<1>3. QED
  BY <1>1, <1>2, SeesNothing

\* What a job that is about to publish shows of a file, and what it leads to.
LEMMA ReadyToPublish ==
  ASSUME Steady, Steady', pc = "index", pc' = "finish", UNCHANGED <<path, records, op>>, NEW g \in Files
  PROVE  /\ Shown'[g] = path[g]
         /\ IF g \notin op.paths \/ op.before[g] = op.after[g] THEN Shown[g] = path[g]
            ELSE \/ Shown[g] = op.before[g] /\ path[g] = op.after[g]
                 \/ Shown[g] = path[g] /\ path[g] # op.before[g]
                 \/ Shown[g] = Missing /\ path[g] = Missing /\ op.before[g] = Missing
<1>0. TypeOK /\ TypeOK' /\ InOrder /\ RecordIsSound(g)
  BY DEF Steady
<1>1. Shown[g] = IF Hidden(g) THEN Old(g) ELSE path[g]
  BY <1>0, ShownAt
<1>2. Shown'[g] = path[g]
  <2>1. Shown'[g] = IF Hidden(g)' THEN Old(g)' ELSE path'[g]
    BY <1>0, ShownNext
  <2>2. QED
    BY <2>1 DEF Hidden
<1>3. CASE g \notin op.paths \/ op.before[g] = op.after[g]
  <2>1. records[g] = NoRecord
    BY <1>0, <1>3 DEF RecordIsSound
  <2>2. QED
    BY <1>0, <1>2, <1>3, <2>1, ShownPlain
<1>4. CASE g \in op.paths /\ op.before[g] # op.after[g]
  <2>1. g \in Listed
    BY <1>0, <1>4 DEF InOrder, Todo
  <2>2. Cleared(g) /\ (records[g].installed <=> op.after[g] # Missing)
    BY <1>0, <2>1 DEF InOrder, Replaced, Trying
  <2>3. records[g].moved => records[g].backup = op.before[g] /\ op.before[g] # Missing /\ path[g] # op.before[g]
    BY <1>0, <2>2 DEF RecordIsSound, Cleared
  <2>4. ~records[g].moved => op.before[g] = Missing
    BY <2>2 DEF Cleared
  <2>5. QED
    BY <1>1, <1>2, <1>4, <2>2, <2>3, <2>4 DEF Hidden, Old
<1>5. QED
  BY <1>3, <1>4

LEMMA PublishSeen ==
  ASSUME Steady, Steady', PointHasPaths, Next, PublishIndex
  PROVE  Change!Discard \/ Change!Restore \/ Change!Stage \/ UNCHANGED Change!vars
<1>0. TypeOK /\ TypeOK' /\ Placed /\ PlansAreSound /\ PointIsOfJob /\ RestoreSees
  BY DEF Steady
<1>1. UNCHANGED <<path, records, op, point, work>> /\ Saved' = Saved /\ pc = "index"
  BY DEF PublishIndex, Continue, counts, Saved
<1>2. CASE index # op.index
  <2>1. index' = index /\ pc' = "undo"
    BY <1>2 DEF PublishIndex, Continue, Goto
  <2>2. \A g \in Files : Shown'[g] = Shown[g]
    BY <1>0, <1>1, <2>1, ShownSame
  <2>3. QED
    BY <1>1, <2>1, <2>2, SeesNothing
<1>3. CASE index = op.index
  <2>1. pc' = "finish"
    BY <1>3 DEF PublishIndex, Continue, Goto
  <2>2. index' = [index EXCEPT !.sel = op.next]
    BY <1>0, <1>3 DEF PublishIndex, TypeOK, Indexes
  <2>3. CASE Discards(op)
    <3>1. /\ point.status # "none" /\ point.paths = op.paths /\ point.before = op.before /\ point.after = op.after
          /\ point.indexBefore = index.sel /\ point.indexAfter = op.next
      BY <1>0, <1>1, <1>3, <2>3 DEF PointIsOfJob, Started, Trying
    <3>2. ASSUME NEW g \in Files
          PROVE  \/ Shown'[g] = IF g \in point.paths /\ Shown[g] = point.before[g] THEN point.after[g] ELSE Shown[g]
                 \/ g \in point.paths /\ point.before[g] = 0 /\ Shown[g] = 0 /\ Shown'[g] = 0
      BY <1>1, <2>1, <3>1, ReadyToPublish DEF Missing
    <3>3. QED
      BY <1>1, <2>2, <3>1, <3>2 DEF PointHasPaths, Saved, Change!Discard, Change!Replace
  <2>4. CASE op.kind = "restore"
    <3>1. /\ point.status # "none" /\ point.paths = op.paths /\ op.next = point.indexBefore
          /\ index.sel \in {point.indexBefore, point.indexAfter}
          /\ \A f \in op.paths : op.after[f] = point.before[f] /\ op.before[f] \in {point.before[f], point.after[f]}
      BY <1>0, <1>1, <1>3, <2>4 DEF PointIsOfJob, Started, Trying, TypeOK, Plans
    <3>2. \A f \in op.paths : path[f] = point.after[f] /\ op.before[f] # point.after[f] => path[f] = Missing
      BY <1>0, <1>1, <2>4 DEF RestoreSees, Trying
    <3>3. ASSUME NEW g \in Files
          PROVE  \/ Shown'[g] = IF g \in point.paths /\ Shown[g] = point.after[g] THEN point.before[g] ELSE Shown[g]
                 \/ g \in point.paths /\ point.after[g] = 0 /\ Shown[g] = 0 /\ Shown'[g] = 0
      BY <1>1, <2>1, <3>1, <3>2, ReadyToPublish DEF Missing
    <3>4. QED
      BY <1>1, <2>2, <3>1, <3>3 DEF PointHasPaths, Saved, Change!Restore, Change!Replace
  <2>5. CASE op.kind = "apply" /\ ~Discards(op)
    <3>1. \A f \in Files : op.before[f] = op.after[f]
      BY <1>0, <2>5 DEF Discards, PlansAreSound, PlanIsSound
    <3>2. \A g \in Files : Shown'[g] = Shown[g]
      BY <1>1, <2>1, <3>1, ReadyToPublish
    <3>3. index'.rest = index.rest
      BY <1>0, <2>2 DEF TypeOK, Indexes
    <3>4. QED
      BY <1>1, <3>2, <3>3, SameShown DEF Change!Stage
  <2>6. QED
    BY <1>0, <1>1, <2>3, <2>4, <2>5 DEF Placed, Started, Trying
<1>4. QED
  BY <1>2, <1>3

LEMMA ChangeNext ==
  ASSUME Steady, Steady', ~EditInUnlink, PointHasPaths, Next
  PROVE  Change!Next \/ UNCHANGED Change!vars
<1>1. CASE GitWrites
  <2>1. TypeOK /\ TypeOK'
    BY DEF Steady
  <2>2. UNCHANGED <<path, records, op, pc, work, point>>
    BY <1>1 DEF GitWrites, memory
  <2>3. \A g \in Files : Shown'[g] = Shown[g]
    BY <2>1, <2>2, ShownSame
  <2>4. index'.rest = index.rest + 1
    BY <1>1 DEF GitWrites
  <2>5. QED
    BY <2>2, <2>3, <2>4, SameShown DEF Change!Next, Change!EditIndex, Saved
<1>2. CASE Edit \/ Create \/ PublishIndex
  BY <1>2, EditSeen, CreateSeen, PublishSeen DEF Change!Next
<1>3. CASE Crash \/ Rollback
  BY <1>3, CrashSeen, RollbackSeen DEF Change!Next
<1>4. CASE Ending \/ Replacing
  BY <1>4, EndingSeen, ReplacingSeen
<1>5. QED
  BY <1>1, <1>2, <1>3, <1>4, OthersSeeNothing, Groups DEF Environment

\* The files of an operation and the index change at one moment or not at all,
\* and what others wrote is never replaced: stage, discard and restore of
\* git-mutations.ts carry out GitChange, if no editor writes between the last
\* look of a rollback and its unlink.
THEOREM ChangeImplemented == ~EditInUnlink => (Spec => ImplementsChange)
<1> SUFFICES ASSUME ~EditInUnlink PROVE Spec => ImplementsChange
  OBVIOUS
<1>1. Init => PointHasPaths
  BY DEF Init, PointHasPaths, NoPoint
<1>2. Steady /\ PointHasPaths /\ [Next]_vars => PointHasPaths'
  BY PointHasPathsStep DEF PointHasPaths, vars, disk
<1>3. Steady /\ Steady' /\ PointHasPaths /\ [Next]_vars => [Change!Next]_(Change!vars)
  <2> SUFFICES ASSUME Steady, Steady', PointHasPaths, [Next]_vars PROVE Change!Next \/ UNCHANGED Change!vars
    OBVIOUS
  <2>1. CASE Next
    BY <2>1, ChangeNext
  <2>2. CASE UNCHANGED vars
    BY <2>2 DEF vars, disk, memory, counts, Change!vars, Shown, Saved
  <2>3. QED
    BY <2>1, <2>2
<1>4. QED
  BY <1>1, <1>2, <1>3, ChangeInit, SteadyHolds, PTL DEF Spec, ImplementsChange, Change!Spec
=============================================================================
