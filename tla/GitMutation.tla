------------------------------ MODULE GitMutation ------------------------------
(***************************************************************************)
(* Stage, discard and restore (src/main/git/git-mutations.ts) with the     *)
(* file transaction and the recovery point they are built from, while      *)
(* editors and other Git processes write to the same project, file         *)
(* operations fail, and the application ends at any moment.                *)
(*                                                                         *)
(* One window, one plan and one recovery point.  A version stands for the  *)
(* digest of a file's bytes and mode; 0 is a missing file.  Symbolic links *)
(* and paths that leave the project are not distinguished from files.      *)
(***************************************************************************)
EXTENDS Integers, Sequences, FiniteSets, FiniteSetsExt

CONSTANTS
  Files,        \* the paths of the comparison, in the order they are replaced
  Selections,   \* the sets of paths an operation may be asked for
  Untracked,    \* the paths a discard deletes, the others get another content
  MaxRequests,  \* bound: requests of the window
  MaxTroubles,  \* bound: edits, Git processes, failed operations and crashes
  EditInUnlink  \* may an edit fall between rollback's check and its unlink?

ASSUME BoundsAssumption ==
  /\ Files \subseteq Nat \ {0} /\ IsFiniteSet(Files)
  /\ Selections \subseteq (SUBSET Files) \ {{}} /\ Untracked \subseteq Files
  /\ {MaxRequests, MaxTroubles} \subseteq Nat
  /\ EditInUnlink \in BOOLEAN

VARIABLES
  \* on disk
  path,      \* the version at each path
  asides,    \* versions in files *.before that no transaction looks after
  index, head,
  lock,      \* index.lock: "free", "ours", "other" (a Git process), "stale"
  point,     \* the recovery point
  \* in memory
  alive, closing, epoch,
  plan,      \* the prepared operation, if any
  queue,     \* jobs behind the one that runs
  op, pc,    \* the job that runs
  records,   \* GitFileTransaction.installed, by file
  failures,  \* has a step of the rollback failed?
  ownLock,
  \* bookkeeping
  work,      \* what an editor last left at each path
  version,   \* versions given so far
  requests, troubles

disk   == <<path, asides, index, head, lock, point>>
memory == <<alive, closing, epoch, plan, queue, op, pc, records, failures, ownLock>>
counts == <<work, version, requests, troubles>>
vars   == <<disk, memory, counts>>

-----------------------------------------------------------------------------
Missing == 0

Images  == [Files -> Nat]
Indexes == [sel : Nat, rest : Nat]
NoFiles == [f \in Files |-> Missing]

\* What prepare was asked or has prepared: the comparison as it was seen, the
\* versions the operation leads to, the selected index entries after it.
Actions == {"none", "stage", "discard", "discardStaged"}
Plans   == [kind : {"none", "prepare", "apply", "restore"}, action : Actions, paths : SUBSET Files, before : Images,
            after : Images, index : Indexes, head : Nat, next : Nat, epoch : Nat]
NoPlan  == [kind |-> "none", action |-> "none", paths |-> {}, before |-> NoFiles,
            after |-> NoFiles, index |-> [sel |-> 0, rest |-> 0], head |-> 0, next |-> 0, epoch |-> 0]

Statuses == {"none", "prepared", "applied", "rolledBack", "needsAttention", "restored"}
Points   == [status : Statuses, paths : SUBSET Files, before : Images, after : Images,
             indexBefore : Nat, indexAfter : Nat, head : Nat]
NoPoint  == [status |-> "none", paths |-> {}, before |-> NoFiles, after |-> NoFiles,
             indexBefore |-> 0, indexAfter |-> 0, head |-> 0]

NoRecord == [listed |-> FALSE, moved |-> FALSE, installed |-> FALSE, backup |-> Missing]

\* Where a job stands: before the lock; under the lock and not yet published;
\* undoing; published.
Trying    == {"expect", "validate", "check", "write", "move", "recheck", "install", "index"}
Undoing   == {"undo", "unlink", "relink", "undone"}
Published == {"finish", "applied", "unlock", "restored"}
Places    == {"idle", "start", "prepared", "create", "lock", "giveUp"} \cup Trying \cup Undoing \cup Published

TypeOK ==
  /\ path \in Images /\ asides \in [Files -> SUBSET Nat]
  /\ index \in Indexes /\ head \in Nat /\ lock \in {"free", "ours", "other", "stale"}
  /\ point \in Points /\ plan \in Plans /\ op \in Plans /\ queue \in Seq(Plans)
  /\ alive \in BOOLEAN /\ closing \in BOOLEAN /\ failures \in BOOLEAN /\ ownLock \in BOOLEAN
  /\ pc \in Places
  /\ records \in [Files -> [listed : BOOLEAN, moved : BOOLEAN, installed : BOOLEAN, backup : Nat]]
  /\ ownLock => lock = "ours"
  /\ work \in Images /\ epoch \in Nat
  /\ {version, requests, troubles} \subseteq Nat

Init ==
  /\ path = [f \in Files |-> 1] /\ asides = [f \in Files |-> {}]
  /\ index = [sel |-> 0, rest |-> 0] /\ head = 0 /\ lock = "free" /\ point = NoPoint
  /\ alive = TRUE /\ closing = FALSE /\ epoch = 0 /\ plan = NoPlan /\ queue = <<>>
  /\ op = NoPlan /\ pc = "idle" /\ records = [f \in Files |-> NoRecord]
  /\ failures = FALSE /\ ownLock = FALSE
  /\ work = path /\ version = 1
  /\ requests = 0 /\ troubles = 0

-----------------------------------------------------------------------------
(* Everybody else.                                                         *)

Listed == {f \in Files : records[f].listed}
\* The record the rollback is at: the last of those left.
Last == Max(Listed)

Trouble == troubles < MaxTroubles /\ troubles' = troubles + 1

\* An editor saves, creates or deletes a file at its path.
Edit ==
  /\ Trouble
  /\ \E f \in Files, v \in {version + 1, Missing} :
       /\ path[f] # v
       /\ EditInUnlink \/ v = Missing \/ ~(pc = "unlink" /\ f = Last)
       /\ path' = [path EXCEPT ![f] = v] /\ work' = [work EXCEPT ![f] = v]
       /\ version' = IF v = Missing THEN version ELSE v
  /\ UNCHANGED <<asides, index, head, lock, point, memory, requests>>

GitLocks ==
  /\ lock = "free" /\ lock' = "other"
  /\ Trouble
  /\ UNCHANGED <<path, asides, index, head, point, memory, work, version, requests>>

\* git add, reset, commit: with or without the entries of the comparison.
GitWrites ==
  /\ lock = "other" /\ lock' = "free"
  /\ \E s \in {index.sel, version + 1} :
       /\ index' = [sel |-> s, rest |-> index.rest + 1]
       /\ version' = IF s = index.sel THEN version ELSE s
  /\ head' \in {head, head + 1}
  /\ UNCHANGED <<path, asides, point, memory, work, requests, troubles>>

\* After a crash the user removes the lock that was left behind.
RemoveStaleLock ==
  /\ lock = "stale" /\ lock' = "free"
  /\ UNCHANGED <<path, asides, index, head, point, memory, counts>>

-----------------------------------------------------------------------------
(* Requests of the window.                                                 *)

Accept == alive /\ requests < MaxRequests /\ requests' = requests + 1
JobOnly == UNCHANGED <<disk, op, pc, records, failures, ownLock, work, version, troubles>>

\* prepare, with the snapshot on display.
AskPrepare ==
  /\ Accept /\ ~closing
  /\ \E a \in Actions \ {"none"}, P \in Selections :
       queue' = Append(queue, [NoPlan EXCEPT !.kind = "prepare", !.action = a, !.paths = P, !.before = path,
                                             !.index = index, !.head = head, !.epoch = epoch])
  /\ UNCHANGED <<alive, closing, epoch, plan>> /\ JobOnly

\* Bound: one recovery point is made.
Discards(p) == p.kind = "apply" /\ p.action # "stage"
OneDiscard ==
  Discards(plan) => /\ point.status = "none" /\ ~Discards(op)
                    /\ \A i \in DOMAIN queue : ~Discards(queue[i])

\* apply uses the plan up at once; once queued it runs even if the window goes.
AskApply ==
  /\ Accept /\ ~closing /\ plan.kind = "apply" /\ OneDiscard
  /\ queue' = Append(queue, plan) /\ plan' = NoPlan
  /\ UNCHANGED <<alive, closing, epoch>> /\ JobOnly

\* restore looks at the repository before it is queued.
AskRestore ==
  /\ Accept /\ ~closing /\ point.status # "none"
  /\ queue' = Append(queue, [NoPlan EXCEPT !.kind = "restore", !.head = head])
  /\ UNCHANGED <<alive, closing, epoch, plan>> /\ JobOnly

\* cancel, and the timer of the plan.
Cancel ==
  /\ alive /\ plan.kind = "apply" /\ plan' = NoPlan
  /\ UNCHANGED <<alive, closing, epoch, queue, requests>> /\ JobOnly

releaseOwner ==
  /\ Accept /\ epoch' = epoch + 1 /\ plan' = NoPlan
  /\ UNCHANGED <<alive, closing, queue>> /\ JobOnly

Close ==
  /\ Accept /\ ~closing /\ closing' = TRUE /\ plan' = NoPlan
  /\ UNCHANGED <<alive, epoch, queue>> /\ JobOnly

-----------------------------------------------------------------------------
(* The job that runs: prepare.                                             *)

Goto(place) == alive /\ pc' = place
End == Goto("idle") /\ op' = NoPlan
Continue(place) == Goto(place) /\ UNCHANGED op
InMemory == UNCHANGED <<disk, alive, closing, epoch, counts>>
SameQueue == UNCHANGED <<alive, closing, epoch, plan, queue>>
SameRecords == UNCHANGED <<records, failures, ownLock>>

Dequeue ==
  /\ pc = "idle" /\ queue # <<>> /\ Goto("start")
  /\ op' = Head(queue) /\ queue' = Tail(queue)
  /\ UNCHANGED plan /\ SameRecords /\ InMemory

\* current: the comparison is what it was when it was displayed.
Current == path = op.before /\ index = op.index /\ head = op.head
Cancelled == closing \/ op.epoch # epoch

\* The images are read and the result computed in private files, which takes
\* its time; then everything is looked at again.
PrepareReads ==
  /\ pc = "start" /\ op.kind = "prepare"
  /\ IF ~Cancelled /\ Current THEN Continue("prepared") ELSE End
  /\ SameRecords /\ UNCHANGED <<plan, queue>> /\ InMemory

PrepareEnds ==
  /\ pc = "prepared" /\ End
  /\ IF Current /\ ~Cancelled
     THEN /\ version' = version + 1
          /\ plan' = [op EXCEPT !.kind = "apply",
                        !.after = [f \in Files |-> IF f \notin op.paths \/ op.action = "stage" THEN path[f]
                                                   ELSE IF f \in Untracked THEN Missing ELSE version + 1],
                        !.next = IF op.action = "discard" THEN index.sel ELSE version + 1]
     ELSE UNCHANGED <<plan, version>>
  /\ UNCHANGED <<queue, disk, alive, closing, epoch, work, requests, troubles>>
  /\ SameRecords

-----------------------------------------------------------------------------
(* apply and restore up to the lock.                                       *)

ApplyStarts ==
  /\ pc = "start" /\ op.kind = "apply"
  /\ IF ~Current THEN End ELSE Continue(IF op.action = "stage" THEN "lock" ELSE "create")
  /\ SameRecords /\ UNCHANGED <<plan, queue>> /\ InMemory

\* recovery.create: blobs, then the manifest, all synced before it returns.
Create ==
  /\ pc = "create" /\ Continue("lock")
  /\ point' = [status |-> "prepared", paths |-> op.paths, before |-> op.before, after |-> op.after,
               indexBefore |-> op.index.sel, indexAfter |-> op.next, head |-> op.head]
  /\ UNCHANGED <<path, asides, index, head, lock, counts>> /\ SameQueue /\ SameRecords

\* Faulty variant of Restorable: the files are not looked at.
RestorableAny ==
  /\ point.status \notin {"none", "restored", "rolledBack"}
  /\ index.sel \in {point.indexBefore, point.indexAfter}

\* Only what is as before or as after the operation is put back.
Restorable ==
  /\ point.status \notin {"none", "restored", "rolledBack"}
  /\ index.sel \in {point.indexBefore, point.indexAfter}
  /\ \A f \in point.paths : path[f] \in {point.before[f], point.after[f]}

RestoreStarts ==
  /\ pc = "start" /\ op.kind = "restore"
  /\ IF Restorable /\ op.head = point.head
     THEN /\ Goto("lock")
          /\ op' = [op EXCEPT !.paths = point.paths, !.before = path, !.index = index, !.next = point.indexBefore,
                              !.after = [f \in Files |-> IF f \in point.paths THEN point.before[f] ELSE path[f]]]
     ELSE End
  /\ SameRecords /\ UNCHANGED <<plan, queue>> /\ InMemory

-----------------------------------------------------------------------------
(* publish, under index.lock, with GitFileTransaction.apply.               *)

Lock ==
  /\ pc = "lock"
  /\ IF lock = "free"
     THEN /\ Continue("expect") /\ lock' = "ours" /\ ownLock' = TRUE /\ failures' = FALSE
     ELSE /\ End /\ UNCHANGED <<lock, ownLock, failures>>
  /\ UNCHANGED <<path, asides, index, head, point, counts, records>> /\ SameQueue

Look(place, ok, next) ==
  /\ pc = place
  /\ Continue(IF ok THEN next ELSE "undo")
  /\ SameRecords /\ UNCHANGED <<plan, queue>> /\ InMemory

Expect   == Look("expect", index = op.index, "validate")
Validate == Look("validate", IF op.kind = "restore" THEN head = point.head ELSE Current, "check")
Check    == Look("check", \A f \in op.paths : path[f] = op.before[f], "write")

\* The next file: its new content in a temporary file, and one more look.
Todo == {f \in op.paths : op.before[f] # op.after[f]} \ Listed
Write ==
  /\ pc = "write"
  /\ IF Todo = {}
     THEN Continue("index") /\ UNCHANGED records
     ELSE LET f == Min(Todo) IN
          /\ records' = [records EXCEPT ![f].listed = TRUE]
          /\ Continue(IF path[f] # op.before[f] THEN "undo"
                      ELSE IF op.before[f] = Missing THEN "install" ELSE "move")
  /\ UNCHANGED <<plan, queue, failures, ownLock>> /\ InMemory

\* The file is renamed to its backup.
Move ==
  /\ pc = "move"
  /\ IF path[Last] = Missing
     THEN Continue("undo") /\ UNCHANGED <<path, records>>
     ELSE /\ Continue("recheck")
          /\ records' = [records EXCEPT ![Last].moved = TRUE, ![Last].backup = path[Last]]
          /\ path' = [path EXCEPT ![Last] = Missing]
  /\ UNCHANGED <<asides, index, head, lock, point, counts, failures, ownLock>> /\ SameQueue

\* Faulty variant of Recheck: what was renamed is not looked at.
RecheckNot == Look("recheck", TRUE, IF op.after[Last] = Missing THEN "write" ELSE "install")

\* A writer that came between the look and the rename is noticed on the backup.
Recheck == Look("recheck", records[Last].backup = op.before[Last], IF op.after[Last] = Missing THEN "write" ELSE "install")

\* link does not overwrite a file that has appeared.
Install ==
  /\ pc = "install"
  /\ IF path[Last] # Missing
     THEN Continue("undo") /\ UNCHANGED <<path, records>>
     ELSE /\ Continue("write")
          /\ path' = [path EXCEPT ![Last] = op.after[Last]]
          /\ records' = [records EXCEPT ![Last].installed = TRUE]
  /\ UNCHANGED <<asides, index, head, lock, point, counts, failures, ownLock>> /\ SameQueue

\* Faulty variant of PublishIndex: the lock still counts as ours.
PublishIndexKeeps ==
  /\ pc = "index"
  /\ Continue("finish")
  /\ IF op.next = index.sel
     THEN UNCHANGED <<index, lock>>
     ELSE index' = [index EXCEPT !.sel = op.next] /\ lock' = "free"
  /\ UNCHANGED <<path, asides, head, point, counts, records, failures, ownLock>> /\ SameQueue

\* The lock file becomes the index, if the index changes; this publishes.
PublishIndex ==
  /\ pc = "index"
  /\ IF index # op.index
     THEN Continue("undo") /\ UNCHANGED <<index, lock, ownLock>>
     ELSE /\ Continue("finish")
          /\ IF op.next = index.sel
             THEN UNCHANGED <<index, lock, ownLock>>
             ELSE index' = [index EXCEPT !.sel = op.next] /\ lock' = "free" /\ ownLock' = FALSE
  /\ UNCHANGED <<path, asides, head, point, counts, records, failures>> /\ SameQueue

\* finish removes the backups.
Finish ==
  /\ pc = "finish"
  /\ Continue(IF Discards(op) THEN "applied" ELSE "unlock")
  /\ records' = [f \in Files |-> NoRecord]
  /\ UNCHANGED <<plan, queue, failures, ownLock>> /\ InMemory

SetStatus(s) ==
  /\ point' = [point EXCEPT !.status = s]
  /\ UNCHANGED <<path, asides, index, head, lock, counts>> /\ SameQueue /\ SameRecords

Applied == pc = "applied" /\ Continue("unlock") /\ SetStatus("applied")

\* Faulty variant of Unlock: index.lock is removed whoever owns it.
UnlockAny ==
  /\ pc \in {"unlock", "giveUp"}
  /\ IF pc = "unlock" /\ op.kind = "restore" THEN Continue("restored") ELSE End
  /\ lock' = "free"
  /\ ownLock' = FALSE
  /\ UNCHANGED <<path, asides, index, head, point, counts, records, failures>> /\ SameQueue

Unlock ==
  /\ pc \in {"unlock", "giveUp"}
  /\ IF pc = "unlock" /\ op.kind = "restore" THEN Continue("restored") ELSE End
  /\ lock' = IF ownLock THEN "free" ELSE lock
  /\ ownLock' = FALSE
  /\ UNCHANGED <<path, asides, index, head, point, counts, records, failures>> /\ SameQueue

Restored == pc = "restored" /\ End /\ SetStatus("restored")

-----------------------------------------------------------------------------
(* GitFileTransaction.rollback, last file first.                           *)

\* What is left of a file whose rollback fails stays where it is.
Broken ==
  /\ Continue("undo")
  /\ failures' = TRUE
  /\ records' = [records EXCEPT ![Last] = NoRecord]
  /\ asides' = [asides EXCEPT ![Last] = IF records[Last].moved THEN @ \cup {records[Last].backup} ELSE @]
  /\ UNCHANGED <<path, index, head, lock, point, ownLock>> /\ SameQueue

Undo ==
  /\ pc = "undo"
  /\ IF Listed # {} /\ records[Last].installed /\ path[Last] # op.after[Last]
     THEN Broken
     ELSE /\ Continue(IF Listed = {} THEN "undone" ELSE IF records[Last].installed THEN "unlink" ELSE "relink")
          /\ SameRecords /\ UNCHANGED disk /\ SameQueue
  /\ UNCHANGED counts

Unlink ==
  /\ pc = "unlink"
  /\ IF path[Last] = Missing
     THEN Broken
     ELSE /\ Continue("relink")
          /\ path' = [path EXCEPT ![Last] = Missing]
          /\ records' = [records EXCEPT ![Last].installed = FALSE]
          /\ UNCHANGED <<asides, index, head, lock, point, failures, ownLock>> /\ SameQueue
  /\ UNCHANGED counts

\* The backup is linked back unless something has taken its place.
Relink ==
  /\ pc = "relink"
  /\ IF records[Last].moved /\ path[Last] # Missing
     THEN Broken
     ELSE /\ Continue("undo")
          /\ path' = IF records[Last].moved THEN [path EXCEPT ![Last] = records[Last].backup] ELSE path
          /\ records' = [records EXCEPT ![Last] = NoRecord]
          /\ UNCHANGED <<asides, index, head, lock, point, failures, ownLock>> /\ SameQueue
  /\ UNCHANGED counts

Undone ==
  /\ pc = "undone" /\ Continue("giveUp")
  /\ SetStatus(IF ~Discards(op) THEN point.status
               ELSE IF failures THEN "needsAttention" ELSE "rolledBack")

-----------------------------------------------------------------------------
(* Faults.                                                                 *)

Fault == Trouble /\ UNCHANGED <<work, version, requests>>

\* An operation in the try block fails; a partial recovery point is removed.
StepFails ==
  /\ \/ pc \in {"start", "prepared", "create", "lock"} /\ End
     \/ pc \in Trying /\ Continue("undo")
  /\ Fault
  /\ UNCHANGED disk /\ SameQueue /\ SameRecords

RollbackFails == pc \in {"undo", "unlink", "relink"} /\ Listed # {} /\ Broken /\ Fault

\* The manifest cannot be written: after a complete rollback the code tries
\* once more with another status.
StatusFails ==
  /\ \/ pc = "applied" /\ Continue("unlock") /\ UNCHANGED point
     \/ pc = "restored" /\ End /\ UNCHANGED point
     \/ pc = "undone" /\ Discards(op) /\ Continue("giveUp") /\ UNCHANGED point
     \/ pc = "undone" /\ Discards(op) /\ ~failures /\ Continue("giveUp")
        /\ point' = [point EXCEPT !.status = "needsAttention"]
  /\ Fault
  /\ UNCHANGED <<path, asides, index, head, lock>> /\ SameQueue /\ SameRecords

\* The application ends, at any moment; its files stay as they are.
Crash ==
  /\ alive /\ Trouble
  /\ alive' = FALSE /\ closing' = FALSE /\ epoch' = 0 /\ plan' = NoPlan /\ queue' = <<>>
  /\ op' = NoPlan /\ pc' = "idle" /\ records' = [f \in Files |-> NoRecord]
  /\ failures' = FALSE /\ ownLock' = FALSE
  /\ asides' = [f \in Files |-> IF records[f].moved THEN asides[f] \cup {records[f].backup} ELSE asides[f]]
  /\ lock' = IF lock = "ours" THEN "stale" ELSE lock
  /\ UNCHANGED <<path, index, head, point, work, version, requests>>

Restart ==
  /\ ~alive /\ alive' = TRUE
  /\ UNCHANGED <<disk, closing, epoch, plan, queue, op, pc, records, failures, ownLock, counts>>

-----------------------------------------------------------------------------
Job == \/ Dequeue \/ PrepareReads \/ PrepareEnds \/ ApplyStarts \/ Create \/ RestoreStarts
       \/ Lock \/ Expect \/ Validate \/ Check \/ Write \/ Move \/ Recheck \/ Install \/ PublishIndex
       \/ Finish \/ Applied \/ Unlock \/ Restored \/ Undo \/ Unlink \/ Relink \/ Undone

Next == \/ Job
        \/ Edit \/ GitLocks \/ GitWrites \/ RemoveStaleLock
        \/ AskPrepare \/ AskApply \/ AskRestore \/ Cancel \/ releaseOwner \/ Close
        \/ StepFails \/ RollbackFails \/ StatusFails \/ Crash \/ Restart

Spec == Init /\ [][Next]_vars

-----------------------------------------------------------------------------
(* Properties.                                                             *)

Kept(f) ==
  {path[f]} \cup asides[f] \cup (IF records[f].moved THEN {records[f].backup} ELSE {})
            \cup (IF point.status # "none" THEN {point.before[f], point.after[f]} ELSE {})

\* Whatever an editor wrote last at a path is still at that path, in a backup
\* beside it or in the recovery point, however the write falls between the
\* steps of an operation, of its rollback or of a restore, and whatever fails.
NoEditLost == \A f \in Files : work[f] # Missing => work[f] \in Kept(f)

\* A point that counts as rolled back is hidden and refused by restore, so
\* nothing may be left to restore: every file is back and no backup remains.
RolledBackIsClean ==
  point.status = "rolledBack" =>
    \A f \in point.paths : work[f] \in {path[f], Missing} /\ asides[f] = {}

\* Neither an operation nor its rollback loses a file: what was there is at its
\* path or kept beside it, and what counts as undone is back.
NothingIsLost == NoEditLost /\ RolledBackIsClean

\* The lock of another Git process is its own, also when it was taken between
\* our rename of index.lock to index and the end of publish.
ForeignLockKept == [][lock = "other" => lock' = "other" \/ index'.rest # index.rest]_vars

\* The files and the index as they would be if the operation under way did not
\* happen, until it is published.
Shown == [f \in Files |->
  LET r == records[f] IN
  CASE pc = "finish" -> path[f]
    [] pc # "finish" /\ r.installed /\ path[f] = op.after[f] -> IF r.moved THEN r.backup ELSE Missing
    [] pc # "finish" /\ ~r.installed /\ r.moved /\ path[f] = Missing -> r.backup
    [] OTHER -> path[f]]

Saved == [paths |-> point.paths, before |-> point.before, after |-> point.after,
          indexBefore |-> point.indexBefore, indexAfter |-> point.indexAfter]

Change == INSTANCE GitChange WITH tree <- Shown, point <- Saved

\* All the files of an operation and the index change at one moment or not at
\* all, nothing but files with a saved image is ever torn, and no file or index
\* entry somebody else wrote is replaced: GitMutationService carries out GitChange.
ImplementsChange == Change!Spec

\* After an end of the application and the removal of its index.lock, the point
\* it left can be restored when nobody else has touched the project.
InterruptedRecoverable ==
  alive /\ pc = "idle" /\ point.status = "prepared" /\ index.rest = 0 /\ work = [f \in Files |-> 1] => Restorable
=============================================================================
