------------------------------ MODULE TurnSnapshot ------------------------------
(***************************************************************************)
(* TurnSnapshotService (src/main/git/turn-snapshot.ts) on one project: two *)
(* trees of the work tree bracket every turn of an agent, one taken while  *)
(* the model already answers and one after the turn has settled, and the   *)
(* manifest of the project keeps the latest of them.                       *)
(*                                                                         *)
(* The work tree is the sequence of the writes to it; a tree is the set of *)
(* the writes it holds.  Adding the files takes time: of the writes made   *)
(* meanwhile a tree has some.  A file that cannot be read stays as the     *)
(* private index of the project has it, from an earlier capture.  A        *)
(* snapshot is named by its turn; two with the same trees have the same    *)
(* id.                                                                     *)
(***************************************************************************)
EXTENDS Integers, Sequences, FiniteSets

CONSTANTS
  Runtimes,
  Retained,    \* RETAINED, the snapshots a manifest keeps
  MaxTurns,    \* bound: turns
  MaxWrites,   \* bound: writes to the work tree
  MaxFailures  \* bound: Git commands and file operations that fail, ends of the application

ASSUME TSBoundsAssumption == {MaxTurns, MaxWrites, MaxFailures} \subseteq Nat
ASSUME RetainedAssumption == Retained \in Nat \ {0}

VARIABLES
  writer,      \* of each write, the turn whose command made it
  turn,        \* the turns
  previous,    \* the manifest as the capture of a turn loaded it
  queue,       \* the captures of the project, one at a time
  from,        \* the writes made before the capture at the head began, or NotBegun
  index,       \* the writes in the private index of the project
  file, cache, \* the manifest, and what the service holds of it
  failures     \* bookkeeping

TSvars == <<writer, turn, previous, queue, from, index, file, cache, failures>>

-----------------------------------------------------------------------------
Turns    == 1..MaxTurns
NotBegun == -1
NoRecord == [snaps |-> <<>>, failed |-> FALSE]
Nothing  == [snaps |-> <<0>>, failed |-> FALSE]   \* no manifest is held

\* A turn runs; once it has settled, its capture waits for the baseline and for
\* the target, loads the manifest ("ranged" or "failing"), writes and holds it.
InCapture == {"settled", "target", "ranged", "failing", "writing", "renamed"}

UnusedTurn == [pc |-> "none", runtime |-> 0, ready |-> "no", baseline |-> "none", good |-> TRUE,
               tool |-> FALSE, early |-> FALSE, background |-> FALSE, unfinished |-> FALSE,
               base |-> {}, target |-> {}, unread |-> {}]

Records == [snaps : UNION {[1..n -> Turns] : n \in 0..Retained}, failed : BOOLEAN]

TSTypeOK ==
  /\ Len(writer) <= MaxWrites /\ \A i \in 1..Len(writer) : writer[i] \in Turns
  /\ turn \in [Turns ->
                   [pc : {"none", "running", "stored", "failed", "lost"} \cup InCapture,
                    runtime : Runtimes \cup {0}, ready : {"no", "yes", "unavailable"},
                    baseline : {"none", "done", "failed"}, good : BOOLEAN, tool : BOOLEAN,
                    early : BOOLEAN, background : BOOLEAN, unfinished : BOOLEAN,
                    base : SUBSET (1..Len(writer)), target : SUBSET (1..Len(writer)),
                    unread : SUBSET (1..Len(writer))]]
  /\ previous \in [Turns -> Records]
  /\ \A r \in Runtimes : Cardinality({t \in Turns : turn[t].pc = "running" /\ turn[t].runtime = r}) <= 1
  /\ \A i \in 1..Len(queue) : queue[i] \in [turn : Turns, what : {"base", "target"}]
  /\ from \in {NotBegun} \cup 0..Len(writer) /\ index \subseteq 1..Len(writer)
  /\ file \in Records /\ cache \in Records \cup {Nothing} /\ failures \in 0..MaxFailures

TSInit ==
  /\ writer = <<>> /\ turn = [t \in Turns |-> UnusedTurn]
  /\ previous = [t \in Turns |-> NoRecord]
  /\ queue = <<>> /\ from = NotBegun /\ index = {}
  /\ file = NoRecord /\ cache = Nothing /\ failures = 0

Fails == failures < MaxFailures /\ failures' = failures + 1

-----------------------------------------------------------------------------
(* Events of a runtime: observe.                                            *)

\* A turn of the runtime that has not settled ends here.
agent_start(r) ==
  /\ \E t \in Turns :
       /\ turn[t].pc = "none" /\ \A u \in 1..(t - 1) : turn[u].pc # "none"
       /\ turn' = [u \in Turns |->
            IF u = t THEN [UnusedTurn EXCEPT !.pc = "running", !.runtime = r]
            ELSE IF turn[u].pc = "running" /\ turn[u].runtime = r
                 THEN [turn[u] EXCEPT !.pc = "settled", !.tool = FALSE] ELSE turn[u]]
  /\ UNCHANGED <<writer, previous, queue, from, index, file, cache, failures>>

\* Faulty variant of Early: only the time of the settlement counts.
EarlyNever(t) == FALSE

\* The first tool starts before the baseline is there.
Early(t) == turn[t].baseline # "done"

tool_execution_start(t) ==
  /\ turn[t].pc = "running" /\ ~turn[t].tool
  /\ turn' = [turn EXCEPT ![t].tool = TRUE, ![t].early = @ \/ Early(t)]
  /\ UNCHANGED <<writer, previous, queue, from, index, file, cache, failures>>

\* A command may go on in the background.
tool_execution_end(t) ==
  /\ turn[t].pc = "running" /\ turn[t].tool
  /\ \E running \in BOOLEAN :
       turn' = [turn EXCEPT ![t].tool = FALSE, ![t].background = @ \/ running, ![t].unfinished = @ \/ running]
  /\ UNCHANGED <<writer, previous, queue, from, index, file, cache, failures>>

agent_settled(t) ==
  /\ turn[t].pc = "running" /\ ~turn[t].tool
  /\ turn' = [turn EXCEPT ![t].pc = "settled"]
  /\ UNCHANGED <<writer, previous, queue, from, index, file, cache, failures>>

\* The worker is terminated, and its commands with it.
desktop_runtime_stopped(t) ==
  /\ turn[t].pc = "running"
  /\ turn' = [turn EXCEPT ![t].pc = "settled", ![t].tool = FALSE, ![t].background = FALSE]
  /\ UNCHANGED <<writer, previous, queue, from, index, file, cache, failures>>

\* A command of a turn writes, in the background perhaps long after the turn.
Writes(t) ==
  /\ turn[t].tool \/ turn[t].background
  /\ Len(writer) < MaxWrites /\ writer' = Append(writer, t)
  /\ UNCHANGED <<turn, previous, queue, from, index, file, cache, failures>>

-----------------------------------------------------------------------------
(* Captures of trees.                                                       *)

Job(t, what) == [turn |-> t, what |-> what]

\* The project is authorized and a repository: the baseline joins the queue.
initialize(t) ==
  /\ turn[t].pc \in {"running", "settled"} /\ turn[t].ready = "no"
  /\ turn' = [turn EXCEPT ![t].ready = "yes"]
  /\ queue' = Append(queue, Job(t, "base"))
  /\ UNCHANGED <<writer, previous, from, index, file, cache, failures>>

unavailable(t) ==
  /\ turn[t].pc \in {"running", "settled"} /\ turn[t].ready = "no" /\ Fails
  /\ turn' = [turn EXCEPT ![t].ready = "unavailable"]
  /\ UNCHANGED <<writer, previous, queue, from, index, file, cache>>

captureTree ==
  /\ queue # <<>> /\ from = NotBegun
  /\ from' = Len(writer)
  /\ UNCHANGED <<writer, turn, previous, queue, index, file, cache, failures>>

\* Faulty variant of Unreadable: every capture begins with an empty index.
UnreadableAnew == SUBSET (1..from)

\* git add --ignore-errors leaves out files that it cannot read; what the index has of
\* them stays.
Unreadable == SUBSET ((1..from) \ index)

Tree(unread, some) == ((1..from) \ unread) \cup some
During == SUBSET ((from + 1)..Len(writer))

captured ==
  /\ from # NotBegun
  /\ \E unread \in Unreadable, some \in During :
       LET t == Head(queue).turn
       IN  /\ turn' = IF Head(queue).what = "base"
                      THEN [turn EXCEPT ![t].baseline = "done", ![t].base = Tree(unread, some)]
                      ELSE [turn EXCEPT ![t].pc = "ranged", ![t].target = Tree(unread, some),
                                        ![t].unread = unread]
           /\ index' = Tree(unread, some)
  /\ queue' = Tail(queue) /\ from' = NotBegun
  /\ UNCHANGED <<writer, previous, file, cache, failures>>

\* The files may have been added when a capture ends in between.
CutShort ==
  \/ UNCHANGED index
  \/ from # NotBegun /\ \E unread \in Unreadable, some \in During : index' = Tree(unread, some)

captureFails ==
  /\ from # NotBegun /\ Fails /\ CutShort
  /\ LET t == Head(queue).turn
     IN  turn' = IF Head(queue).what = "base" THEN [turn EXCEPT ![t].baseline = "failed"]
                                              ELSE [turn EXCEPT ![t].pc = "failing"]
  /\ queue' = Tail(queue) /\ from' = NotBegun
  /\ UNCHANGED <<writer, previous, file, cache>>

\* The settled turn has its baseline; its target joins the queue.
capture(t) ==
  /\ turn[t].pc = "settled" /\ turn[t].baseline = "done"
  /\ turn' = [turn EXCEPT ![t].pc = "target"]
  /\ queue' = Append(queue, Job(t, "target"))
  /\ UNCHANGED <<writer, previous, from, index, file, cache, failures>>

cannotCapture(t) ==
  /\ turn[t].pc = "settled" /\ (turn[t].ready = "unavailable" \/ turn[t].baseline = "failed")
  /\ turn' = [turn EXCEPT ![t].pc = "failing"]
  /\ UNCHANGED <<writer, previous, queue, from, index, file, cache, failures>>

-----------------------------------------------------------------------------
(* The manifest.                                                            *)

sameId(t, u) == turn[t].base = turn[u].base /\ turn[t].target = turn[u].target

\* store and recordFailure begin by loading what is there.
load(t) ==
  /\ turn[t].pc \in {"ranged", "failing"}
  /\ LET held == IF cache = Nothing THEN file ELSE cache
     IN  /\ previous' = [previous EXCEPT ![t] = held]
         /\ turn' = [turn EXCEPT ![t].pc = "writing", ![t].good = (turn[t].pc = "ranged")]
         /\ cache' = IF held = NoRecord THEN cache ELSE held
  /\ UNCHANGED <<writer, queue, from, index, file, failures>>

\* The entries of the manifest that are not this snapshot, in their order.
Nth(S, k) == CHOOSE i \in S : Cardinality({j \in S : j <= i}) = k
Others(t) ==
  LET snaps == previous[t].snaps
      kept  == {i \in 1..Len(snaps) : ~sameId(t, snaps[i])}
  IN  [k \in 1..Cardinality(kept) |-> snaps[Nth(kept, k)]]

\* Faulty variant of store: nothing is ever dropped.
storeAll(t) == [snaps |-> <<t>> \o Others(t), failed |-> FALSE]

storeSnapshot(t) ==
  LET all == <<t>> \o Others(t)
  IN  [snaps |-> SubSeq(all, 1, IF Len(all) < Retained THEN Len(all) ELSE Retained), failed |-> FALSE]

recordFailure(t) == [snaps |-> previous[t].snaps, failed |-> TRUE]

RecordOf(t) == IF turn[t].good THEN storeSnapshot(t) ELSE recordFailure(t)

renames(t) ==
  /\ turn[t].pc = "writing"
  /\ file' = RecordOf(t)
  /\ turn' = [turn EXCEPT ![t].pc = "renamed"]
  /\ UNCHANGED <<writer, previous, queue, from, index, cache, failures>>

\* write returns; a snapshot is published.
written(t) ==
  /\ turn[t].pc = "renamed"
  /\ cache' = RecordOf(t)
  /\ turn' = [turn EXCEPT ![t].pc = IF turn[t].good THEN "stored" ELSE "failed"]
  /\ UNCHANGED <<writer, previous, queue, from, index, file, failures>>

\* The range or the write fails: the failure is recorded, or given up as well.
captureEndsBadly(t) ==
  /\ turn[t].pc \in {"ranged", "writing"} /\ Fails
  /\ turn' = [turn EXCEPT ![t].pc = IF turn[t].pc = "writing" /\ ~turn[t].good THEN "failed" ELSE "failing"]
  /\ UNCHANGED <<writer, previous, queue, from, index, file, cache>>

\* The application ends; what was under way is gone, the manifest and the index stay.
Restart ==
  /\ Fails /\ CutShort
  /\ turn' = [t \in Turns |->
       IF turn[t].pc \in {"running"} \cup InCapture
       THEN [turn[t] EXCEPT !.pc = "lost", !.tool = FALSE, !.background = FALSE]
       ELSE [turn[t] EXCEPT !.background = FALSE]]
  /\ queue' = <<>> /\ from' = NotBegun /\ cache' = Nothing
  /\ UNCHANGED <<writer, previous, file>>

-----------------------------------------------------------------------------
TSNext ==
  \/ \E r \in Runtimes : agent_start(r)
  \/ \E t \in Turns :
       \/ tool_execution_start(t) \/ tool_execution_end(t) \/ Writes(t)
       \/ agent_settled(t) \/ desktop_runtime_stopped(t)
       \/ initialize(t) \/ unavailable(t) \/ capture(t) \/ cannotCapture(t)
       \/ load(t) \/ renames(t) \/ written(t) \/ captureEndsBadly(t)
  \/ captureTree \/ captured \/ captureFails
  \/ Restart

TSSpec == TSInit /\ [][TSNext]_TSvars

-----------------------------------------------------------------------------
\* The writes of the turn that its snapshot does not show.
Missing(t) == {w \in 1..Len(writer) : writer[w] = t} \ (turn[t].target \ turn[t].base)

\* A snapshot says what it misses: when a write of the turn is outside its range, then
\* its file could not be read at the end of the turn, or the snapshot carries the warning
\* that a tool started before the baseline was there, or a command that was still running
\* (src/main/git/turn-snapshot.ts, capture).
SaysWhatItMisses ==
  \A t \in Turns :
    turn[t].pc = "stored" /\ Missing(t) \ turn[t].unread # {} => turn[t].early \/ turn[t].unfinished

\* A snapshot shows no write as undone because a file could not be read, or a capture
\* was cut short: its second tree has everything the first one had, through the private
\* index that the captures of a project share (src/main/git/turn-snapshot.ts, captureTree).
NothingTakenBack ==
  \A t \in Turns : turn[t].pc = "stored" => turn[t].base \subseteq turn[t].target

\* What the range of a snapshot does not show of its turn is accounted for, and it shows
\* nothing as undone that is there.
RangesAreHonest == SaysWhatItMisses /\ NothingTakenBack

\* A snapshot that misses a write of its turn always carries a warning: what
\* docs/file-review-fr-11.md says of writes beside the baseline, for every cause.
PretendsNothing ==
  \A t \in Turns : turn[t].pc = "stored" /\ Missing(t) # {} => turn[t].early \/ turn[t].unfinished

\* The manifest of a project keeps its latest snapshots (docs/file-review-fr-11.md).
KeepsTheLatest ==
  Cardinality({t \in Turns : turn[t].pc = "stored"}) <= Retained =>
    \A t \in Turns : turn[t].pc = "stored" => \E i \in DOMAIN file.snaps : sameId(t, file.snaps[i])
=============================================================================
