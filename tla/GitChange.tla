------------------------------- MODULE GitChange -------------------------------
(***************************************************************************)
(* What GitMutationService promises a project that other programs write to *)
(* at the same time: a discard, a restore or a change of the index happens *)
(* at once or not at all; only a change that was saved before can be torn  *)
(* by a crash or a failure; what somebody else wrote is never overwritten. *)
(***************************************************************************)
EXTENDS Integers, FiniteSets

CONSTANT Files

VARIABLES
  tree,    \* the version of each file, 0 for none
  work,    \* what somebody else last left at its path
  index,   \* sel: the entries operations touch; rest: all others
  point    \* a recovery point and its images, or no paths

vars == <<tree, work, index, point>>

Init ==
  /\ tree = [f \in Files |-> 1] /\ work = tree
  /\ index = [sel |-> 0, rest |-> 0]
  /\ point.paths = {}

\* Anybody else writes or deletes a file, or changes the index.
\* Who creates a file where one is moved aside, and deletes it again, uncovers
\* the one that was there.
Uncovers(f) == work'[f] = 0 /\ f \in point.paths
EditFile ==
  /\ \E f \in Files :
       /\ work' = [work EXCEPT ![f] = work'[f]]
       /\ tree' = [tree EXCEPT ![f] = tree'[f]]
       /\ tree'[f] = work'[f] \/ Uncovers(f)
  /\ UNCHANGED <<index, point>>
EditIndex ==
  /\ index'.rest = index.rest + 1
  /\ UNCHANGED <<tree, work, point>>

\* The images are saved once, before the change they are for.
Save ==
  /\ point.paths = {}
  /\ point'.paths # {}
  /\ UNCHANGED <<tree, work, index>>

\* Every file that still is as the change expects it, and the index with them.
\* Who deletes the file a change has just created leaves none.
Replace(from, to) ==
  \A f \in Files :
    \/ tree'[f] = IF f \in point.paths /\ tree[f] = from[f] THEN to[f] ELSE tree[f]
    \/ f \in point.paths /\ from[f] = 0 /\ tree[f] = 0 /\ tree'[f] = 0

Discard ==
  /\ point.paths # {}
  /\ index.sel = point.indexBefore
  /\ Replace(point.before, point.after)
  /\ index' = [index EXCEPT !.sel = point.indexAfter]
  /\ UNCHANGED <<work, point>>
Restore ==
  /\ point.paths # {}
  /\ index.sel \in {point.indexBefore, point.indexAfter}
  /\ Replace(point.after, point.before)
  /\ index' = [index EXCEPT !.sel = point.indexBefore]
  /\ UNCHANGED <<work, point>>
Stage ==
  /\ index'.rest = index.rest
  /\ UNCHANGED <<tree, work, point>>

\* A crash or a failure in the middle: each saved file has one of its images,
\* or is moved aside; the index stays.
Tear ==
  /\ point.paths # {}
  /\ \A f \in Files :
       \/ tree'[f] = tree[f]
       \/ f \in point.paths /\ tree'[f] = 0
       \/ f \in point.paths /\ {tree[f], tree'[f]} \subseteq {point.before[f], point.after[f]}
  /\ UNCHANGED <<work, index, point>>

Next == EditFile \/ EditIndex \/ Save \/ Discard \/ Restore \/ Stage \/ Tear

Spec == Init /\ [][Next]_vars
=============================================================================
