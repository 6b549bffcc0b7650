-------------------------- MODULE DelegationContract --------------------------
(***************************************************************************)
(* What a delegation promises to the parent session, without workers,      *)
(* signals or coroutines: assertDelegationTransition of                    *)
(* src/shared/delegation.ts plus the rule that only `delegate_continue`    *)
(* begins a further run.  Terminal statuses are final within a run, a run  *)
(* is settled once, and a report only comes from a run that was running.   *)
(***************************************************************************)
EXTENDS Naturals

CONSTANTS Delegations
VARIABLES status, run

vars == <<status, run>>

Active   == {"pending", "running"}
Terminal == {"completed", "failed", "cancelled", "interrupted", "truncated"}

Init ==
  /\ status = [d \in Delegations |-> "absent"]
  /\ run = [d \in Delegations |-> 0]

Open(d) ==
  /\ status[d] = "absent"
  /\ status' = [status EXCEPT ![d] = "running"]
  /\ run' = [run EXCEPT ![d] = 1]

Rerun(d) ==
  /\ status[d] \in Terminal
  /\ \E next \in Active : status' = [status EXCEPT ![d] = next]
  /\ run' = [run EXCEPT ![d] = @ + 1]

Activate(d) ==
  /\ status[d] = "pending"
  /\ status' = [status EXCEPT ![d] = "running"]
  /\ UNCHANGED run

Close(d) ==
  /\ \/ /\ status[d] = "running"
        /\ \E outcome \in Terminal : status' = [status EXCEPT ![d] = outcome]
     \/ /\ status[d] = "pending"
        /\ \E outcome \in {"failed", "cancelled", "interrupted"} :
             status' = [status EXCEPT ![d] = outcome]
  /\ UNCHANGED run

Next == \E d \in Delegations : Open(d) \/ Rerun(d) \/ Activate(d) \/ Close(d)

Spec == Init /\ [][Next]_vars
=============================================================================
