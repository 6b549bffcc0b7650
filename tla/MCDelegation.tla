---------------------------- MODULE MCDelegation ----------------------------
(* Small instances of Delegation: all ids under one parent. *)
EXTENDS Delegation

CONSTANTS d1, d2, p1

OneDelegation  == {d1}
NoDelegation   == {}
TwoDelegations == {d1, d2}
OneParent      == {p1}
UnderOneParent == [d \in Delegations |-> p1]
=============================================================================
