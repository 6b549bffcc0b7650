---------------------------- MODULE MCAgentManager ----------------------------
(* Small instances of AgentManager: one session, or two.                     *)
EXTENDS AgentManager

OneSession == {1}
TwoSessions == {1, 2}
=============================================================================
