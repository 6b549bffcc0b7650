----------------------------- MODULE MCAgentHost -----------------------------
(* Small instances of AgentHost: the constants are numbers, so the cfg files *)
(* give them directly.                                                       *)
EXTENDS AgentHost
=============================================================================
