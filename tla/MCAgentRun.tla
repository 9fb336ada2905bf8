----------------------------- MODULE MCAgentRun -----------------------------
(* TLC instances of AgentRun. *)
EXTENDS AgentRun
=============================================================================
