----------------------------- MODULE MCAgentFeed -----------------------------
(* An agent that reports about a task from its own session or a tool's. *)
EXTENDS AgentFeed

CONSTANTS a1, t1, k1, k2
=============================================================================
