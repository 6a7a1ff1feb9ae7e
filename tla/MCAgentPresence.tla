--------------------------- MODULE MCAgentPresence ---------------------------
(* AgentPresence for TLC: two processes started with the same slug.          *)
EXTENDS AgentPresence

CONSTANTS p1, p2
=============================================================================
