----------------------------- MODULE MCAgentLoop -----------------------------
(* Names for the checks. *)
EXTENDS AgentLoop

CONSTANTS file, sd
=============================================================================
