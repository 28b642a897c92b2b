----------------------------- MODULE MCAgentLoop ----------------------------
(* Instances of AgentLoop for TLC. *)
EXTENDS AgentLoop

MCCallSizes == {0, 1}
=============================================================================
