----------------------------- MODULE MCToolCalls -----------------------------
(* Instances of ToolCalls for TLC: a tool of every kind that decisions tell apart. *)
EXTENDS ToolCalls
=============================================================================
