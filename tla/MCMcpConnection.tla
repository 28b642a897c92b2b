--------------------------- MODULE MCMcpConnection ---------------------------
(* Instances of McpConnection for TLC. *)
EXTENDS McpConnection
=============================================================================
