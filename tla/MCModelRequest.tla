---------------------------- MODULE MCModelRequest ----------------------------
(* Instances of ModelRequest for TLC. *)
EXTENDS ModelRequest
=============================================================================
