---------------------------- MODULE MCTranscriptLog ---------------------------
(* Instances of TranscriptLog for TLC. *)
EXTENDS TranscriptLog
=============================================================================
