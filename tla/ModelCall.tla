------------------------------ MODULE ModelCall ------------------------------
(***************************************************************************)
(* What AgentLoop relies on when it asks a model: whatever is retried      *)
(* behind its back, it reads one answer, from one provider, that only      *)
(* grows, and then learns once how the call ended.                         *)
(***************************************************************************)
EXTENDS Sequences

CONSTANTS
    Speakers,    \* those who may answer
    Pieces,      \* what an answer is made of
    Nobody       \* not one of the Speakers

VARIABLES
    speaker,     \* whose answer it is; Nobody before its first piece
    said,        \* the pieces so far
    outcome      \* "open", then how the call ended

vars == <<speaker, said, outcome>>

Outcomes == {"answered", "failed", "stopped"}

Init == speaker = Nobody /\ said = <<>> /\ outcome = "open"

Say(s, piece) ==
    /\ outcome = "open"
    /\ speaker \in {Nobody, s}
    /\ speaker' = s
    /\ said' = Append(said, piece)
    /\ UNCHANGED outcome

Settle(o) ==
    /\ outcome = "open"
    /\ outcome' = o
    /\ UNCHANGED <<speaker, said>>

Next == (\E s \in Speakers, piece \in Pieces : Say(s, piece)) \/ (\E o \in Outcomes : Settle(o))

Spec == Init /\ [][Next]_vars
=============================================================================
