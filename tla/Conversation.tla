---------------------------- MODULE Conversation ----------------------------
(***************************************************************************)
(* What a session promises to those who talk to it: the turns of one       *)
(* session key run one at a time, and each of them starts from everything  *)
(* the finished turns of that key have said.                               *)
(***************************************************************************)
CONSTANTS Keys, Turns, KeyOf

VARIABLES
    status,   \* "waiting", "running" or "over", per turn
    view,     \* the turns a run found in its history
    said      \* the turns of a key that are on record

vars == <<status, view, said>>

Init ==
    /\ status = [t \in Turns |-> "waiting"]
    /\ view = [t \in Turns |-> {}]
    /\ said = [k \in Keys |-> {}]

\* A turn runs alone on its key and sees all that is on record.
Run(t) ==
    /\ status[t] = "waiting"
    /\ \A u \in Turns : KeyOf[u] = KeyOf[t] => status[u] # "running"
    /\ status' = [status EXCEPT ![t] = "running"]
    /\ view' = [view EXCEPT ![t] = said[KeyOf[t]]]
    /\ UNCHANGED said

\* It ends, on record or without a trace.
Finish(t) ==
    /\ status[t] = "running"
    /\ status' = [status EXCEPT ![t] = "over"]
    /\ \/ said' = [said EXCEPT ![KeyOf[t]] = @ \cup {t}]
       \/ UNCHANGED said
    /\ UNCHANGED view

\* A turn may be refused, or fail before its run.
GiveUp(t) ==
    /\ status[t] = "waiting"
    /\ status' = [status EXCEPT ![t] = "over"]
    /\ UNCHANGED <<view, said>>

Next == \E t \in Turns : Run(t) \/ Finish(t) \/ GiveUp(t)

Spec == Init /\ [][Next]_vars
=============================================================================
