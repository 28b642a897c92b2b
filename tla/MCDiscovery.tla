---------------------------- MODULE MCDiscovery ----------------------------
(* Instances of Discovery for TLC. *)
EXTENDS Discovery

Disturbances == used.reruns + used.signals + used.edits

\* Bound: a behaviour has at most one rerun, signal or edit beside its faults.  It is
\* followed up to the first update that is lost, or to its end when a fault alone spoils it.
OneDisturbance ==
    /\ Disturbances <= 1
    /\ spoiled => used.faults > 0 /\ Disturbances = 0
=============================================================================
