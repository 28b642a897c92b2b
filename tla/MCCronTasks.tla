---------------------------- MODULE MCCronTasks ----------------------------
(* Instances of CronTasks for TLC. *)
EXTENDS CronTasks, TLC

\* Bound: nobody calls from a reload on.
CallsBeforeReloads == (phase \in {"stopping", "stopped"} \/ gen > 1) => call = [c \in Calls |-> IdleCall]

\* Bound: the file is followed up to the first update that is lost.
UndisturbedCalls == ~disturbed /\ CallsBeforeReloads

Symmetry == Permutations(Runs) \cup Permutations(Ticks)
=============================================================================
