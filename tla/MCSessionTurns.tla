--------------------------- MODULE MCSessionTurns ---------------------------
(* Instances of SessionTurns for TLC. *)
EXTENDS SessionTurns, TLC

CONSTANTS k1, t1, t2, t3, a1

OneKey == {k1}
TwoTurns == {t1, t2}
ThreeTurns == {t1, t2, t3}
OneAbort == {a1}

SameKey == [t \in Turns |-> k1]

TurnSymmetry == Permutations(Turns)
=============================================================================
