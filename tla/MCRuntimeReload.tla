--------------------------- MODULE MCRuntimeReload ---------------------------
(* Instances of RuntimeReload for TLC. *)
EXTENDS RuntimeReload, TLC

CONSTANTS k1, k2, t1, t2, t3

MCKeys == {k1, k2}
MCTurns == {t1, t2, t3}

\* Two turns follow each other under k1, one runs under k2.
MCKeyOf == t1 :> k1 @@ t2 :> k1 @@ t3 :> k2
=============================================================================
