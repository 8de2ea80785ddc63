--------------------------- MODULE MCRacingInserts ---------------------------
(***************************************************************************)
(* Three handlers; they are interchangeable.                               *)
(***************************************************************************)
EXTENDS RacingInserts, TLC

CONSTANTS a, b, c
MCHandlers == {a, b, c}
Interchange == Permutations(MCHandlers)
=============================================================================
