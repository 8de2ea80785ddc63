------------------------------- MODULE MCWAL -------------------------------
(***************************************************************************)
(* Small instances of WAL for TLC: the values of the constants are in the  *)
(* configuration files.  The all-zero vector is one of the vectors there,  *)
(* since it is what a slot holds before anything is stored in it.          *)
(***************************************************************************)
EXTENDS WAL

\* `arg' is read only after an append has set it, so its first value is fixed.
MCInit == Init /\ arg = CHOOSE e \in Entry : TRUE
MCSpec == MCInit /\ [][Next]_vars
=============================================================================
