---------------------------- MODULE MCFsSessions ----------------------------
(***************************************************************************)
(* Values for the constants of FsSessions.                                 *)
(***************************************************************************)
EXTENDS FsSessions, TLC

CONSTANTS r1, r2

Symmetry == Permutations(Request)

=============================================================================
