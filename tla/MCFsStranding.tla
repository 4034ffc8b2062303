---------------------------- MODULE MCFsStranding ----------------------------
(***************************************************************************)
(* Values for the constants of FsStranding.                                *)
(***************************************************************************)
EXTENDS FsStranding, TLC

CONSTANTS r1, r2

Symmetry == Permutations(Request)

=============================================================================
