---------------------------- MODULE MCUgSession ----------------------------
(***************************************************************************)
(* Two fetches of Ultimate Guitar.                                         *)
(***************************************************************************)
EXTENDS UgSession

CONSTANTS t1, t2

=============================================================================
