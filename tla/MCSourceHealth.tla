---------------------------- MODULE MCSourceHealth ----------------------------
(***************************************************************************)
(* Values for the constants of SourceHealth: those of MCSearchCache, with  *)
(* one search of IMSLP.                                                    *)
(***************************************************************************)
EXTENDS MCSearchCache, SourceHealth

ImslpKey == {[KeyM EXCEPT !.source = <<"i">>]}

==============================================================================
