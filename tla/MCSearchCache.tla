---------------------------- MODULE MCSearchCache ----------------------------
(***************************************************************************)
(* Values for the constants of SearchCache.                                *)
(***************************************************************************)
EXTENDS SearchCache, TLC

CONSTANTS t1, t2, t3

MCChar == {"m", "i", "2", "4", "p", "q", "|"}
MCSources == {<<"m">>, <<"i">>}
MCMuseScore == <<"m">>
\* The second query holds the separator and the text of a slug.
MCQueries == {<<"q">>, <<"p", "|", "q">>}
MCDecimal == [n \in {20, 40} |-> IF n = 20 THEN <<"2">> ELSE <<"4">>]
MCSlug == [i \in {"piano"} |-> <<"p">>]

KeyM == [source |-> <<"m">>, query |-> <<"q">>, limit |-> 20,
         instrument |-> "piano"]
KeyMAny == [KeyM EXCEPT !.instrument = NoInstrument,
                        !.query = <<"p", "|", "q">>]

OneKey == {KeyM}
CollidingKeys == {KeyM, KeyMAny}

Symmetry == Permutations(Task)

==============================================================================
