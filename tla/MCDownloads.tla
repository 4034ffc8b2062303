----------------------------- MODULE MCDownloads -----------------------------
(***************************************************************************)
(* Values for the constants of Downloads.                                  *)
(***************************************************************************)
EXTENDS Downloads, TLC

CONSTANTS t1, t2

\* One kind of fetch at a time: tasks meet where they share a component.
MCCrowds == {[sources |-> {"musescore"}, worker |-> TRUE, adds |-> 0],
             [sources |-> {"musescore"}, worker |-> FALSE, adds |-> 0],
             [sources |-> {"ultimate-guitar"}, worker |-> FALSE, adds |-> 0],
             [sources |-> {"imslp"}, worker |-> FALSE, adds |-> 2],
             [sources |-> {"mutopia"}, worker |-> FALSE, adds |-> 1]}

\* Two deploys: the first bundle stays, and the salt moves to another one.
MCDeploys == <<[bundles |-> <<"b1", "b2">>, accepts |-> "s1"],
               [bundles |-> <<"b1", "b3">>, accepts |-> "s2"]>>
MCSaltIn == "b1" :> None @@ "b2" :> "s1" @@ "b3" :> "s2" @@ "fallback" :> "s0"

==============================================================================
