---------------------------- MODULE MCSearchRoute ----------------------------
(***************************************************************************)
(* Values for the constants of SearchRoute.                                *)
(***************************************************************************)
EXTENDS SearchRoute, TLC

\* An entry, and one that IMSLP's parser does not take for a work.
E(id) == [id |-> id, usable |-> TRUE, names |-> {"piano"}, level |-> 1,
          pd |-> "yes", official |-> "no"]
Quiet(id) == [E(id) EXCEPT !.names = {}]
Landing(id) == [E(id) EXCEPT !.usable = FALSE]

MCVariants == <<"en", "zh">>

Slow == ("musescore" :> ("en" :> <<E(21), E(22), E(23)>>)
         @@ "ultimate-guitar" :> ("en" :> <<E(31)>>))

\* The expansions share a work; Mutopia continues where IMSLP ends.
Short == Slow
  @@ "imslp" :> ("en" :> <<E(1), E(2), E(3)>> @@ "zh" :> <<E(2), E(4)>>)
  @@ "mutopia" :> ("en" :> <<E(11), E(12)>> @@ "zh" :> << >>)
\* More than the pages hold.
Long == Slow
  @@ "imslp" :> ("en" :> [i \in 1 .. 7 |-> E(i)] @@ "zh" :> <<E(3)>>)
  @@ "mutopia" :> ("en" :> <<E(11), E(11)>> @@ "zh" :> <<E(12)>>)
\* Composer pages among the works, and works whose text names no instrument.
Mixed == Slow
  @@ "imslp" :> ("en" :> <<Landing(1), Quiet(2), Landing(3), Quiet(4), E(5)>>
                 @@ "zh" :> << >>)
  @@ "mutopia" :> ("en" :> <<E(11), E(12)>> @@ "zh" :> << >>)

NoFilters == [instrument |-> NoInstrument, level |-> 0, pdOnly |-> FALSE,
              type |-> "any"]
Pianos == [NoFilters EXCEPT !.instrument = "piano", !.pdOnly = TRUE]
Beginners == [NoFilters EXCEPT !.level = 1, !.type = "community"]

Visit(catalog, filters, selection) ==
  [catalog |-> catalog, filters |-> filters, selection |-> selection]

MCVisits ==
  {Visit(Short, NoFilters, {"imslp", "mutopia"}),
   Visit(Short, Beginners, {"imslp", "musescore", "ultimate-guitar"}),
   Visit(Long, Pianos, {"imslp", "musescore"}),
   Visit(Long, NoFilters, {"mutopia", "ultimate-guitar"}),
   Visit(Mixed, Pianos, {"imslp", "mutopia"}),
   Visit(Mixed, NoFilters, {"imslp", "musescore"})}
MixedVisits == {Visit(Mixed, NoFilters, Source)}

==============================================================================
