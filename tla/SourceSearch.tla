----------------------------- MODULE SourceSearch -----------------------------
(***************************************************************************)
(* What each source makes of an upstream listing: Source::search of        *)
(* src/sources/imslp.rs, mutopia.rs, musescore.rs and ultimate_guitar.rs   *)
(* without its transport, and the filters that the search route applies to *)
(* all of them afterwards.                                                 *)
(*                                                                         *)
(* A listing is the sequence of entries upstream has for a query, in its   *)
(* order.  IMSLP is asked for a number of entries; the others send one     *)
(* page, whatever the limit.  An entry is an id, whether the source's      *)
(* parser takes it for a score, the instruments its text names, and the    *)
(* facts that MuseScore tells of a score.                                  *)
(***************************************************************************)
EXTENDS Listings

CONSTANTS NoInstrument, Guitar

Levels == 0 .. 3    \* complexity; 0 is None
Known == {"yes", "no", "unknown"}

\* The entries that some parser takes for a score:
\*   IMSLP: the title ends in "(Lastname, Firstname)";
\*   Mutopia: the table links a PDF and names a title;
\*   Ultimate Guitar: a chords or tab entry, public, with an address and a name.
Usable(e) == e.usable

Result(s, e, level, pd, official) ==
  [source |-> s, id |-> e.id, level |-> level, pd |-> pd, official |-> official]

\* How many entries IMSLP is asked for.  Limits are multiples of 20, so the
\* floors of the code (15 and 20) never bite.
ImslpAsks(instrument, limit) ==
  IF instrument = NoInstrument THEN limit + limit \div 2 ELSE 4 * limit

\* IMSLP has no facet for instruments: the title or description must name it.
ImslpSearch(listing, instrument, limit) ==
  LET asked == Take(listing, ImslpAsks(instrument, limit))
      works == Kept(asked, {i \in DOMAIN asked :
                              /\ Usable(asked[i])
                              /\ instrument \in asked[i].names \cup {NoInstrument}})
  IN  Take([i \in DOMAIN works |->
              Result("imslp", works[i], 0, "yes", "unknown")], limit)

\* Two results are one card.
Same(r, t) == r.source = t.source /\ r.id = t.id

\* The positions of the results that are the first of their card.
Firsts(groups) ==
  {x \in Positions(groups) :
     ~\E y \in Positions(groups) : /\ Before(y, x)
                                   /\ Same(At(groups, y), At(groups, x))}

\* Mutopia filters by instrument itself; a PDF is listed once.
MutopiaSearch(listing, instrument, limit) ==
  LET pieces == Kept(listing, {i \in DOMAIN listing :
                    /\ Usable(listing[i])
                    /\ instrument \in listing[i].names \cup {NoInstrument}})
      results == <<[i \in DOMAIN pieces |->
                      Result("mutopia", pieces[i], 0, "yes", "unknown")]>>
  IN  Take(Gather(results, Firsts(results)), limit)

\* What a search page of source s may carry: its data ("json"); MuseScore's
\* perhaps only its cards ("dom"); a slow source's neither.
Shapes(s) == CASE s = "musescore" -> {"json", "dom", "neither"}
               [] s = "ultimate-guitar" -> {"json", "neither"}
               [] OTHER -> {"json"}

\* Ultimate Guitar has nothing for other instruments, and a page without its
\* store, or without results in it, is an answer: none were found.
UgSearch(listing, shape, instrument, limit) ==
  LET tabs == Kept(listing, {i \in DOMAIN listing : Usable(listing[i])})
  IN  IF instrument \notin {NoInstrument, Guitar} \/ shape = "neither" THEN << >>
      ELSE Take([i \in DOMAIN tabs |->
                   Result("ultimate-guitar", tabs[i], 0, "no", "unknown")],
                limit)

\* Of MuseScore's cards the facts about a score are unknown, and a page without
\* data and cards has no results.
MuseScoreSearch(listing, shape, instrument, limit) ==
  LET scores == Kept(listing, {i \in DOMAIN listing :
                    instrument \in listing[i].names \cup {NoInstrument}})
      Score(e) == IF shape = "json"
                  THEN Result("musescore", e, e.level, e.pd, e.official)
                  ELSE Result("musescore", e, 0, "unknown", "unknown")
  IN  IF shape = "neither" THEN << >>
      ELSE Take([i \in DOMAIN scores |-> Score(scores[i])], limit)

\* The answer of source s to a search.
Search(s, listing, shape, instrument, limit) ==
  CASE s = "imslp" -> ImslpSearch(listing, instrument, limit)
    [] s = "mutopia" -> MutopiaSearch(listing, instrument, limit)
    [] s = "ultimate-guitar" -> UgSearch(listing, shape, instrument, limit)
    [] s = "musescore" -> MuseScoreSearch(listing, shape, instrument, limit)

\* The difficulty, public-domain and score-type filters of the route.
PassesPostHoc(r, f) ==
  /\ f.pdOnly => r.pd = "yes"
  /\ f.level # 0 => r.level = f.level
  /\ f.type = "official" => r.official = "yes"
  /\ f.type = "community" => r.official # "yes"

\* The groups of a fan-out in their order, each card once, then filtered.
Merged(groups, f) ==
  Gather(groups, {x \in Firsts(groups) : PassesPostHoc(At(groups, x), f)})

==============================================================================
