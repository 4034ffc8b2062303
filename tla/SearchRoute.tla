------------------------------ MODULE SearchRoute ------------------------------
(***************************************************************************)
(* The search route (src/routes/public.rs, search) as one visitor's tab    *)
(* drives it: a first page, the block of slow sources that the tab loads   *)
(* afterwards while they are being prewarmed, and the further pages that   *)
(* scrolling appends.                                                      *)
(*                                                                         *)
(* Each request computes its list anew, from answers that were asked for   *)
(* with a limit that grows with the page.  The answers come through the    *)
(* cache of SearchCache, of which this module keeps that a key is fetched  *)
(* once at a time, is then held, and is forgotten at any time.             *)
(***************************************************************************)
EXTENDS SourceSearch

CONSTANTS
  Query,       \* what the visitor typed
  Variants,    \* expand_query of it, in order
  PageSize,    \* SEARCH_PAGE_SIZE, and SEARCH_LIMIT_PER_SOURCE
  MaxPage,     \* SEARCH_MAX_PAGE
  Visits,      \* of a visit: the filters and the sources that are selected, and
               \* the listings upstream has (catalog), by source and query
  Faults,      \* how often an upstream call may fail or an answer be forgotten
  Waiting,     \* no answer yet
  Failed       \* the upstream call failed

Registry == <<"imslp", "mutopia", "musescore", "ultimate-guitar">>
Source == {Registry[i] : i \in DOMAIN Registry}
Deferred == {"musescore", "ultimate-guitar"}

\* What source s is asked for.
Queries(s) == IF s \in Deferred THEN {Query}
              ELSE {Variants[j] : j \in DOMAIN Variants}

ASSUME RouteAssumption ==
  /\ {PageSize, MaxPage} \subseteq Nat \ {0} /\ Faults \in Nat
  /\ \A v \in Visits : /\ v.filters.level \in Levels
                        /\ v.filters.pdOnly \in BOOLEAN
                        /\ v.selection \subseteq Source

\* expand_query lists no variant twice (src/i18n/alias.rs, 136-168).
ASSUME VariantsAssumption ==
  /\ IsSeq(Variants)
  /\ \A i, j \in DOMAIN Variants : Variants[i] = Variants[j] => i = j

\* MediaWiki's opensearch, one call to which is a search of IMSLP, lists no
\* page twice.  The other sources' pages may repeat an entry.
ASSUME CatalogAssumption ==
  \A v \in Visits :
    /\ \A s \in Source : \A q \in Queries(s) : IsSeq(v.catalog[s][q])
    /\ \A q \in Queries("imslp") : LET listing == v.catalog["imslp"][q] IN
         \A i, j \in DOMAIN listing : listing[i].id = listing[j].id => i = j

\* Neither mark of a search without an answer is an answer.
ASSUME MarksAssumption ==
  /\ Waiting # Failed
  /\ \A v \in Visits : \A s \in Source : \A q \in Queries(s) :
       \A shape \in Shapes(s), p \in 1 .. MaxPage :
         Search(s, v.catalog[s][q], shape, v.filters.instrument, PageSize * p)
           \notin {Waiting, Failed}

VARIABLES
  visit,    \* one of Visits
  tab,      \* what the visitor's page shows
  fan,      \* the requests being answered: of the list and of the block
  flights,  \* searches that are being fetched
  held,     \* answers the cache has, by search
  solves,   \* history: fetches of a slow source since one failed or was forgotten
  faults    \* failures and forgotten answers so far, the bound of the model

vars == <<visit, tab, fan, flights, held, solves, faults>>

\* next: the page the sentinel at the end of the list loads, 0 without one.
\* whole is history: no answer of the lists shown so far has failed.
Blank == [page |-> 0, shown |-> << >>, next |-> 0, block |-> "none",
          cards |-> << >>, whole |-> TRUE]

\* A request of the list.  The loader's address carries the query, the filters
\* and the selection, and no page.
ListRequest(p, append) ==
  [page |-> p, append |-> append, defer |-> FALSE, query |-> Query,
   filters |-> visit.filters, sources |-> visit.selection]

\* (Mutant of BlockRequest) The address leaves the instrument out.
BlockRequestAnyInstrument ==
  [page |-> 1, append |-> FALSE, defer |-> TRUE, query |-> Query,
   filters |-> [visit.filters EXCEPT !.instrument = NoInstrument],
   sources |-> visit.selection]

\* (Mutant of BlockRequest) The address leaves the selection out.
BlockRequestAllSources ==
  [page |-> 1, append |-> FALSE, defer |-> TRUE, query |-> Query,
   filters |-> visit.filters, sources |-> Source]

BlockRequest ==
  [page |-> 1, append |-> FALSE, defer |-> TRUE, query |-> Query,
   filters |-> visit.filters, sources |-> visit.selection]

\* The searches a request fans out to: the slow sources get the query as typed,
\* the others its variants.
Pairs(req) ==
  LET active == Kept(Registry, {i \in DOMAIN Registry :
                       /\ Registry[i] \in req.sources
                       /\ Registry[i] \in Deferred <=> req.defer})
      Of(s) == IF s \in Deferred THEN <<[source |-> s, query |-> req.query]>>
               ELSE [j \in DOMAIN Variants |->
                       [source |-> s, query |-> Variants[j]]]
  IN  Flatten([i \in DOMAIN active |-> Of(active[i])])

KeyOf(req, pair) ==
  [source |-> pair.source, query |-> pair.query,
   limit |-> PageSize * req.page, instrument |-> req.filters.instrument]

Keys(req) == {KeyOf(req, Pairs(req)[i]) : i \in DOMAIN Pairs(req)}

\* What the first page of a list prewarms.
Prewarmed(req) ==
  IF req.append \/ req.defer \/ req.page # 1 THEN {}
  ELSE {KeyOf(req, [source |-> s, query |-> req.query]) :
          s \in Deferred \cap req.sources}

Kind == {"list", "block"}
NoFan == [on |-> FALSE, req |-> ListRequest(1, FALSE), got |-> << >>]

Init ==
  /\ visit \in Visits
  /\ tab = Blank
  /\ fan = [k \in Kind |-> NoFan]
  /\ flights = {}
  /\ held = << >>
  /\ solves = [s \in Deferred |-> 0]
  /\ faults = 0

-----------------------------------------------------------------------------
Fault == faults < Faults /\ faults' = faults + 1

\* The fan-out begins: what is held is answered at once, the rest is fetched
\* unless somebody is fetching it.
Begin(k, req) ==
  LET wanted == Keys(req) \cup Prewarmed(req)
      fetched == wanted \ (flights \cup DOMAIN held)
      pairs == Pairs(req)
  IN  /\ ~fan[k].on
      /\ fan' = [fan EXCEPT ![k] =
                   [on |-> TRUE, req |-> req,
                    got |-> [i \in DOMAIN pairs |->
                               IF KeyOf(req, pairs[i]) \in DOMAIN held
                               THEN held[KeyOf(req, pairs[i])] ELSE Waiting]]]
      /\ flights' = flights \cup fetched
      /\ solves' = [s \in Deferred |->
                      solves[s] + Cardinality({x \in fetched : x.source = s})]
      /\ UNCHANGED <<visit, held, faults>>

\* The visitor opens /search?page=p.
Open(p) ==
  /\ tab = Blank /\ Begin("list", ListRequest(p, FALSE))
  /\ UNCHANGED tab

\* The sentinel at the end of the list comes into view.
Scroll ==
  /\ tab.next # 0 /\ Begin("list", ListRequest(tab.next, TRUE))
  /\ UNCHANGED tab

\* The loader in the page asks for the block.
LoadBlock ==
  /\ tab.block = "offered" /\ Begin("block", BlockRequest)
  /\ tab' = [tab EXCEPT !.block = "loading"]

Waits(k, key) ==
  {i \in DOMAIN fan[k].got : /\ fan[k].got[i] = Waiting
                             /\ KeyOf(fan[k].req, Pairs(fan[k].req)[i]) = key}

Deliver(key, answer) ==
  fan' = [k \in Kind |->
            [fan[k] EXCEPT !.got = [i \in DOMAIN fan[k].got |->
               IF i \in Waits(k, key) THEN answer ELSE fan[k].got[i]]]]

\* A fetch succeeds.  A prewarm's answer is held for those who come later.
LandOk(key, shape) ==
  LET answer == Search(key.source, visit.catalog[key.source][key.query], shape,
                       key.instrument, key.limit)
  IN  /\ flights' = flights \ {key}
      /\ held' = [x \in DOMAIN held \cup {key} |->
                    IF x = key THEN answer ELSE held[x]]
      /\ Deliver(key, answer)
      /\ UNCHANGED <<visit, tab, solves, faults>>

\* A fetch fails.
LandErr(key) ==
  /\ Fault
  /\ flights' = flights \ {key}
  /\ Deliver(key, Failed)
  /\ solves' = IF key.source \in Deferred
               THEN [solves EXCEPT ![key.source] = 0] ELSE solves
  /\ UNCHANGED <<visit, tab, held>>

Land ==
  \E key \in flights :
    \/ \E shape \in Shapes(key.source) : LandOk(key, shape)
    \/ LandErr(key)

\* The cache forgets an answer: it expired or was evicted.
Forget ==
  \E key \in DOMAIN held :
    /\ Fault
    /\ held' = [x \in DOMAIN held \ {key} |-> held[x]]
    /\ solves' = IF key.source \in Deferred
                 THEN [solves EXCEPT ![key.source] = 0] ELSE solves
    /\ UNCHANGED <<visit, tab, fan, flights>>

-----------------------------------------------------------------------------
Complete(k) == fan[k].on /\ \A i \in DOMAIN fan[k].got : fan[k].got[i] # Waiting

\* What each search of the fan-out brought; a failed one brought nothing.
Groups(k) == [i \in DOMAIN fan[k].got |->
                IF fan[k].got[i] = Failed THEN << >> ELSE fan[k].got[i]]

\* (Mutant of NextPage) A page that is filled exactly counts as the last.
NextPageIfMore(results, p) ==
  IF Len(results) > p * PageSize /\ p < MaxPage THEN p + 1 ELSE 0

\* (Mutant of NextPage) No cap on the pages.
NextPageUncapped(results, p) == IF Len(results) >= p * PageSize THEN p + 1 ELSE 0

NextPage(results, p) ==
  IF Len(results) >= p * PageSize /\ p < MaxPage THEN p + 1 ELSE 0

\* (Mutant of NewItems) The slice begins with the last of the earlier pages.
NewItemsFromLast(results, p) ==
  SubSeq(results, (p - 1) * PageSize, Len(results))

\* What an append shows: the results past those of the earlier pages.
NewItems(results, p) == SubSeq(results, (p - 1) * PageSize + 1, Len(results))

RespondList ==
  LET req == fan["list"].req
      results == Take(Merged(Groups("list"), req.filters), req.page * PageSize)
      offersBlock == ~req.append /\ req.page = 1
                     /\ req.sources \cap Deferred # {}
  IN  /\ Complete("list")
      /\ fan' = [fan EXCEPT !["list"] = NoFan]
      /\ tab' = [tab EXCEPT
                   !.page = req.page,
                   !.next = NextPage(results, req.page),
                   !.shown = IF req.append
                             THEN tab.shown \o NewItems(results, req.page)
                             ELSE results,
                   !.whole = @ /\ \A i \in DOMAIN fan["list"].got :
                                     fan["list"].got[i] # Failed,
                   !.block = IF offersBlock THEN "offered" ELSE @]
      /\ UNCHANGED <<visit, flights, held, solves, faults>>

RespondBlock ==
  /\ Complete("block")
  /\ fan' = [fan EXCEPT !["block"] = NoFan]
  /\ tab' = [tab EXCEPT
               !.cards = Take(Merged(Groups("block"), fan["block"].req.filters),
                              PageSize),
               !.block = "loaded"]
  /\ UNCHANGED <<visit, flights, held, solves, faults>>

\* The visitor searches again, in the same or another tab.
Leave ==
  /\ tab # Blank /\ \A k \in Kind : ~fan[k].on
  /\ tab' = Blank
  /\ UNCHANGED <<visit, fan, flights, held, solves, faults>>

Next ==
  \/ \E p \in 1 .. MaxPage : Open(p)
  \/ Scroll \/ LoadBlock \/ Land \/ Forget
  \/ RespondList \/ RespondBlock \/ Leave

Spec == Init /\ [][Next]_vars

-----------------------------------------------------------------------------
\* Type invariant.
TypeOK ==
  /\ visit \in Visits
  /\ tab.page \in 0 .. MaxPage
  /\ tab.next \in {0} \cup {tab.page + 1} /\ tab.next <= MaxPage
  /\ tab.block \in {"none", "offered", "loading", "loaded"}
  /\ \A i \in DOMAIN tab.shown : tab.shown[i].source \in Source
  /\ \A k \in Kind : DOMAIN fan[k].got \subseteq DOMAIN Pairs(fan[k].req)
  /\ flights \cap DOMAIN held = {}
  /\ solves \in [Deferred -> Nat]
  /\ faults \in 0 .. Faults

\* What one search of the list answers with limit n.
Answer(pair, n) ==
  Search(pair.source, visit.catalog[pair.source][pair.query], "json",
         visit.filters.instrument, n)

ListPairs == Pairs(ListRequest(1, FALSE))

\* Each source answers a smaller limit with the beginning of what it answers
\* to a larger one.
AnswersByPrefix ==
  \A i \in DOMAIN ListPairs : \A p \in 1 .. MaxPage :
    Answer(ListPairs[i], PageSize * p)
      = Take(Answer(ListPairs[i], PageSize * MaxPage), PageSize * p)

\* The list that the pages are pages of.
WholeList ==
  Take(Merged([i \in DOMAIN ListPairs |->
                 Answer(ListPairs[i], PageSize * MaxPage)], visit.filters),
       PageSize * MaxPage)

\* The append slice (public.rs, 798-806) is cut from a list that was computed
\* anew with a larger limit.  As long as every source answers by prefix and
\* none fails, scrolling shows one list from its beginning, nothing twice and
\* nothing left out, whatever the expansions share.
AppendsContinue ==
  tab.whole /\ AnswersByPrefix => tab.shown = Take(WholeList, Len(tab.shown))

\* The next page is offered by the number of results alone (public.rs,
\* 766-774).  Under the same condition a page without a next one has brought
\* the list to its end.
LastPageIsLast ==
  tab.whole /\ tab.page # 0 /\ tab.next = 0 /\ AnswersByPrefix
    => Len(tab.shown) = Len(WholeList)

\* The prewarm and the request of the block, which is another request, ask for
\* the same search (public.rs, 663-687): a slow source is fetched once for
\* both, unless the fetch failed or was forgotten.
OneSolvePerSearch == \A s \in Deferred : solves[s] <= 1

\* No card of a source that the visitor left out, in the list or in the block,
\* whose address must carry the selection (public.rs, 848-857).
SelectedOnly ==
  /\ \A i \in DOMAIN tab.shown : tab.shown[i].source \in visit.selection \ Deferred
  /\ \A i \in DOMAIN tab.cards : tab.cards[i].source \in visit.selection \cap Deferred

\* Violated: the first (page - 1) * PAGE_SIZE results of a list "were already
\* shown" (public.rs, 799-801), so that what is appended is new.
ShownOnce ==
  \A i, j \in DOMAIN tab.shown : i # j => tab.shown[i] # tab.shown[j]

==============================================================================
