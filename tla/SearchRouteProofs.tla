--------------------------- MODULE SearchRouteProofs ---------------------------
(***************************************************************************)
(* What a visitor's page of SearchRoute shows, for every catalog upstream   *)
(* may have, every page size and any number of failures.                   *)
(*                                                                         *)
(* RouteInv is inductive by itself: it ties each request that is being     *)
(* answered to the page that made it, and each answer, held or delivered,  *)
(* to the search it answers.  The properties are then inductive relative   *)
(* to it, each with a strengthening of its own: SolveInv, CardsInv and     *)
(* ListInv.                                                                *)
(***************************************************************************)
EXTENDS SearchRoute, SourceSearchProofs

-----------------------------------------------------------------------------
(* The inductive invariant *)

\* The one search that a slow source is ever asked.
SlowKey(s) == [source |-> s, query |-> Query, limit |-> PageSize * 1,
               instrument |-> visit.filters.instrument]

IsKey(x) ==
  \E s \in Source : \E q \in Queries(s), p \in 1 .. MaxPage :
    /\ x = [source |-> s, query |-> q, limit |-> PageSize * p,
            instrument |-> visit.filters.instrument]
    /\ s \in Deferred => x = SlowKey(s)

\* What the search x may be answered.
AnswersOf(x) ==
  {Search(x.source, visit.catalog[x.source][x.query], shape, x.instrument,
          x.limit) : shape \in Shapes(x.source)}

\* The page a visitor sees, and which requests it waits for.
TabInv ==
  /\ tab = [page |-> tab.page, shown |-> tab.shown, next |-> tab.next,
            block |-> tab.block, cards |-> tab.cards, whole |-> tab.whole]
  /\ tab.page \in 0 .. MaxPage /\ tab.whole \in BOOLEAN
  /\ tab.next \in {0} \cup {tab.page + 1} /\ tab.next <= MaxPage
  /\ tab.block \in {"none", "offered", "loading", "loaded"}
  /\ tab.page = 0 => tab = Blank

FanInv ==
  /\ fan = [k \in Kind |-> [on |-> fan[k].on, req |-> fan[k].req,
                            got |-> fan[k].got]]
  /\ \A k \in Kind : /\ fan[k].on \in BOOLEAN
                     /\ ~fan[k].on => fan[k] = NoFan
                     /\ fan[k].on => /\ IsSeq(fan[k].got)
                                     /\ DOMAIN fan[k].got = DOMAIN Pairs(fan[k].req)
  /\ fan["list"].on =>
       \E p \in 1 .. MaxPage, append \in BOOLEAN :
         /\ fan["list"].req = ListRequest(p, append)
         /\ IF append THEN tab.page # 0 /\ p = tab.page + 1 ELSE tab = Blank
  /\ fan["block"].on => tab.page # 0 /\ fan["block"].req = BlockRequest

\* Every answer, held or delivered, answers its search.
AnswerInv ==
  /\ flights \cap DOMAIN held = {}
  /\ \A x \in flights \cup DOMAIN held : IsKey(x)
  /\ \A x \in DOMAIN held : held[x] \in AnswersOf(x)
  /\ \A k \in Kind : \A i \in DOMAIN fan[k].got :
       fan[k].got[i] \in {Waiting, Failed}
                           \cup AnswersOf(KeyOf(fan[k].req, Pairs(fan[k].req)[i]))

RouteInv == visit \in Visits /\ TabInv /\ FanInv /\ AnswerInv

SolveInv ==
  /\ solves \in [Deferred -> 0 .. 1]
  /\ \A s \in Deferred : solves[s] = 1 => SlowKey(s) \in flights \cup DOMAIN held

CardsInv ==
  /\ IsSeq(tab.shown) /\ IsSeq(tab.cards)
  /\ SelectedOnly

ListInv ==
  AnswersByPrefix /\ tab.whole /\ tab.page # 0 =>
    /\ tab.shown = Take(WholeList, PageSize * tab.page)
    /\ tab.next = NextPage(tab.shown, tab.page)

-----------------------------------------------------------------------------
(* Searches *)

LEMMA SourcesAre ==
  /\ Source = {"imslp", "mutopia", "musescore", "ultimate-guitar"}
  /\ DOMAIN Registry = 1 .. 4 /\ IsSeq(Registry)
  /\ \A i, j \in 1 .. 4 : Registry[i] = Registry[j] => i = j
  /\ Deferred \subseteq Source
  <1>1. DOMAIN Registry = 1 .. 4 /\ 1 .. 4 = {1, 2, 3, 4}
        /\ Registry = [i \in 1 .. 4 |-> Registry[i]]
    BY DEF Registry
  <1>2. Registry[1] = "imslp" /\ Registry[2] = "mutopia"
        /\ Registry[3] = "musescore" /\ Registry[4] = "ultimate-guitar"
    BY DEF Registry
  <1>3. Source = {Registry[1], Registry[2], Registry[3], Registry[4]}
    BY <1>1 DEF Source
  <1>4. IsSeq(Registry)
    BY <1>1, FunctionIsSeq
  <1> QED BY <1>1, <1>2, <1>3, <1>4 DEF Deferred

LEMMA Limits ==
  /\ PageSize \in Nat \ {0} /\ MaxPage \in Nat \ {0}
  /\ \A p \in 1 .. MaxPage : /\ PageSize * p \in Nat
                             /\ PageSize * p <= PageSize * MaxPage
  /\ PageSize * MaxPage \in Nat
  <1>1. PageSize \in Nat \ {0} /\ MaxPage \in Nat \ {0}
    BY RouteAssumption
  <1>2. \A a, b, c \in Nat : a <= b => c * a <= c * b
    OBVIOUS
  <1>3. \A p \in 1 .. MaxPage : PageSize * p <= PageSize * MaxPage
    BY <1>1, <1>2
  <1> QED BY <1>1, <1>3

\* The fan-out asks each active source for each of its queries, once.
LEMMA PairsProperties ==
  ASSUME NEW req, req.query = Query
  PROVE  /\ IsSeq(Pairs(req))
         /\ \A i \in DOMAIN Pairs(req) :
              \E s \in Source \cap req.sources : \E q \in Queries(s) :
                /\ Pairs(req)[i] = [source |-> s, query |-> q]
                /\ s \in Deferred <=> req.defer
         /\ \A i, j \in DOMAIN Pairs(req) :
              Pairs(req)[i] = Pairs(req)[j] => i = j
  <1> DEFINE I == {i \in DOMAIN Registry : /\ Registry[i] \in req.sources
                                           /\ Registry[i] \in Deferred <=> req.defer}
             active == Kept(Registry, I)
             Of(s) == IF s \in Deferred THEN <<[source |-> s, query |-> req.query]>>
                      ELSE [j \in DOMAIN Variants |->
                              [source |-> s, query |-> Variants[j]]]
             groups == [i \in DOMAIN active |-> Of(active[i])]
             P == Positions(groups)
  <1>1. Pairs(req) = Gather(groups, P)
    BY DEF Pairs, Flatten
  <1>2. I \in SUBSET DOMAIN Registry
    OBVIOUS
  <1>3. PICK f \in [DOMAIN active -> I] :
          /\ \A n \in DOMAIN active : active[n] = Registry[f[n]]
          /\ \A n, m \in DOMAIN active : f[n] = f[m] => n = m
    <2> HIDE DEF I
    <2> QED BY <1>2, SourcesAre, KeptProperties
  <1>4. IsSeq(active)
    <2> HIDE DEF I
    <2> QED BY <1>2, SourcesAre, KeptProperties
  <1> HIDE DEF active
  <1>5. /\ \A n \in DOMAIN active : /\ active[n] \in Source \cap req.sources
                                    /\ active[n] \in Deferred <=> req.defer
        /\ \A n, m \in DOMAIN active : active[n] = active[m] => n = m
    <2>1. \A n \in DOMAIN active : f[n] \in 1 .. 4 /\ f[n] \in I
      BY <1>2, <1>3, SourcesAre
    <2> QED BY <1>3, <2>1, SourcesAre DEF Source
  <1> HIDE DEF I
  <1>6. ASSUME NEW s PROVE IsSeq(Of(s))
    <2>1. CASE s \in Deferred
      BY <2>1 DEF IsSeq
    <2>2. CASE s \notin Deferred
      <3>1. Len(Variants) \in Nat /\ DOMAIN Variants = 1 .. Len(Variants)
        BY VariantsAssumption, SeqIsFunction
      <3> DEFINE r == [j \in DOMAIN Variants |->
                         [source |-> s, query |-> Variants[j]]]
      <3>2. r = [j \in 1 .. Len(Variants) |-> r[j]]
        BY <3>1
      <3>3. IsSeq(r)
        BY <3>1, <3>2, FunctionIsSeq
      <3> QED BY <2>2, <3>3
    <2> QED BY <2>1, <2>2
  <1>7. ASSUME NEW s, NEW j \in DOMAIN Of(s)
        PROVE  /\ Of(s)[j].source = s
               /\ \E q \in Queries(s) : Of(s)[j] = [source |-> s, query |-> q]
    <2>1. CASE s \in Deferred
      <3>1. Of(s)[j] = [source |-> s, query |-> Query]
        BY <2>1
      <3> QED BY <2>1, <3>1 DEF Queries
    <2>2. CASE s \notin Deferred
      <3>1. j \in DOMAIN Variants
            /\ Of(s)[j] = [source |-> s, query |-> Variants[j]]
        BY <2>2
      <3> QED BY <2>2, <3>1 DEF Queries
    <2> QED BY <2>1, <2>2
  <1>8. ASSUME NEW s, NEW i \in DOMAIN Of(s), NEW j \in DOMAIN Of(s),
               Of(s)[i] = Of(s)[j]
        PROVE  i = j
    <2>1. CASE s \in Deferred
      BY <2>1
    <2>2. CASE s \notin Deferred
      <3>1. i \in DOMAIN Variants /\ j \in DOMAIN Variants
            /\ Of(s)[i].query = Variants[i] /\ Of(s)[j].query = Variants[j]
        BY <2>2
      <3>2. Variants[i] = Variants[j]
        BY <1>8, <3>1
      <3> QED BY <3>1, <3>2, VariantsAssumption
    <2> QED BY <2>1, <2>2
  <1> HIDE DEF Of
  <1>9. IsSeq(groups) /\ DOMAIN groups = DOMAIN active
        /\ \A g \in DOMAIN groups : IsSeq(groups[g])
    <2>1. Len(active) \in Nat /\ DOMAIN active = 1 .. Len(active)
      BY <1>4, SeqIsFunction
    <2>2. groups = [g \in 1 .. Len(active) |-> groups[g]]
      BY <2>1
    <2> QED BY <1>6, <2>1, <2>2, FunctionIsSeq
  <1>10. Finite(P)
    BY <1>9, PositionsAreFinite
  <1>11. \A x \in P : /\ x = <<x[1], x[2]>> /\ x[1] \in DOMAIN active
                      /\ x[2] \in DOMAIN Of(active[x[1]])
                      /\ At(groups, x) = Of(active[x[1]])[x[2]]
    BY <1>9, PositionsAre DEF At
  <1>12. ASSUME NEW x \in P, NEW y \in P, At(groups, x) = At(groups, y)
         PROVE  x = y
    <2>1. active[x[1]] = active[y[1]]
      BY <1>7, <1>11, <1>12
    <2>2. x[1] = y[1]
      BY <1>5, <1>11, <2>1
    <2>3. x[2] = y[2]
      BY <1>8, <1>11, <1>12, <2>2
    <2> QED BY <1>11, <2>2, <2>3
  <1> HIDE DEF groups, P
  <1>13. /\ IsSeq(Pairs(req))
         /\ \A n \in DOMAIN Pairs(req) :
              \E x \in P : Rank(P, x) = n /\ Pairs(req)[n] = At(groups, x)
    BY <1>1, <1>10, GatherProperties
  <1>14. ASSUME NEW n \in DOMAIN Pairs(req)
         PROVE  \E s \in Source \cap req.sources : \E q \in Queries(s) :
                  /\ Pairs(req)[n] = [source |-> s, query |-> q]
                  /\ s \in Deferred <=> req.defer
    <2>1. PICK x \in P : Pairs(req)[n] = At(groups, x)
      BY <1>13
    <2>2. \E q \in Queries(active[x[1]]) :
            Pairs(req)[n] = [source |-> active[x[1]], query |-> q]
      BY <1>7, <1>11, <2>1
    <2> QED BY <1>5, <1>11, <2>2
  <1>15. ASSUME NEW n \in DOMAIN Pairs(req), NEW m \in DOMAIN Pairs(req),
                Pairs(req)[n] = Pairs(req)[m]
         PROVE  n = m
    <2>1. PICK x \in P : Rank(P, x) = n /\ Pairs(req)[n] = At(groups, x)
      BY <1>13
    <2>2. PICK y \in P : Rank(P, y) = m /\ Pairs(req)[m] = At(groups, y)
      BY <1>13
    <2> QED BY <1>12, <1>15, <2>1, <2>2
  <1> QED BY <1>13, <1>14, <1>15

\* The requests of the visitor's page.
Requested(req) ==
  \/ \E p \in 1 .. MaxPage, append \in BOOLEAN : req = ListRequest(p, append)
  \/ req = BlockRequest

\* Each position of a request is a search of its own, of a source that is
\* selected; the list asks the fast sources and the block the slow ones.
LEMMA RequestProperties ==
  ASSUME visit \in Visits, NEW req, Requested(req)
  PROVE  /\ IsSeq(Pairs(req))
         /\ \A i \in DOMAIN Pairs(req) :
              LET x == KeyOf(req, Pairs(req)[i])
              IN  /\ IsKey(x)
                  /\ x.source = Pairs(req)[i].source
                  /\ x.source \in visit.selection
                  /\ x.source \in Deferred <=> req.defer
         /\ \A i, j \in DOMAIN Pairs(req) :
              KeyOf(req, Pairs(req)[i]) = KeyOf(req, Pairs(req)[j]) => i = j
         /\ \A x \in Keys(req) \cup Prewarmed(req) : IsKey(x)
  <1>1. /\ req.query = Query /\ req.page \in 1 .. MaxPage
        /\ req.sources = visit.selection
        /\ req.filters = visit.filters
        /\ req.defer => req.page = 1
    <2>1. 1 \in 1 .. MaxPage
      BY Limits
    <2> QED BY <2>1 DEF Requested, ListRequest, BlockRequest
  <1>2. /\ IsSeq(Pairs(req))
        /\ \A i \in DOMAIN Pairs(req) :
             \E s \in Source \cap req.sources : \E q \in Queries(s) :
               /\ Pairs(req)[i] = [source |-> s, query |-> q]
               /\ s \in Deferred <=> req.defer
        /\ \A i, j \in DOMAIN Pairs(req) :
             Pairs(req)[i] = Pairs(req)[j] => i = j
    BY <1>1, PairsProperties
  <1>3. ASSUME NEW i \in DOMAIN Pairs(req)
        PROVE  LET x == KeyOf(req, Pairs(req)[i])
               IN  /\ IsKey(x)
                   /\ x.source = Pairs(req)[i].source
                   /\ x.source \in visit.selection
                   /\ x.source \in Deferred <=> req.defer
    <2>1. PICK s \in Source \cap req.sources : \E q \in Queries(s) :
               /\ Pairs(req)[i] = [source |-> s, query |-> q]
               /\ s \in Deferred <=> req.defer
      BY <1>2
    <2>2. PICK q \in Queries(s) : Pairs(req)[i] = [source |-> s, query |-> q]
      BY <2>1
    <2> DEFINE x == KeyOf(req, Pairs(req)[i])
    <2>3. x = [source |-> s, query |-> q, limit |-> PageSize * req.page,
               instrument |-> visit.filters.instrument]
      BY <1>1, <2>2 DEF KeyOf
    <2>4. s \in Deferred => x = SlowKey(s)
      BY <1>1, <2>1, <2>3 DEF SlowKey, Queries
    <2> HIDE DEF x
    <2>5. IsKey(x)
      BY <1>1, <2>1, <2>3, <2>4 DEF IsKey
    <2> QED BY <1>1, <2>1, <2>2, <2>3, <2>5 DEF x
  <1>4. ASSUME NEW i \in DOMAIN Pairs(req), NEW j \in DOMAIN Pairs(req),
               KeyOf(req, Pairs(req)[i]) = KeyOf(req, Pairs(req)[j])
        PROVE  i = j
    <2>1. /\ Pairs(req)[i].source = Pairs(req)[j].source
          /\ Pairs(req)[i].query = Pairs(req)[j].query
      BY <1>4 DEF KeyOf
    <2>2. Pairs(req)[i] = Pairs(req)[j]
      BY <1>2, <2>1
    <2> QED BY <1>2, <2>2
  <1>5. ASSUME NEW x \in Prewarmed(req) PROVE IsKey(x)
    <2>1. req.page = 1
      BY DEF Prewarmed
    <2>2. PICK s \in Deferred \cap req.sources :
            x = KeyOf(req, [source |-> s, query |-> req.query])
      BY DEF Prewarmed
    <2>3. x = SlowKey(s)
      BY <1>1, <2>1, <2>2 DEF KeyOf, SlowKey
    <2>4. s \in Source /\ Query \in Queries(s)
      BY SourcesAre DEF Queries
    <2>5. 1 \in 1 .. MaxPage
      BY Limits
    <2> QED BY <2>3, <2>4, <2>5 DEF IsKey, SlowKey
  <1> QED BY <1>2, <1>3, <1>4, <1>5 DEF Keys

\* What a search is answered.
LEMMA AnswerProperties ==
  ASSUME visit \in Visits, NEW x, IsKey(x), NEW a \in AnswersOf(x)
  PROVE  /\ IsSeq(a) /\ a \notin {Waiting, Failed}
         /\ \A i \in DOMAIN a : a[i].source = x.source
         /\ x.source \notin Deferred =>
              /\ NoRepeats(a)
              /\ \A i \in DOMAIN a : PublicDomain(a[i], x.source)
              /\ a = Search(x.source, visit.catalog[x.source][x.query], "json",
                            visit.filters.instrument, x.limit)
  <1>1. PICK s \in Source : \E q \in Queries(s), p \in 1 .. MaxPage :
          x = [source |-> s, query |-> q, limit |-> PageSize * p,
               instrument |-> visit.filters.instrument]
    BY DEF IsKey
  <1>2. PICK q \in Queries(s), p \in 1 .. MaxPage :
          x = [source |-> s, query |-> q, limit |-> PageSize * p,
               instrument |-> visit.filters.instrument]
    BY <1>1
  <1> DEFINE listing == visit.catalog[s][q]
             instrument == visit.filters.instrument
  <1>3. PICK shape \in Shapes(s) :
          a = Search(s, listing, shape, instrument, PageSize * p)
    BY <1>2 DEF AnswersOf
  <1>4. s \notin Deferred => shape = "json"
    BY DEF Shapes, Deferred
  <1>5. a \notin {Waiting, Failed}
    BY <1>3, <1>4, MarksAssumption
  <1>6. /\ IsSeq(listing)
        /\ s = "imslp" => \A i, j \in DOMAIN listing :
                            listing[i].id = listing[j].id => i = j
    BY CatalogAssumption
  <1>7. s \in {"imslp", "mutopia", "musescore", "ultimate-guitar"}
        /\ PageSize * p \in Nat
    BY SourcesAre, Limits
  <1> HIDE DEF listing, instrument
  <1>8. /\ IsSeq(a) /\ \A i \in DOMAIN a : a[i].source = s
        /\ s \in {"imslp", "mutopia"} =>
             NoRepeats(a) /\ \A i \in DOMAIN a : PublicDomain(a[i], s)
    BY <1>3, <1>6, <1>7, AnswerOfSource
  <1> QED BY <1>2, <1>3, <1>4, <1>5, <1>7, <1>8 DEF Deferred, listing, instrument

-----------------------------------------------------------------------------
(* Steps *)

\* A visit is over before another one begins.
LEMMA VisitStays == ASSUME [Next]_vars PROVE visit' = visit
  BY DEF Next, vars, Open, Scroll, LoadBlock, Begin, Land, LandOk, LandErr,
         Forget, RespondList, RespondBlock, Leave

LEMMA SameVisit ==
  ASSUME visit' = visit
  PROVE  /\ \A x : IsKey(x)' = IsKey(x) /\ AnswersOf(x)' = AnswersOf(x)
         /\ \A s : SlowKey(s)' = SlowKey(s)
         /\ \A p, append : ListRequest(p, append)' = ListRequest(p, append)
         /\ BlockRequest' = BlockRequest /\ NoFan' = NoFan
  BY DEF IsKey, AnswersOf, SlowKey, ListRequest, BlockRequest, NoFan

\* A request begins.
LEMMA BeginEffect ==
  ASSUME FanInv, NEW k \in Kind, NEW req, Begin(k, req)
  PROVE  /\ ~fan[k].on
         /\ fan' = [j \in Kind |-> [on |-> fan'[j].on, req |-> fan'[j].req,
                                    got |-> fan'[j].got]]
         /\ \A j \in Kind \ {k} : fan'[j] = fan[j]
         /\ fan'[k].on = TRUE /\ fan'[k].req = req
         /\ fan'[k].got = [i \in DOMAIN Pairs(req) |->
                             IF KeyOf(req, Pairs(req)[i]) \in DOMAIN held
                             THEN held[KeyOf(req, Pairs(req)[i])] ELSE Waiting]
         /\ held' = held /\ visit' = visit
         /\ flights' = flights \cup
              ((Keys(req) \cup Prewarmed(req)) \ (flights \cup DOMAIN held))
  <1> DEFINE got == [i \in DOMAIN Pairs(req) |->
                       IF KeyOf(req, Pairs(req)[i]) \in DOMAIN held
                       THEN held[KeyOf(req, Pairs(req)[i])] ELSE Waiting]
  <1>1. fan' = [fan EXCEPT ![k] = [on |-> TRUE, req |-> req, got |-> got]]
        /\ ~fan[k].on /\ held' = held /\ visit' = visit
        /\ flights' = flights \cup
              ((Keys(req) \cup Prewarmed(req)) \ (flights \cup DOMAIN held))
    BY DEF Begin
  <1> HIDE DEF got
  <1>2. DOMAIN fan = Kind
        /\ \A j \in Kind : fan[j] = [on |-> fan[j].on, req |-> fan[j].req,
                                     got |-> fan[j].got]
    BY DEF FanInv
  <1>3. fan'[k] = [on |-> TRUE, req |-> req, got |-> got]
        /\ \A j \in Kind \ {k} : fan'[j] = fan[j]
    BY <1>1, <1>2
  <1>4. fan' = [j \in Kind |-> fan'[j]]
    BY <1>1, <1>2
  <1> QED BY <1>1, <1>2, <1>3, <1>4 DEF got

\* An answer reaches those that wait for it.
LEMMA DeliverEffect ==
  ASSUME FanInv, NEW key, NEW answer, Deliver(key, answer)
  PROVE  /\ fan' = [k \in Kind |-> [on |-> fan'[k].on, req |-> fan'[k].req,
                                    got |-> fan'[k].got]]
         /\ \A k \in Kind :
              /\ fan'[k].on = fan[k].on /\ fan'[k].req = fan[k].req
              /\ fan'[k].got = [i \in DOMAIN fan[k].got |->
                                  IF i \in Waits(k, key) THEN answer
                                  ELSE fan[k].got[i]]
  <1> DEFINE got == [k \in Kind |-> [i \in DOMAIN fan[k].got |->
                          IF i \in Waits(k, key) THEN answer ELSE fan[k].got[i]]]
  <1>1. fan' = [k \in Kind |-> [fan[k] EXCEPT !.got = got[k]]]
    BY DEF Deliver
  <1> HIDE DEF got
  <1>2. \A k \in Kind : fan[k] = [on |-> fan[k].on, req |-> fan[k].req,
                                  got |-> fan[k].got]
    BY DEF FanInv
  <1>3. \A k \in Kind : fan'[k] = [on |-> fan[k].on, req |-> fan[k].req,
                                   got |-> got[k]]
    <2> SUFFICES ASSUME NEW k \in Kind
                 PROVE  fan'[k] = [on |-> fan[k].on, req |-> fan[k].req,
                                   got |-> got[k]]
      OBVIOUS
    <2>1. fan'[k] = [fan[k] EXCEPT !.got = got[k]]
      BY <1>1
    <2> QED BY <1>2, <2>1
  <1>4. fan' = [k \in Kind |-> fan'[k]]
    BY <1>1
  <1> QED BY <1>3, <1>4 DEF got

\* A request is answered.
LEMMA RespondEffect ==
  ASSUME FanInv, NEW k \in Kind, fan' = [fan EXCEPT ![k] = NoFan]
  PROVE  /\ fan' = [j \in Kind |-> [on |-> fan'[j].on, req |-> fan'[j].req,
                                    got |-> fan'[j].got]]
         /\ fan'[k] = NoFan
         /\ \A j \in Kind \ {k} : fan'[j] = fan[j]
  <1>1. DOMAIN fan = Kind
        /\ \A j \in Kind : fan[j] = [on |-> fan[j].on, req |-> fan[j].req,
                                     got |-> fan[j].got]
    BY DEF FanInv
  <1>2. fan'[k] = NoFan /\ \A j \in Kind \ {k} : fan'[j] = fan[j]
    BY <1>1
  <1>3. NoFan = [on |-> NoFan.on, req |-> NoFan.req, got |-> NoFan.got]
    BY DEF NoFan
  <1>4. fan' = [j \in Kind |-> fan'[j]]
    BY <1>1
  <1> QED BY <1>1, <1>2, <1>3, <1>4

LEMMA BeginKeepsFan ==
  ASSUME RouteInv, NEW k \in Kind, NEW req, Begin(k, req), Requested(req),
         k = "list" =>
           \E p \in 1 .. MaxPage, append \in BOOLEAN :
             /\ req = ListRequest(p, append)
             /\ IF append THEN tab.page # 0 /\ p = tab.page + 1 ELSE tab = Blank,
         k = "block" => tab.page # 0 /\ req = BlockRequest,
         tab'.page = tab.page, tab = Blank => tab' = Blank
  PROVE  FanInv'
  <1>1. /\ fan' = [j \in Kind |-> [on |-> fan'[j].on, req |-> fan'[j].req,
                                   got |-> fan'[j].got]]
        /\ \A j \in Kind \ {k} : fan'[j] = fan[j]
        /\ fan'[k].on = TRUE /\ fan'[k].req = req
        /\ fan'[k].got = [i \in DOMAIN Pairs(req) |->
                            IF KeyOf(req, Pairs(req)[i]) \in DOMAIN held
                            THEN held[KeyOf(req, Pairs(req)[i])] ELSE Waiting]
        /\ visit' = visit
    BY BeginEffect DEF RouteInv
  <1>2. IsSeq(fan'[k].got)
    <2>1. IsSeq(Pairs(req))
      BY RequestProperties DEF RouteInv
    <2>2. Len(Pairs(req)) \in Nat /\ DOMAIN Pairs(req) = 1 .. Len(Pairs(req))
      BY <2>1, SeqIsFunction
    <2> DEFINE got == fan'[k].got
    <2>3. got = [i \in 1 .. Len(Pairs(req)) |-> got[i]]
      BY <1>1, <2>2
    <2> HIDE DEF got
    <2>4. IsSeq(got)
      BY <2>2, <2>3, FunctionIsSeq
    <2> QED BY <2>4 DEF got
  <1>3. ASSUME NEW j \in Kind
        PROVE  /\ fan'[j].on \in BOOLEAN
               /\ ~fan'[j].on => fan'[j] = NoFan'
               /\ fan'[j].on => /\ IsSeq(fan'[j].got)
                                /\ DOMAIN fan'[j].got = DOMAIN Pairs(fan'[j].req)
    <2>1. CASE j = k
      BY <1>1, <1>2, <2>1
    <2>2. CASE j # k
      BY <1>1, <2>2, SameVisit DEF RouteInv, FanInv
    <2> QED BY <2>1, <2>2
  <1>4. fan'["list"].on =>
          \E p \in 1 .. MaxPage, append \in BOOLEAN :
            /\ fan'["list"].req = ListRequest(p, append)'
            /\ IF append THEN tab'.page # 0 /\ p = tab'.page + 1 ELSE tab' = Blank
    <2>1. CASE k = "list"
      BY <1>1, <2>1, SameVisit
    <2>2. CASE k # "list"
      BY <1>1, <2>2, SameVisit DEF RouteInv, FanInv, Kind
    <2> QED BY <2>1, <2>2
  <1>5. fan'["block"].on => tab'.page # 0 /\ fan'["block"].req = BlockRequest'
    BY <1>1, SameVisit DEF RouteInv, FanInv, Kind
  <1> QED BY <1>1, <1>3, <1>4, <1>5 DEF FanInv, Blank

LEMMA BeginKeepsAnswers ==
  ASSUME RouteInv, NEW k \in Kind, NEW req, Begin(k, req), Requested(req)
  PROVE  AnswerInv'
  <1>1. /\ \A j \in Kind \ {k} : fan'[j] = fan[j]
        /\ fan'[k].req = req
        /\ fan'[k].got = [i \in DOMAIN Pairs(req) |->
                             IF KeyOf(req, Pairs(req)[i]) \in DOMAIN held
                             THEN held[KeyOf(req, Pairs(req)[i])] ELSE Waiting]
        /\ held' = held /\ visit' = visit
        /\ flights' = flights \cup
             ((Keys(req) \cup Prewarmed(req)) \ (flights \cup DOMAIN held))
    BY BeginEffect DEF RouteInv
  <1>2. /\ \A x : IsKey(x)' = IsKey(x) /\ AnswersOf(x)' = AnswersOf(x)
    BY <1>1, SameVisit
  <1>3. flights' \cap DOMAIN held' = {}
    BY <1>1 DEF RouteInv, AnswerInv
  <1>4. \A x \in flights' \cup DOMAIN held' : IsKey(x)
    <2>1. \A x \in Keys(req) \cup Prewarmed(req) : IsKey(x)
      BY RequestProperties DEF RouteInv
    <2> QED BY <1>1, <2>1 DEF RouteInv, AnswerInv
  <1>5. \A x \in DOMAIN held' : held'[x] \in AnswersOf(x)
    BY <1>1 DEF RouteInv, AnswerInv
  <1>6. ASSUME NEW j \in Kind, NEW i \in DOMAIN fan'[j].got
        PROVE  fan'[j].got[i] \in {Waiting, Failed}
                 \cup AnswersOf(KeyOf(fan'[j].req, Pairs(fan'[j].req)[i]))
    <2>1. CASE j = k
      BY <1>1, <1>5, <1>6, <2>1
    <2>2. CASE j # k
      <3>1. fan'[j] = fan[j]
        BY <1>1, <2>2
      <3> QED BY <1>6, <3>1 DEF RouteInv, AnswerInv
    <2> QED BY <2>1, <2>2
  <1> QED BY <1>2, <1>3, <1>4, <1>5, <1>6 DEF AnswerInv

LEMMA DeliverKeepsFan ==
  ASSUME RouteInv, NEW key, NEW answer, Deliver(key, answer),
         visit' = visit, tab' = tab
  PROVE  FanInv'
  <1>1. /\ fan' = [k \in Kind |-> [on |-> fan'[k].on, req |-> fan'[k].req,
                                   got |-> fan'[k].got]]
        /\ \A k \in Kind :
              /\ fan'[k].on = fan[k].on /\ fan'[k].req = fan[k].req
              /\ fan'[k].got = [i \in DOMAIN fan[k].got |->
                                  IF i \in Waits(k, key) THEN answer
                                  ELSE fan[k].got[i]]
    BY DeliverEffect DEF RouteInv
  <1>2. ASSUME NEW k \in Kind
        PROVE  /\ fan'[k].on \in BOOLEAN
               /\ ~fan'[k].on => fan'[k] = NoFan'
               /\ fan'[k].on => /\ IsSeq(fan'[k].got)
                                /\ DOMAIN fan'[k].got = DOMAIN Pairs(fan'[k].req)
    <2>1. fan'[k].on \in BOOLEAN
      BY <1>1 DEF RouteInv, FanInv
    <2>2. ASSUME ~fan'[k].on PROVE fan'[k] = NoFan'
      <3>1. fan[k] = NoFan
        BY <1>1, <2>2 DEF RouteInv, FanInv
      <3>2. fan[k].got = << >> /\ fan[k].req = ListRequest(1, FALSE)
            /\ fan[k].on = FALSE
        BY <3>1 DEF NoFan
      <3>3. fan'[k].got = << >>
        <4>1. DOMAIN << >> = {}
          OBVIOUS
        <4>2. fan'[k].got = [i \in {} |-> IF i \in Waits(k, key) THEN answer
                                          ELSE fan[k].got[i]]
          BY <1>1, <3>2, <4>1
        <4> QED BY <4>2, EmptySequence
      <3>4. fan'[k] = [on |-> FALSE, req |-> ListRequest(1, FALSE),
                       got |-> << >>]
        <4>1. fan'[k] = [on |-> fan'[k].on, req |-> fan'[k].req,
                         got |-> fan'[k].got]
          BY <1>1
        <4> QED BY <1>1, <3>2, <3>3, <4>1
      <3> QED BY <3>4, SameVisit DEF NoFan
    <2>3. ASSUME fan'[k].on
          PROVE  /\ IsSeq(fan'[k].got)
                 /\ DOMAIN fan'[k].got = DOMAIN Pairs(fan'[k].req)
      <3>1. /\ IsSeq(fan[k].got)
            /\ DOMAIN fan[k].got = DOMAIN Pairs(fan[k].req)
        BY <1>1, <2>3 DEF RouteInv, FanInv
      <3> DEFINE got == fan'[k].got
                 n == Len(fan[k].got)
      <3>2. n \in Nat /\ DOMAIN fan[k].got = 1 .. n
        BY <3>1, SeqIsFunction
      <3>3. got = [i \in 1 .. n |-> got[i]]
        BY <1>1, <3>2
      <3>4. DOMAIN got = DOMAIN fan[k].got
        BY <1>1
      <3> HIDE DEF got, n
      <3>5. IsSeq(got)
        BY <3>2, <3>3, FunctionIsSeq
      <3> QED BY <1>1, <3>1, <3>4, <3>5 DEF got
    <2> QED BY <2>1, <2>2, <2>3
  <1>3. fan'["list"].on =>
          \E p \in 1 .. MaxPage, append \in BOOLEAN :
            /\ fan'["list"].req = ListRequest(p, append)'
            /\ IF append THEN tab'.page # 0 /\ p = tab'.page + 1 ELSE tab' = Blank
    BY <1>1, SameVisit DEF RouteInv, FanInv, Kind
  <1>4. fan'["block"].on => tab'.page # 0 /\ fan'["block"].req = BlockRequest'
    BY <1>1, SameVisit DEF RouteInv, FanInv, Kind
  <1> QED BY <1>1, <1>2, <1>3, <1>4 DEF FanInv, Blank

\* What is delivered stays an answer of the search that waited for it.
LEMMA DeliverKeepsAnswers ==
  ASSUME RouteInv, NEW key, NEW answer, Deliver(key, answer),
         answer \in {Failed} \cup AnswersOf(key)
  PROVE  \A k \in Kind : \A i \in DOMAIN fan'[k].got :
           fan'[k].got[i] \in {Waiting, Failed}
             \cup AnswersOf(KeyOf(fan'[k].req, Pairs(fan'[k].req)[i]))
  <1>1. \A k \in Kind :
          /\ fan'[k].req = fan[k].req
          /\ fan'[k].got = [i \in DOMAIN fan[k].got |->
                              IF i \in Waits(k, key) THEN answer
                              ELSE fan[k].got[i]]
    BY DeliverEffect DEF RouteInv
  <1> SUFFICES ASSUME NEW k \in Kind, NEW i \in DOMAIN fan'[k].got
               PROVE  fan'[k].got[i] \in {Waiting, Failed}
                        \cup AnswersOf(KeyOf(fan'[k].req, Pairs(fan'[k].req)[i]))
    OBVIOUS
  <1>2. i \in DOMAIN fan[k].got
    BY <1>1
  <1>3. CASE i \in Waits(k, key)
    <2>1. KeyOf(fan[k].req, Pairs(fan[k].req)[i]) = key
      BY <1>3 DEF Waits
    <2> QED BY <1>1, <1>2, <1>3, <2>1
  <1>4. CASE i \notin Waits(k, key)
    BY <1>1, <1>2, <1>4 DEF RouteInv, AnswerInv
  <1> QED BY <1>3, <1>4

-----------------------------------------------------------------------------
(* The invariant of the page, its requests and the answers *)

LEMMA RouteInit == ASSUME Init PROVE RouteInv
  <1>1. DOMAIN << >> = {}
    OBVIOUS
  <1>2. TabInv
    BY Limits DEF Init, TabInv, Blank
  <1>3. FanInv
    BY DEF Init, FanInv, NoFan, Kind
  <1>4. \A k \in Kind : DOMAIN fan[k].got = {}
    BY <1>1 DEF Init, NoFan
  <1>5. AnswerInv
    BY <1>1, <1>4 DEF Init, AnswerInv
  <1> QED BY <1>2, <1>3, <1>5 DEF Init, RouteInv

LEMMA OpenKeepsRoute ==
  ASSUME RouteInv, NEW p \in 1 .. MaxPage, Open(p)
  PROVE  RouteInv'
  <1> DEFINE req == ListRequest(p, FALSE)
  <1>1. Begin("list", req) /\ tab = Blank /\ tab' = tab
    BY DEF Open
  <1>2. Requested(req) /\ "list" \in Kind
    BY DEF Requested, Kind
  <1> HIDE DEF req
  <1>3. FanInv'
    <2>1. \E q \in 1 .. MaxPage, append \in BOOLEAN :
            /\ req = ListRequest(q, append)
            /\ IF append THEN tab.page # 0 /\ q = tab.page + 1 ELSE tab = Blank
      BY <1>1 DEF req
    <2> QED BY <1>1, <1>2, <2>1, BeginKeepsFan
  <1>4. AnswerInv'
    BY <1>1, <1>2, BeginKeepsAnswers
  <1>5. TabInv'
    BY <1>1 DEF RouteInv, TabInv, Blank
  <1>6. visit' = visit
    BY <1>1 DEF Begin
  <1> QED BY <1>3, <1>4, <1>5, <1>6 DEF RouteInv

LEMMA ScrollKeepsRoute ==
  ASSUME RouteInv, Scroll
  PROVE  RouteInv'
  <1> DEFINE req == ListRequest(tab.next, TRUE)
  <1>1. Begin("list", req) /\ tab.next # 0 /\ tab' = tab
    BY DEF Scroll
  <1>2. tab.next = tab.page + 1 /\ tab.next \in 1 .. MaxPage /\ tab.page # 0
    <2>1. tab.next = tab.page + 1 /\ tab.next <= MaxPage
          /\ tab.page \in 0 .. MaxPage
      BY <1>1 DEF RouteInv, TabInv
    <2>2. tab.page # 0
      BY <1>1 DEF RouteInv, TabInv, Blank
    <2> QED BY <2>1, <2>2, Limits
  <1>3. Requested(req) /\ "list" \in Kind
    BY <1>2 DEF Requested, Kind
  <1> HIDE DEF req
  <1>4. FanInv'
    <2>1. \E q \in 1 .. MaxPage, append \in BOOLEAN :
            /\ req = ListRequest(q, append)
            /\ IF append THEN tab.page # 0 /\ q = tab.page + 1 ELSE tab = Blank
      BY <1>2 DEF req
    <2> QED BY <1>1, <1>3, <2>1, BeginKeepsFan
  <1>5. AnswerInv'
    BY <1>1, <1>3, BeginKeepsAnswers
  <1>6. TabInv'
    BY <1>1 DEF RouteInv, TabInv, Blank
  <1>7. visit' = visit
    BY <1>1 DEF Begin
  <1> QED BY <1>4, <1>5, <1>6, <1>7 DEF RouteInv

LEMMA LoadBlockKeepsRoute ==
  ASSUME RouteInv, LoadBlock
  PROVE  RouteInv'
  <1>1. /\ Begin("block", BlockRequest) /\ tab.block = "offered"
        /\ tab' = [tab EXCEPT !.block = "loading"]
    BY DEF LoadBlock
  <1>2. Requested(BlockRequest) /\ "block" \in Kind
    BY DEF Requested, Kind
  <1>3. tab.page # 0 /\ tab # Blank
    BY <1>1 DEF RouteInv, TabInv, Blank
  <1>4. tab' = [page |-> tab.page, shown |-> tab.shown, next |-> tab.next,
                block |-> "loading", cards |-> tab.cards, whole |-> tab.whole]
    BY <1>1 DEF RouteInv, TabInv
  <1>5. FanInv'
    <2>1. tab'.page = tab.page
      BY <1>4
    <2> HIDE DEF BlockRequest
    <2> QED BY <1>1, <1>2, <1>3, <2>1, BeginKeepsFan
  <1>6. AnswerInv'
    BY <1>1, <1>2, BeginKeepsAnswers
  <1>7. TabInv'
    BY <1>3, <1>4 DEF RouteInv, TabInv, Blank
  <1>8. visit' = visit
    BY <1>1 DEF Begin
  <1> QED BY <1>5, <1>6, <1>7, <1>8 DEF RouteInv

LEMMA LandOkKeepsRoute ==
  ASSUME RouteInv, NEW key \in flights, NEW shape \in Shapes(key.source),
         LandOk(key, shape)
  PROVE  RouteInv'
  <1> DEFINE answer == Search(key.source, visit.catalog[key.source][key.query],
                              shape, key.instrument, key.limit)
  <1>1. /\ flights' = flights \ {key}
        /\ held' = [x \in DOMAIN held \cup {key} |->
                      IF x = key THEN answer ELSE held[x]]
        /\ Deliver(key, answer)
        /\ visit' = visit /\ tab' = tab
    BY DEF LandOk
  <1>2. answer \in AnswersOf(key)
    BY DEF AnswersOf
  <1> HIDE DEF answer
  <1>3. FanInv'
    BY <1>1, DeliverKeepsFan
  <1>4. AnswerInv'
    <2>1. /\ \A x : IsKey(x)' = IsKey(x) /\ AnswersOf(x)' = AnswersOf(x)
      BY <1>1, SameVisit
    <2>2. /\ flights' \cap DOMAIN held' = {}
          /\ \A x \in flights' \cup DOMAIN held' : IsKey(x)
      BY <1>1 DEF RouteInv, AnswerInv
    <2>3. \A x \in DOMAIN held' : held'[x] \in AnswersOf(x)
      BY <1>1, <1>2 DEF RouteInv, AnswerInv
    <2>4. \A k \in Kind : \A i \in DOMAIN fan'[k].got :
            fan'[k].got[i] \in {Waiting, Failed}
              \cup AnswersOf(KeyOf(fan'[k].req, Pairs(fan'[k].req)[i]))
      BY <1>1, <1>2, DeliverKeepsAnswers
    <2> QED BY <2>1, <2>2, <2>3, <2>4 DEF AnswerInv
  <1>5. TabInv'
    BY <1>1 DEF RouteInv, TabInv, Blank
  <1> QED BY <1>1, <1>3, <1>4, <1>5 DEF RouteInv

LEMMA LandErrKeepsRoute ==
  ASSUME RouteInv, NEW key \in flights, LandErr(key)
  PROVE  RouteInv'
  <1>1. /\ flights' = flights \ {key} /\ held' = held
        /\ Deliver(key, Failed)
        /\ visit' = visit /\ tab' = tab
    BY DEF LandErr
  <1>2. FanInv'
    BY <1>1, DeliverKeepsFan
  <1>3. AnswerInv'
    <2>1. /\ \A x : IsKey(x)' = IsKey(x) /\ AnswersOf(x)' = AnswersOf(x)
      BY <1>1, SameVisit
    <2>2. /\ flights' \cap DOMAIN held' = {}
          /\ \A x \in flights' \cup DOMAIN held' : IsKey(x)
          /\ \A x \in DOMAIN held' : held'[x] \in AnswersOf(x)
      BY <1>1 DEF RouteInv, AnswerInv
    <2>3. \A k \in Kind : \A i \in DOMAIN fan'[k].got :
            fan'[k].got[i] \in {Waiting, Failed}
              \cup AnswersOf(KeyOf(fan'[k].req, Pairs(fan'[k].req)[i]))
      BY <1>1, DeliverKeepsAnswers
    <2> QED BY <2>1, <2>2, <2>3 DEF AnswerInv
  <1>4. TabInv'
    BY <1>1 DEF RouteInv, TabInv, Blank
  <1> QED BY <1>1, <1>2, <1>3, <1>4 DEF RouteInv

\* The requests and what was delivered to them are left alone.
LEMMA SameFan ==
  ASSUME RouteInv, visit' = visit, tab' = tab, fan' = fan
  PROVE  FanInv' /\ TabInv'
  <1>1. FanInv'
    BY SameVisit DEF RouteInv, FanInv, Blank
  <1>2. TabInv'
    BY DEF RouteInv, TabInv, Blank
  <1> QED BY <1>1, <1>2

LEMMA ForgetKeepsRoute ==
  ASSUME RouteInv, Forget
  PROVE  RouteInv'
  <1>1. PICK key \in DOMAIN held :
          /\ held' = [x \in DOMAIN held \ {key} |-> held[x]]
          /\ flights' = flights /\ fan' = fan /\ visit' = visit /\ tab' = tab
    BY DEF Forget
  <1>2. FanInv' /\ TabInv'
    BY <1>1, SameFan
  <1>3. AnswerInv'
    <2>1. /\ \A x : IsKey(x)' = IsKey(x) /\ AnswersOf(x)' = AnswersOf(x)
      BY <1>1, SameVisit
    <2> QED BY <1>1, <2>1 DEF RouteInv, AnswerInv
  <1> QED BY <1>1, <1>2, <1>3 DEF RouteInv

\* The results of the list, before the slice of an append.
Results == Take(Merged(Groups("list"), fan["list"].req.filters),
                fan["list"].req.page * PageSize)

\* The list is shown.
LEMMA RespondListEffect ==
  ASSUME RouteInv, RespondList
  PROVE  \E p \in 1 .. MaxPage, append \in BOOLEAN :
           /\ fan["list"].req = ListRequest(p, append) /\ Complete("list")
           /\ IF append THEN tab.page # 0 /\ p = tab.page + 1 ELSE tab = Blank
           /\ tab' = [page |-> p,
                      shown |-> IF append THEN tab.shown \o NewItems(Results, p)
                                ELSE Results,
                      next |-> NextPage(Results, p),
                      block |-> tab'.block, cards |-> tab.cards,
                      whole |-> tab'.whole]
           /\ tab'.block \in {"offered", tab.block}
           /\ tab'.whole = (tab.whole /\ \A i \in DOMAIN fan["list"].got :
                                           fan["list"].got[i] # Failed)
  <1> DEFINE req == fan["list"].req
             shown == IF req.append THEN tab.shown \o NewItems(Results, req.page)
                      ELSE Results
             whole == tab.whole /\ \A i \in DOMAIN fan["list"].got :
                                     fan["list"].got[i] # Failed
             block == IF ~req.append /\ req.page = 1
                         /\ req.sources \cap Deferred # {}
                      THEN "offered" ELSE tab.block
  <1>1. /\ Complete("list")
        /\ tab' = [tab EXCEPT !.page = req.page,
                              !.next = NextPage(Results, req.page),
                              !.shown = shown, !.whole = whole, !.block = block]
    BY DEF RespondList, Results
  <1> HIDE DEF shown, whole, block
  <1>2. tab' = [page |-> req.page, shown |-> shown,
                next |-> NextPage(Results, req.page), block |-> block,
                cards |-> tab.cards, whole |-> whole]
    BY <1>1 DEF RouteInv, TabInv
  <1>3. PICK p \in 1 .. MaxPage, append \in BOOLEAN :
          /\ fan["list"].req = ListRequest(p, append)
          /\ IF append THEN tab.page # 0 /\ p = tab.page + 1 ELSE tab = Blank
    BY <1>1 DEF Complete, RouteInv, FanInv
  <1>4. req.page = p /\ req.append = append
    BY <1>3 DEF ListRequest
  <1>5. shown = IF append THEN tab.shown \o NewItems(Results, p) ELSE Results
    BY <1>4 DEF shown
  <1>6. block \in {"offered", tab.block}
    BY DEF block
  <1>7. tab'.block = block /\ tab'.whole = whole
    BY <1>2
  <1> QED BY <1>1, <1>2, <1>3, <1>4, <1>5, <1>6, <1>7 DEF whole

LEMMA RespondListKeepsRoute ==
  ASSUME RouteInv, RespondList
  PROVE  RouteInv'
  <1>1. PICK p \in 1 .. MaxPage, append \in BOOLEAN :
          /\ tab' = [page |-> p,
                     shown |-> IF append THEN tab.shown \o NewItems(Results, p)
                               ELSE Results,
                     next |-> NextPage(Results, p),
                     block |-> tab'.block, cards |-> tab.cards,
                     whole |-> tab'.whole]
          /\ tab'.block \in {"offered", tab.block}
          /\ tab'.whole = (tab.whole /\ \A i \in DOMAIN fan["list"].got :
                                          fan["list"].got[i] # Failed)
    BY RespondListEffect
  <1>2. /\ fan' = [fan EXCEPT !["list"] = NoFan]
        /\ visit' = visit /\ flights' = flights /\ held' = held
    BY DEF RespondList
  <1>3. /\ fan' = [j \in Kind |-> [on |-> fan'[j].on, req |-> fan'[j].req,
                                   got |-> fan'[j].got]]
        /\ fan'["list"] = NoFan
        /\ \A j \in Kind \ {"list"} : fan'[j] = fan[j]
    BY <1>2, RespondEffect DEF RouteInv, Kind
  <1>4. tab'.page = p /\ tab'.next = NextPage(Results, p)
    BY <1>1
  <1>5. TabInv'
    <2>1. tab'.next \in {0} \cup {p + 1} /\ tab'.next <= MaxPage
      BY <1>4, Limits DEF NextPage
    <2>2. tab'.block \in {"none", "offered", "loading", "loaded"}
      BY <1>1 DEF RouteInv, TabInv
    <2>3. tab'.whole \in BOOLEAN
      BY <1>1
    <2>4. tab'.page \in 0 .. MaxPage /\ tab'.page # 0
      BY <1>4, Limits
    <2>5. tab' = [page |-> tab'.page, shown |-> tab'.shown, next |-> tab'.next,
                  block |-> tab'.block, cards |-> tab'.cards,
                  whole |-> tab'.whole]
      BY <1>1
    <2> QED BY <1>4, <2>1, <2>2, <2>3, <2>4, <2>5 DEF TabInv
  <1>6. FanInv'
    <2>1. fan'["block"] = fan["block"] /\ Kind = {"list", "block"}
      BY <1>3 DEF Kind
    <2>2. NoFan.on = FALSE
      BY DEF NoFan
    <2>3. tab'.page # 0
      BY <1>4, Limits
    <2>4. \A k \in Kind :
            /\ fan'[k].on \in BOOLEAN
            /\ ~fan'[k].on => fan'[k] = NoFan'
            /\ fan'[k].on => /\ IsSeq(fan'[k].got)
                             /\ DOMAIN fan'[k].got = DOMAIN Pairs(fan'[k].req)
      BY <1>2, <1>3, <2>1, <2>2, SameVisit DEF RouteInv, FanInv
    <2>5. fan'["block"].on =>
            tab'.page # 0 /\ fan'["block"].req = BlockRequest'
      BY <1>2, <2>1, <2>3, SameVisit DEF RouteInv, FanInv
    <2> QED BY <1>3, <2>2, <2>4, <2>5 DEF FanInv
  <1>7. AnswerInv'
    <2>1. /\ \A x : IsKey(x)' = IsKey(x) /\ AnswersOf(x)' = AnswersOf(x)
      BY <1>2, SameVisit
    <2>2. DOMAIN NoFan.got = {}
      BY DEF NoFan
    <2>3. \A k \in Kind : \A i \in DOMAIN fan'[k].got :
            fan'[k].got[i] \in {Waiting, Failed}
              \cup AnswersOf(KeyOf(fan'[k].req, Pairs(fan'[k].req)[i]))
      BY <1>3, <2>2 DEF RouteInv, AnswerInv
    <2> QED BY <1>2, <2>1, <2>3 DEF RouteInv, AnswerInv
  <1> QED BY <1>2, <1>5, <1>6, <1>7 DEF RouteInv

LEMMA RespondBlockKeepsRoute ==
  ASSUME RouteInv, RespondBlock
  PROVE  RouteInv'
  <1> DEFINE cards == Take(Merged(Groups("block"), fan["block"].req.filters),
                           PageSize)
  <1>1. /\ fan["block"].on
        /\ fan' = [fan EXCEPT !["block"] = NoFan]
        /\ tab' = [tab EXCEPT !.cards = cards, !.block = "loaded"]
        /\ visit' = visit /\ flights' = flights /\ held' = held
    BY DEF RespondBlock, Complete
  <1> HIDE DEF cards
  <1>2. tab.page # 0 /\ tab # Blank
    BY <1>1 DEF RouteInv, FanInv, Blank
  <1>3. tab' = [page |-> tab.page, shown |-> tab.shown, next |-> tab.next,
                block |-> "loaded", cards |-> cards, whole |-> tab.whole]
    BY <1>1 DEF RouteInv, TabInv
  <1>4. /\ fan' = [j \in Kind |-> [on |-> fan'[j].on, req |-> fan'[j].req,
                                   got |-> fan'[j].got]]
        /\ fan'["block"] = NoFan
        /\ \A j \in Kind \ {"block"} : fan'[j] = fan[j]
    BY <1>1, RespondEffect DEF RouteInv, Kind
  <1>5. TabInv'
    BY <1>2, <1>3 DEF RouteInv, TabInv, Blank
  <1>6. FanInv'
    <2>1. fan'["list"] = fan["list"] /\ Kind = {"list", "block"}
      BY <1>4 DEF Kind
    <2>2. NoFan.on = FALSE
      BY DEF NoFan
    <2>3. tab'.page = tab.page
      BY <1>3
    <2>4. \A k \in Kind :
            /\ fan'[k].on \in BOOLEAN
            /\ ~fan'[k].on => fan'[k] = NoFan'
            /\ fan'[k].on => /\ IsSeq(fan'[k].got)
                             /\ DOMAIN fan'[k].got = DOMAIN Pairs(fan'[k].req)
      BY <1>1, <1>4, <2>1, <2>2, SameVisit DEF RouteInv, FanInv
    <2>5. fan'["list"].on =>
            \E p \in 1 .. MaxPage, append \in BOOLEAN :
              /\ fan'["list"].req = ListRequest(p, append)'
              /\ IF append THEN tab'.page # 0 /\ p = tab'.page + 1
                 ELSE tab' = Blank
      BY <1>1, <1>2, <2>1, <2>3, SameVisit DEF RouteInv, FanInv
    <2> QED BY <1>4, <2>2, <2>4, <2>5 DEF FanInv, Blank
  <1>7. AnswerInv'
    <2>1. /\ \A x : IsKey(x)' = IsKey(x) /\ AnswersOf(x)' = AnswersOf(x)
      BY <1>1, SameVisit
    <2>2. DOMAIN NoFan.got = {}
      BY DEF NoFan
    <2>3. \A k \in Kind : \A i \in DOMAIN fan'[k].got :
            fan'[k].got[i] \in {Waiting, Failed}
              \cup AnswersOf(KeyOf(fan'[k].req, Pairs(fan'[k].req)[i]))
      BY <1>4, <2>2 DEF RouteInv, AnswerInv
    <2> QED BY <1>1, <2>1, <2>3 DEF RouteInv, AnswerInv
  <1> QED BY <1>1, <1>5, <1>6, <1>7 DEF RouteInv

LEMMA LeaveKeepsRoute ==
  ASSUME RouteInv, Leave
  PROVE  RouteInv'
  <1>1. /\ \A k \in Kind : ~fan[k].on
        /\ tab' = Blank /\ visit' = visit /\ fan' = fan
        /\ flights' = flights /\ held' = held
    BY DEF Leave
  <1>2. TabInv'
    BY <1>1, Limits DEF TabInv, Blank
  <1>3. FanInv'
    BY <1>1, SameVisit DEF RouteInv, FanInv, Kind
  <1>4. AnswerInv'
    BY <1>1, SameVisit DEF RouteInv, AnswerInv
  <1> QED BY <1>1, <1>2, <1>3, <1>4 DEF RouteInv

LEMMA RouteStep ==
  ASSUME RouteInv, [Next]_vars
  PROVE  RouteInv'
  <1>1. ASSUME NEW p \in 1 .. MaxPage, Open(p) PROVE RouteInv'
    BY <1>1, OpenKeepsRoute
  <1>2. CASE Scroll
    BY <1>2, ScrollKeepsRoute
  <1>3. CASE LoadBlock
    BY <1>3, LoadBlockKeepsRoute
  <1>4. CASE Land
    <2>1. PICK key \in flights :
            \/ \E shape \in Shapes(key.source) : LandOk(key, shape)
            \/ LandErr(key)
      BY <1>4 DEF Land, Shapes
    <2> QED BY <2>1, LandOkKeepsRoute, LandErrKeepsRoute
  <1>5. CASE Forget
    BY <1>5, ForgetKeepsRoute
  <1>6. CASE RespondList
    BY <1>6, RespondListKeepsRoute
  <1>7. CASE RespondBlock
    BY <1>7, RespondBlockKeepsRoute
  <1>8. CASE Leave
    BY <1>8, LeaveKeepsRoute
  <1>9. CASE UNCHANGED vars
    <2>1. /\ visit' = visit /\ tab' = tab /\ fan' = fan
          /\ flights' = flights /\ held' = held
      BY <1>9 DEF vars
    <2>2. AnswerInv'
      BY <2>1, SameVisit DEF RouteInv, AnswerInv
    <2> QED BY <2>1, <2>2, SameFan DEF RouteInv
  <1> QED BY <1>1, <1>2, <1>3, <1>4, <1>5, <1>6, <1>7, <1>8, <1>9 DEF Next

\* Whatever is answered, fails or is forgotten, and in whatever order: the page
\* waits for at most one list and one block, which are those it asked for
\* (public.rs, 474-523), and every answer in the cache or in a fan-out is one
\* that the source gives to that search (public.rs, 686-720).
THEOREM RouteInvariant == Spec => []RouteInv
  <1>1. Init => RouteInv
    BY RouteInit
  <1>2. RouteInv /\ [Next]_vars => RouteInv'
    BY RouteStep
  <1> QED BY <1>1, <1>2, PTL DEF Spec

-----------------------------------------------------------------------------
(* One fetch of a slow source per search *)

LEMMA SlowSearches ==
  ASSUME NEW x, IsKey(x), x.source \in Deferred
  PROVE  x = SlowKey(x.source)
  BY DEF IsKey

LEMMA BeginKeepsSolves ==
  ASSUME RouteInv, SolveInv, NEW k \in Kind, NEW req, Begin(k, req),
         Requested(req)
  PROVE  SolveInv'
  <1> DEFINE fetched == (Keys(req) \cup Prewarmed(req)) \ (flights \cup DOMAIN held)
             Of(s) == {x \in fetched : x.source = s}
  <1>1. /\ solves' = [s \in Deferred |-> solves[s] + Cardinality(Of(s))]
        /\ flights' = flights \cup fetched
        /\ held' = held /\ visit' = visit
    BY DEF Begin
  <1>2. \A x \in fetched : IsKey(x) /\ x \notin flights \cup DOMAIN held
    BY RequestProperties DEF RouteInv
  <1> HIDE DEF fetched
  <1>3. ASSUME NEW s \in Deferred
        PROVE  /\ solves'[s] \in 0 .. 1
               /\ solves'[s] = 1 => SlowKey(s) \in flights' \cup DOMAIN held'
    <2>1. solves[s] \in 0 .. 1
          /\ (solves[s] = 1 => SlowKey(s) \in flights \cup DOMAIN held)
      BY DEF SolveInv
    <2>2. \A x \in Of(s) : x = SlowKey(s)
      BY <1>2, SlowSearches
    <2>3. CASE Of(s) = {}
      <3>1. Cardinality(Of(s)) = 0
        BY <2>3, FS_EmptySet
      <3>2. solves'[s] = solves[s]
        BY <1>1, <2>1, <3>1
      <3> QED BY <1>1, <2>1, <3>2
    <2>4. CASE Of(s) # {}
      <3>1. Of(s) = {SlowKey(s)}
        BY <2>2, <2>4
      <3>2. Cardinality(Of(s)) = 1
        BY <3>1, FS_Singleton
      <3>3. SlowKey(s) \in fetched
        BY <3>1
      <3>4. solves[s] = 0
        BY <1>2, <2>1, <3>3
      <3>5. solves'[s] = 1
        BY <1>1, <3>2, <3>4
      <3> QED BY <1>1, <3>3, <3>5
    <2> QED BY <2>3, <2>4
  <1>4. \A s : SlowKey(s)' = SlowKey(s)
    BY <1>1, SameVisit
  <1>5. solves' = [s \in Deferred |-> solves'[s]]
    BY <1>1
  <1> QED BY <1>3, <1>4, <1>5 DEF SolveInv

\* A search fails or is forgotten: a slow source may be asked again.
LEMMA LossKeepsSolves ==
  ASSUME RouteInv, SolveInv, visit' = visit,
         NEW key \in flights \cup DOMAIN held,
         (flights \cup DOMAIN held) \ {key} \subseteq flights' \cup DOMAIN held',
         solves' = IF key.source \in Deferred
                   THEN [solves EXCEPT ![key.source] = 0] ELSE solves
  PROVE  SolveInv'
  <1>1. \A s : SlowKey(s)' = SlowKey(s) /\ SlowKey(s).source = s
    BY SameVisit DEF SlowKey
  <1>2. solves' \in [Deferred -> 0 .. 1]
    BY DEF SolveInv
  <1>3. ASSUME NEW s \in Deferred, solves'[s] = 1
        PROVE  SlowKey(s) \in flights' \cup DOMAIN held'
    <2>1. s # key.source /\ solves[s] = 1
      BY <1>3 DEF SolveInv
    <2>2. SlowKey(s) \in flights \cup DOMAIN held /\ SlowKey(s) # key
      BY <1>1, <2>1 DEF SolveInv
    <2> QED BY <2>2
  <1> QED BY <1>1, <1>2, <1>3 DEF SolveInv

LEMMA SolveStep ==
  ASSUME RouteInv, SolveInv, [Next]_vars
  PROVE  SolveInv'
  <1>1. ASSUME NEW p \in 1 .. MaxPage, Open(p) PROVE SolveInv'
    <2>1. Begin("list", ListRequest(p, FALSE)) /\ "list" \in Kind
          /\ Requested(ListRequest(p, FALSE))
      BY <1>1 DEF Open, Kind, Requested
    <2> QED BY <2>1, BeginKeepsSolves
  <1>2. CASE Scroll
    <2>1. Begin("list", ListRequest(tab.next, TRUE)) /\ "list" \in Kind
      BY <1>2 DEF Scroll, Kind
    <2>2. tab.next \in 1 .. MaxPage
      BY <1>2, Limits DEF Scroll, RouteInv, TabInv
    <2>3. Requested(ListRequest(tab.next, TRUE))
      BY <2>2 DEF Requested
    <2> QED BY <2>1, <2>3, BeginKeepsSolves
  <1>3. CASE LoadBlock
    <2>1. Begin("block", BlockRequest) /\ "block" \in Kind
          /\ Requested(BlockRequest)
      BY <1>3 DEF LoadBlock, Kind, Requested
    <2> QED BY <2>1, BeginKeepsSolves
  <1>4. CASE Land
    <2>1. PICK key \in flights :
            \/ \E shape \in Shapes(key.source) : LandOk(key, shape)
            \/ LandErr(key)
      BY <1>4 DEF Land, Shapes
    <2>2. CASE \E shape \in Shapes(key.source) : LandOk(key, shape)
      <3>1. /\ flights' = flights \ {key}
            /\ DOMAIN held' = DOMAIN held \cup {key}
            /\ solves' = solves /\ visit' = visit
        BY <2>2 DEF LandOk
      <3>2. \A s : SlowKey(s)' = SlowKey(s)
        BY <3>1, SameVisit
      <3> QED BY <3>1, <3>2 DEF SolveInv
    <2>3. CASE LandErr(key)
      <3>1. /\ flights' = flights \ {key} /\ held' = held /\ visit' = visit
            /\ solves' = IF key.source \in Deferred
                         THEN [solves EXCEPT ![key.source] = 0] ELSE solves
        BY <2>3 DEF LandErr
      <3> QED BY <3>1, LossKeepsSolves
    <2> QED BY <2>1, <2>2, <2>3
  <1>5. CASE Forget
    <2>1. PICK key \in DOMAIN held :
            /\ held' = [x \in DOMAIN held \ {key} |-> held[x]]
            /\ flights' = flights /\ visit' = visit
            /\ solves' = IF key.source \in Deferred
                         THEN [solves EXCEPT ![key.source] = 0] ELSE solves
      BY <1>5 DEF Forget
    <2> QED BY <2>1, LossKeepsSolves
  <1>6. CASE RespondList \/ RespondBlock \/ Leave \/ UNCHANGED vars
    <2>1. /\ flights' = flights /\ held' = held /\ solves' = solves
          /\ visit' = visit
      BY <1>6 DEF RespondList, RespondBlock, Leave, vars
    <2> QED BY <2>1, SameVisit DEF SolveInv
  <1> QED BY <1>1, <1>2, <1>3, <1>4, <1>5, <1>6 DEF Next

\* The prewarm and the block's own request are one search of a slow source
\* (public.rs, 663-687): it is fetched once, until a fetch fails or is
\* forgotten.
THEOREM SolvesOnce == Spec => []OneSolvePerSearch
  <1>1. Init => SolveInv
    BY DEF Init, SolveInv
  <1>2. RouteInv /\ SolveInv /\ [Next]_vars => SolveInv'
    BY SolveStep
  <1>3. SolveInv => OneSolvePerSearch
    BY DEF SolveInv, OneSolvePerSearch
  <1> QED BY <1>1, <1>2, <1>3, RouteInvariant, PTL DEF Spec

-----------------------------------------------------------------------------
(* The cards *)

\* Every search of a complete fan-out brought results of its source.
LEMMA GroupsAre ==
  ASSUME RouteInv, NEW k \in Kind, Complete(k)
  PROVE  /\ IsSeq(Groups(k)) /\ DOMAIN Groups(k) = DOMAIN Pairs(fan[k].req)
         /\ \A i \in DOMAIN Groups(k) :
              /\ IsSeq(Groups(k)[i])
              /\ \A j \in DOMAIN Groups(k)[i] :
                   /\ Groups(k)[i][j].source \in visit.selection
                   /\ Groups(k)[i][j].source \in Deferred <=> k = "block"
  <1> DEFINE req == fan[k].req
             got == fan[k].got
             x(i) == KeyOf(req, Pairs(req)[i])
  <1>1. /\ IsSeq(got) /\ DOMAIN got = DOMAIN Pairs(req) /\ fan[k].on
        /\ \A i \in DOMAIN got : got[i] # Waiting
    BY DEF Complete, RouteInv, FanInv
  <1>2. Requested(req) /\ (req.defer <=> k = "block")
    <2>1. CASE k = "list"
      <3>1. PICK p \in 1 .. MaxPage, append \in BOOLEAN :
              req = ListRequest(p, append)
        BY <1>1, <2>1 DEF RouteInv, FanInv
      <3>2. ~ListRequest(p, append).defer
        BY DEF ListRequest
      <3> QED BY <2>1, <3>1, <3>2 DEF Requested
    <2>2. CASE k = "block"
      <3>1. req = BlockRequest
        BY <1>1, <2>2 DEF RouteInv, FanInv
      <3> QED BY <2>2, <3>1 DEF Requested, BlockRequest
    <2> QED BY <2>1, <2>2 DEF Kind
  <1>3. \A i \in DOMAIN Pairs(req) :
          /\ IsKey(x(i)) /\ x(i).source \in visit.selection
          /\ x(i).source \in Deferred <=> k = "block"
    <2> HIDE DEF req
    <2> QED BY <1>2, RequestProperties DEF RouteInv
  <1>4. \A i \in DOMAIN got : got[i] \in {Waiting, Failed} \cup AnswersOf(x(i))
    BY DEF RouteInv, AnswerInv
  <1>5. Groups(k) = [i \in DOMAIN got |-> IF got[i] = Failed THEN << >>
                                          ELSE got[i]]
    BY DEF Groups
  <1> HIDE DEF got, x
  <1>6. IsSeq(Groups(k)) /\ DOMAIN Groups(k) = DOMAIN got
    <2>1. Len(got) \in Nat /\ DOMAIN got = 1 .. Len(got)
      BY <1>1, SeqIsFunction
    <2>2. Groups(k) = [i \in 1 .. Len(got) |-> Groups(k)[i]]
      BY <1>5, <2>1
    <2> QED BY <2>1, <2>2, FunctionIsSeq
  <1>7. ASSUME NEW i \in DOMAIN got
        PROVE  /\ IsSeq(Groups(k)[i])
               /\ \A j \in DOMAIN Groups(k)[i] :
                    /\ Groups(k)[i][j].source \in visit.selection
                    /\ Groups(k)[i][j].source \in Deferred <=> k = "block"
    <2>1. CASE got[i] = Failed
      <3>1. Groups(k)[i] = << >> /\ DOMAIN << >> = {}
        BY <1>5, <2>1
      <3> QED BY <3>1, EmptySequence
    <2>2. CASE got[i] # Failed
      <3>1. Groups(k)[i] = got[i] /\ got[i] \in AnswersOf(x(i))
        BY <1>1, <1>4, <1>5, <2>2
      <3>2. /\ IsSeq(got[i])
            /\ \A j \in DOMAIN got[i] : got[i][j].source = x(i).source
        BY <1>1, <1>3, <3>1, AnswerProperties DEF RouteInv
      <3> QED BY <1>1, <1>3, <3>1, <3>2
    <2> QED BY <2>1, <2>2
  <1> QED BY <1>1, <1>6, <1>7

\* The cards of a merged list, cut to a limit.
LEMMA MergedCards ==
  ASSUME RouteInv, NEW k \in Kind, Complete(k), NEW f, NEW n \in Nat
  PROVE  LET r == Take(Merged(Groups(k), f), n)
         IN  /\ IsSeq(Merged(Groups(k), f)) /\ IsSeq(r)
             /\ \A i \in DOMAIN r : /\ r[i].source \in visit.selection
                                    /\ r[i].source \in Deferred <=> k = "block"
  <1> DEFINE m == Merged(Groups(k), f)
             r == Take(m, n)
  <1>1. /\ IsSeq(m)
        /\ \A i \in DOMAIN m : \E g \in DOMAIN Groups(k) :
             \E j \in DOMAIN Groups(k)[g] : m[i] = Groups(k)[g][j]
    BY GroupsAre, MergedProperties
  <1>2. \A i \in DOMAIN m : /\ m[i].source \in visit.selection
                            /\ m[i].source \in Deferred <=> k = "block"
    BY <1>1, GroupsAre
  <1> HIDE DEF m
  <1>3. IsSeq(r) /\ \A i \in DOMAIN r : i \in DOMAIN m /\ r[i] = m[i]
    BY <1>1, TakeSelects
  <1> QED BY <1>1, <1>2, <1>3 DEF m

FastCards(s) == \A i \in DOMAIN s : s[i].source \in visit.selection \ Deferred

LEMMA ResultsAre ==
  ASSUME RouteInv, Complete("list")
  PROVE  IsSeq(Results) /\ FastCards(Results)
  <1>1. fan["list"].req.page * PageSize \in Nat
    <2>1. PICK p \in 1 .. MaxPage, append \in BOOLEAN :
            fan["list"].req = ListRequest(p, append)
      BY DEF Complete, RouteInv, FanInv
    <2>2. fan["list"].req.page = p
      BY <2>1 DEF ListRequest
    <2> QED BY <2>2, Limits
  <1>2. "list" \in Kind
    BY DEF Kind
  <1> QED BY <1>1, <1>2, MergedCards DEF Results, FastCards

\* The slice of an append.
LEMMA SliceIs ==
  ASSUME NEW s, IsSeq(s), NEW m \in Nat \ {0}
  PROVE  LET r == SubSeq(s, m, Len(s))
         IN  IsSeq(r) /\ \A i \in DOMAIN r : \E j \in DOMAIN s : r[i] = s[j]
  <1> DEFINE r == SubSeq(s, m, Len(s))
             n == IF m <= Len(s) THEN Len(s) - m + 1 ELSE 0
  <1>1. Len(s) \in Nat /\ DOMAIN s = 1 .. Len(s)
    BY SeqIsFunction
  <1>2. n \in Nat /\ r = [i \in 1 .. n |-> s[i + m - 1]]
    BY <1>1
  <1> HIDE DEF r
  <1>3. r = [i \in 1 .. n |-> r[i]]
    BY <1>2
  <1>4. IsSeq(r) /\ DOMAIN r = 1 .. n
    BY <1>2, <1>3, FunctionIsSeq
  <1>5. \A i \in 1 .. n : i + m - 1 \in DOMAIN s
    BY <1>1
  <1> QED BY <1>2, <1>4, <1>5 DEF r

LEMMA ShownAfterResponse ==
  ASSUME RouteInv, IsSeq(tab.shown), FastCards(tab.shown), Complete("list"),
         NEW p \in 1 .. MaxPage
  PROVE  LET shown == tab.shown \o NewItems(Results, p)
         IN  IsSeq(shown) /\ FastCards(shown)
  <1> DEFINE s == tab.shown
             t == NewItems(Results, p)
             u == s \o t
  <1>1. IsSeq(t) /\ FastCards(t)
    <2>1. (p - 1) * PageSize + 1 \in Nat \ {0}
      BY Limits
    <2>2. IsSeq(t) /\ \A i \in DOMAIN t : \E j \in DOMAIN Results :
                        t[i] = Results[j]
      BY <2>1, ResultsAre, SliceIs DEF NewItems
    <2> QED BY <2>2, ResultsAre DEF FastCards
  <1> HIDE DEF t
  <1>2. /\ Len(s) \in Nat /\ DOMAIN s = 1 .. Len(s)
        /\ Len(t) \in Nat /\ DOMAIN t = 1 .. Len(t)
    BY <1>1, SeqIsFunction
  <1>3. u = [i \in 1 .. Len(s) + Len(t) |-> IF i <= Len(s) THEN s[i]
                                            ELSE t[i - Len(s)]]
    BY <1>1, Concatenation
  <1> HIDE DEF s, u
  <1>4. u = [i \in 1 .. Len(s) + Len(t) |-> u[i]]
        /\ Len(s) + Len(t) \in Nat
    BY <1>2, <1>3
  <1>5. IsSeq(u) /\ DOMAIN u = 1 .. Len(s) + Len(t)
    BY <1>4, FunctionIsSeq
  <1>6. ASSUME NEW i \in DOMAIN u
        PROVE  u[i].source \in visit.selection \ Deferred
    <2>1. CASE i <= Len(s)
      <3>1. i \in DOMAIN s /\ u[i] = s[i]
        BY <1>2, <1>3, <1>5, <2>1
      <3> QED BY <3>1 DEF FastCards, s
    <2>2. CASE ~(i <= Len(s))
      <3>1. i - Len(s) \in DOMAIN t /\ u[i] = t[i - Len(s)]
        BY <1>2, <1>3, <1>5, <2>2
      <3> QED BY <1>1, <3>1 DEF FastCards
    <2> QED BY <2>1, <2>2
  <1> QED BY <1>5, <1>6 DEF FastCards, u, s, t

LEMMA RespondListKeepsCards ==
  ASSUME RouteInv, CardsInv, RespondList
  PROVE  CardsInv'
  <1>1. PICK p \in 1 .. MaxPage, append \in BOOLEAN :
          /\ Complete("list")
          /\ tab' = [page |-> p,
                     shown |-> IF append THEN tab.shown \o NewItems(Results, p)
                               ELSE Results,
                     next |-> NextPage(Results, p),
                     block |-> tab'.block, cards |-> tab.cards,
                     whole |-> tab'.whole]
    BY RespondListEffect
  <1>2. /\ tab'.cards = tab.cards /\ visit' = visit
        /\ tab'.shown = IF append THEN tab.shown \o NewItems(Results, p)
                        ELSE Results
    <2>1. visit' = visit
      BY DEF RespondList
    <2> QED BY <1>1, <2>1
  <1>3. FastCards(tab.shown) /\ IsSeq(tab.shown)
    BY DEF CardsInv, SelectedOnly, FastCards
  <1>4. IsSeq(tab'.shown) /\ FastCards(tab'.shown)
    <2>1. CASE append
      BY <1>1, <1>2, <1>3, <2>1, ShownAfterResponse
    <2>2. CASE ~append
      BY <1>1, <1>2, <2>2, ResultsAre
    <2> QED BY <2>1, <2>2
  <1> QED BY <1>2, <1>4 DEF CardsInv, SelectedOnly, FastCards

LEMMA RespondBlockKeepsCards ==
  ASSUME RouteInv, CardsInv, RespondBlock
  PROVE  CardsInv'
  <1> DEFINE cards == Take(Merged(Groups("block"), fan["block"].req.filters),
                           PageSize)
  <1>1. /\ Complete("block") /\ visit' = visit
        /\ tab' = [tab EXCEPT !.cards = cards, !.block = "loaded"]
    BY DEF RespondBlock
  <1>2. "block" \in Kind /\ PageSize \in Nat
    BY Limits DEF Kind
  <1>3. /\ IsSeq(cards)
        /\ \A i \in DOMAIN cards : /\ cards[i].source \in visit.selection
                                   /\ cards[i].source \in Deferred
    BY <1>1, <1>2, MergedCards
  <1> HIDE DEF cards
  <1>4. tab'.shown = tab.shown /\ tab'.cards = cards
    BY <1>1 DEF RouteInv, TabInv
  <1> QED BY <1>1, <1>3, <1>4 DEF CardsInv, SelectedOnly

LEMMA CardsStep ==
  ASSUME RouteInv, CardsInv, [Next]_vars
  PROVE  CardsInv'
  <1>1. visit' = visit
    BY VisitStays
  <1>2. CASE tab'.shown = tab.shown /\ tab'.cards = tab.cards
    BY <1>1, <1>2 DEF CardsInv, SelectedOnly
  <1>3. CASE (\E p \in 1 .. MaxPage : Open(p)) \/ Scroll \/ Land \/ Forget
               \/ UNCHANGED vars
    <2>1. tab' = tab
      BY <1>3 DEF Open, Scroll, Land, LandOk, LandErr, Forget, vars
    <2> QED BY <1>2, <2>1
  <1>4. CASE LoadBlock
    <2>1. tab' = [tab EXCEPT !.block = "loading"]
      BY <1>4 DEF LoadBlock
    <2>2. tab'.shown = tab.shown /\ tab'.cards = tab.cards
      BY <2>1 DEF RouteInv, TabInv
    <2> QED BY <1>2, <2>2
  <1>5. CASE RespondList
    BY <1>5, RespondListKeepsCards
  <1>6. CASE RespondBlock
    BY <1>6, RespondBlockKeepsCards
  <1>7. CASE Leave
    <2>1. tab'.shown = << >> /\ tab'.cards = << >> /\ DOMAIN << >> = {}
      BY <1>7 DEF Leave, Blank
    <2> QED BY <2>1, EmptySequence DEF CardsInv, SelectedOnly
  <1> QED BY <1>3, <1>4, <1>5, <1>6, <1>7 DEF Next

LEMMA CardsInit ==
  ASSUME Init
  PROVE  CardsInv
  <1>1. tab.shown = << >> /\ tab.cards = << >> /\ DOMAIN << >> = {}
    BY DEF Init, Blank
  <1> QED BY <1>1, EmptySequence DEF CardsInv, SelectedOnly

\* No page and no block ever shows a card of a source that the visitor left
\* out, or one of the wrong speed: the selection travels in the addresses of
\* the loader and the sentinel (public.rs, 848-857), and a fan-out asks nobody
\* else (public.rs, 586-651).
THEOREM SelectionHolds == Spec => []SelectedOnly
  <1>1. Init => CardsInv
    BY CardsInit
  <1>2. RouteInv /\ CardsInv /\ [Next]_vars => CardsInv'
    BY CardsStep
  <1>3. CardsInv => SelectedOnly
    BY DEF CardsInv
  <1> QED BY <1>1, <1>2, <1>3, RouteInvariant, PTL DEF Spec

-----------------------------------------------------------------------------
(* Types *)

\* Type invariant: what the visitor's page, the fan-outs and the cache can be,
\* whatever fails and in whatever order it arrives.
THEOREM TypeCorrect == Spec => []TypeOK
  <1>1. Init => CardsInv /\ SolveInv /\ faults \in 0 .. Faults
    <2> SUFFICES ASSUME Init
                 PROVE  CardsInv /\ SolveInv /\ faults \in 0 .. Faults
      OBVIOUS
    <2>1. faults \in 0 .. Faults
      BY RouteAssumption DEF Init
    <2>2. SolveInv
      BY DEF Init, SolveInv
    <2> QED BY <2>1, <2>2, CardsInit
  <1>2. RouteInv /\ RouteInv' /\ CardsInv /\ SolveInv
          /\ faults \in 0 .. Faults /\ [Next]_vars
        => CardsInv' /\ SolveInv' /\ (faults \in 0 .. Faults)'
    <2> SUFFICES ASSUME faults \in 0 .. Faults, [Next]_vars
                 PROVE  faults' \in 0 .. Faults
      BY CardsStep, SolveStep
    <2>1. faults' = faults \/ Fault
      BY DEF Next, vars, Open, Scroll, LoadBlock, Begin, Land, LandOk, LandErr,
             Forget, RespondList, RespondBlock, Leave
    <2> QED BY <2>1, RouteAssumption DEF Fault
  <1>3. RouteInv /\ CardsInv /\ SolveInv /\ faults \in 0 .. Faults
        => TypeOK
    <2> SUFFICES ASSUME RouteInv, CardsInv, SolveInv,
                        faults \in 0 .. Faults
                 PROVE  TypeOK
      OBVIOUS
    <2>1. ASSUME NEW i \in DOMAIN tab.shown PROVE tab.shown[i].source \in Source
      BY <2>1, RouteAssumption DEF CardsInv, SelectedOnly, RouteInv
    <2>2. ASSUME NEW k \in Kind
          PROVE  DOMAIN fan[k].got \subseteq DOMAIN Pairs(fan[k].req)
      <3>1. CASE fan[k].on
        BY <3>1 DEF RouteInv, FanInv
      <3>2. CASE ~fan[k].on
        <4>1. fan[k] = NoFan
          BY <3>2 DEF RouteInv, FanInv
        <4>2. fan[k].got = << >>
          BY <4>1 DEF NoFan
        <4> QED BY <4>2
      <3> QED BY <3>1, <3>2 
    <2>3. solves \in [Deferred -> Nat]
      BY DEF SolveInv
    <2> QED BY <2>1, <2>2, <2>3 DEF TypeOK, RouteInv, TabInv, AnswerInv
  <1> QED BY <1>1, <1>2, <1>3, RouteInvariant, PTL DEF Spec
-----------------------------------------------------------------------------
(* The pages *)

\* What the searches of the whole list bring.
WholeGroups == [i \in DOMAIN ListPairs |->
                  Answer(ListPairs[i], PageSize * MaxPage)]

\* Every request of the list asks the searches of the first one, with a limit
\* of its own.
LEMMA ListRequestsAsk ==
  ASSUME visit \in Visits, NEW p \in 1 .. MaxPage, NEW append \in BOOLEAN
  PROVE  LET req == ListRequest(p, append)
         IN  /\ Requested(req) /\ Pairs(req) = ListPairs
             /\ IsSeq(ListPairs)
             /\ \A i \in DOMAIN ListPairs :
                  LET x == KeyOf(req, ListPairs[i])
                  IN  /\ IsKey(x) /\ x.source \notin Deferred
                      /\ x.source = ListPairs[i].source
                      /\ Answer(ListPairs[i], PageSize * p)
                           = Search(x.source, visit.catalog[x.source][x.query],
                                    "json", visit.filters.instrument, x.limit)
  <1> DEFINE req == ListRequest(p, append)
  <1>1. Requested(req)
    BY DEF Requested
  <1>2. Pairs(req) = ListPairs
    BY DEF Pairs, ListPairs, ListRequest
  <1>3. IsSeq(ListPairs)
    BY <1>1, <1>2, RequestProperties
  <1>4. ~req.defer /\ req.page = p
    BY DEF ListRequest
  <1>5. ASSUME NEW i \in DOMAIN ListPairs
        PROVE  LET x == KeyOf(req, ListPairs[i])
               IN  /\ IsKey(x) /\ x.source \notin Deferred
                   /\ x.source = ListPairs[i].source
                   /\ Answer(ListPairs[i], PageSize * p)
                        = Search(x.source, visit.catalog[x.source][x.query],
                                 "json", visit.filters.instrument, x.limit)
    <2> DEFINE x == KeyOf(req, ListPairs[i])
    <2>1. IsKey(x) /\ x.source \notin Deferred
      BY <1>1, <1>2, <1>4, RequestProperties
    <2>2. /\ x.source = ListPairs[i].source /\ x.query = ListPairs[i].query
          /\ x.limit = PageSize * p
      BY <1>4 DEF KeyOf
    <2>3. Answer(ListPairs[i], PageSize * p)
            = Search(x.source, visit.catalog[x.source][x.query],
                     "json", visit.filters.instrument, x.limit)
      BY <2>2 DEF Answer
    <2> QED BY <2>1, <2>2, <2>3
  <1> QED BY <1>1, <1>2, <1>3, <1>5

\* The whole list is merged from answers without repetitions, which pass the
\* filters all or none.
LEMMA WholeGroupsAre ==
  ASSUME visit \in Visits
  PROVE  /\ IsSeq(WholeGroups) /\ DOMAIN WholeGroups = DOMAIN ListPairs
         /\ \A g \in DOMAIN WholeGroups :
              IsSeq(WholeGroups[g]) /\ NoRepeats(WholeGroups[g])
         /\ \/ \A x \in Positions(WholeGroups) :
                 PassesPostHoc(At(WholeGroups, x), visit.filters)
            \/ \A x \in Positions(WholeGroups) :
                 ~PassesPostHoc(At(WholeGroups, x), visit.filters)
  <1>1. MaxPage \in 1 .. MaxPage /\ FALSE \in BOOLEAN
    BY Limits
  <1>2. /\ IsSeq(ListPairs)
        /\ \A i \in DOMAIN ListPairs :
             LET x == KeyOf(ListRequest(MaxPage, FALSE), ListPairs[i])
             IN  /\ IsKey(x) /\ x.source \notin Deferred
                 /\ Answer(ListPairs[i], PageSize * MaxPage)
                      = Search(x.source, visit.catalog[x.source][x.query],
                               "json", visit.filters.instrument, x.limit)
    BY <1>1, ListRequestsAsk
  <1>3. IsSeq(WholeGroups) /\ DOMAIN WholeGroups = DOMAIN ListPairs
    <2>1. Len(ListPairs) \in Nat /\ DOMAIN ListPairs = 1 .. Len(ListPairs)
      BY <1>2, SeqIsFunction
    <2>2. WholeGroups = [i \in 1 .. Len(ListPairs) |-> WholeGroups[i]]
      BY <2>1 DEF WholeGroups
    <2> QED BY <2>1, <2>2, FunctionIsSeq
  <1>4. ASSUME NEW g \in DOMAIN WholeGroups
        PROVE  /\ IsSeq(WholeGroups[g]) /\ NoRepeats(WholeGroups[g])
               /\ \A i \in DOMAIN WholeGroups[g] :
                    \E s : PublicDomain(WholeGroups[g][i], s)
    <2> DEFINE x == KeyOf(ListRequest(MaxPage, FALSE), ListPairs[g])
               a == WholeGroups[g]
    <2>1. /\ IsKey(x) /\ x.source \notin Deferred
          /\ a = Search(x.source, visit.catalog[x.source][x.query],
                        "json", visit.filters.instrument, x.limit)
      BY <1>2, <1>3 DEF WholeGroups
    <2> HIDE DEF x, a
    <2>2. a \in AnswersOf(x)
      <3>1. x.instrument = visit.filters.instrument
        BY <2>1 DEF IsKey
      <3>2. "json" \in Shapes(x.source)
        BY DEF Shapes
      <3> QED BY <2>1, <3>1, <3>2 DEF AnswersOf
    <2> QED BY <2>1, <2>2, AnswerProperties DEF a
  <1>5. \A x \in Positions(WholeGroups) : \E s : PublicDomain(At(WholeGroups, x), s)
    <2>1. \A x \in Positions(WholeGroups) :
            /\ x[1] \in DOMAIN WholeGroups
            /\ x[2] \in DOMAIN WholeGroups[x[1]]
            /\ At(WholeGroups, x) = WholeGroups[x[1]][x[2]]
      BY <1>3, <1>4, PositionsAre DEF At
    <2> QED BY <1>4, <2>1
  <1> DEFINE f == visit.filters
             Passes == f.level = 0 /\ f.type # "official"
  <1>6. ASSUME NEW r, NEW s, PublicDomain(r, s)
        PROVE  PassesPostHoc(r, f) <=> Passes
    BY <1>6 DEF PassesPostHoc, PublicDomain
  <1> QED BY <1>3, <1>4, <1>5, <1>6

\* Without a failure, and with every source answering by prefix, a complete
\* list is a beginning of the whole list.
LEMMA ResultsArePrefix ==
  ASSUME RouteInv, Complete("list"), AnswersByPrefix,
         NEW p \in 1 .. MaxPage, NEW append \in BOOLEAN,
         fan["list"].req = ListRequest(p, append),
         \A i \in DOMAIN fan["list"].got : fan["list"].got[i] # Failed
  PROVE  Results = Take(WholeList, PageSize * p)
  <1> DEFINE got == fan["list"].got
             req == ListRequest(p, append)
             n == PageSize * p
             f == visit.filters
  <1>1. visit \in Visits /\ "list" \in Kind /\ IsSeq(got)
        /\ \A i \in DOMAIN got : got[i] # Waiting
    BY DEF Complete, RouteInv, FanInv, Kind
  <1>2. /\ Pairs(req) = ListPairs
        /\ \A i \in DOMAIN ListPairs :
             LET x == KeyOf(req, ListPairs[i])
             IN  /\ IsKey(x) /\ x.source \notin Deferred
                 /\ Answer(ListPairs[i], n)
                      = Search(x.source, visit.catalog[x.source][x.query],
                               "json", visit.filters.instrument, x.limit)
    BY <1>1, ListRequestsAsk
  <1>3. DOMAIN got = DOMAIN ListPairs
    BY <1>2 DEF Complete, RouteInv, FanInv, Kind
  <1>4. ASSUME NEW i \in DOMAIN got
        PROVE  got[i] = Take(WholeGroups[i], n)
    <2> DEFINE x == KeyOf(req, ListPairs[i])
    <2>1. got[i] \in AnswersOf(x)
      BY <1>1, <1>2 DEF RouteInv, AnswerInv
    <2>2. IsKey(x) /\ x.source \notin Deferred
          /\ Answer(ListPairs[i], n)
               = Search(x.source, visit.catalog[x.source][x.query],
                        "json", visit.filters.instrument, x.limit)
      BY <1>2, <1>3
    <2> HIDE DEF x
    <2>3. got[i] = Answer(ListPairs[i], n)
      BY <1>1, <2>1, <2>2, AnswerProperties
    <2> QED BY <1>3, <2>3 DEF AnswersByPrefix, WholeGroups
  <1>5. Groups("list") = [i \in DOMAIN WholeGroups |-> Take(WholeGroups[i], n)]
    <2>1. DOMAIN got = DOMAIN WholeGroups
      BY <1>3 DEF WholeGroups
    <2>2. Groups("list") = [i \in DOMAIN got |-> got[i]]
      BY DEF Groups
    <2> QED BY <1>4, <2>1, <2>2
  <1>6. Results = Take(Merged(Groups("list"), f), n)
    <2>1. req.page * PageSize = n /\ req.filters = f
      <3>1. req.page = p /\ req.filters = f
        BY DEF ListRequest
      <3>2. p \in Nat /\ PageSize \in Nat
        BY Limits
      <3> QED BY <3>1, <3>2
    <2> QED BY <2>1 DEF Results
  <1>7. n \in Nat /\ PageSize * MaxPage \in Nat /\ n <= PageSize * MaxPage
    BY Limits
  <1> HIDE DEF n, f
  <1>8. Results = Take(Merged(WholeGroups, f), n)
    <2>1. Take(Merged([g \in DOMAIN WholeGroups |-> Take(WholeGroups[g], n)], f), n)
            = Take(Merged(WholeGroups, f), n)
      BY <1>1, <1>7, WholeGroupsAre, MergedPrefix DEF f
    <2> QED BY <1>5, <1>6, <2>1
  <1>9. IsSeq(Merged(WholeGroups, f))
    BY <1>1, WholeGroupsAre, MergedProperties
  <1>10. WholeList = Take(Merged(WholeGroups, f), PageSize * MaxPage)
    BY DEF WholeList, WholeGroups, f
  <1> QED BY <1>7, <1>8, <1>9, <1>10, TakeOfTake DEF n

LEMMA WholeListIs ==
  ASSUME visit \in Visits
  PROVE  /\ IsSeq(WholeList)
         /\ Take(WholeList, PageSize * MaxPage) = WholeList
  <1>1. IsSeq(Merged(WholeGroups, visit.filters))
    BY WholeGroupsAre, MergedProperties
  <1>2. PageSize * MaxPage \in Nat
    BY Limits
  <1>3. WholeList = Take(Merged(WholeGroups, visit.filters), PageSize * MaxPage)
    BY DEF WholeList, WholeGroups
  <1> QED BY <1>1, <1>2, <1>3, TakeProperties, TakeOfTake

LEMMA SameList ==
  ASSUME visit' = visit
  PROVE  WholeList' = WholeList /\ AnswersByPrefix' = AnswersByPrefix
  <1>1. ListPairs' = ListPairs
    BY DEF ListPairs, ListRequest, Pairs
  <1>2. \A pair, n : Answer(pair, n)' = Answer(pair, n)
    BY DEF Answer
  <1> QED BY <1>1, <1>2 DEF WholeList, AnswersByPrefix

LEMMA RespondListKeepsList ==
  ASSUME RouteInv, ListInv, RespondList
  PROVE  ListInv'
  <1>1. PICK p \in 1 .. MaxPage, append \in BOOLEAN :
          /\ fan["list"].req = ListRequest(p, append) /\ Complete("list")
          /\ IF append THEN tab.page # 0 /\ p = tab.page + 1 ELSE tab = Blank
          /\ tab' = [page |-> p,
                     shown |-> IF append THEN tab.shown \o NewItems(Results, p)
                               ELSE Results,
                     next |-> NextPage(Results, p),
                     block |-> tab'.block, cards |-> tab.cards,
                     whole |-> tab'.whole]
          /\ tab'.whole = (tab.whole /\ \A i \in DOMAIN fan["list"].got :
                                          fan["list"].got[i] # Failed)
    BY RespondListEffect
  <1>2. /\ tab'.page = p /\ tab'.next = NextPage(Results, p)
        /\ tab'.shown = IF append THEN tab.shown \o NewItems(Results, p)
                        ELSE Results
    BY <1>1
  <1>3. visit' = visit
    BY DEF RespondList
  <1>4. WholeList' = WholeList /\ AnswersByPrefix' = AnswersByPrefix
    BY <1>3, SameList
  <1>5. SUFFICES ASSUME AnswersByPrefix, tab'.whole
                 PROVE  /\ tab'.shown = Take(WholeList, PageSize * p)
                        /\ tab'.next = NextPage(tab'.shown, p)
    <2>1. NextPage(tab.shown, tab.page)' = NextPage(tab'.shown, p)
      BY <1>2 DEF NextPage
    <2> QED BY <1>2, <1>4, <2>1 DEF ListInv
  <1>6. Results = Take(WholeList, PageSize * p)
    BY <1>1, <1>5, ResultsArePrefix
  <1>7. tab'.shown = Results
    <2>1. CASE ~append
      BY <1>2, <2>1
    <2>2. CASE append
      <3>1. /\ p \in Nat /\ PageSize \in Nat
            /\ p - 1 \in Nat /\ tab.page = p - 1 /\ tab.page # 0
        BY <1>1, <2>2, Limits DEF RouteInv, TabInv
      <3>2. PageSize * (p - 1) \in Nat /\ PageSize * p \in Nat
            /\ PageSize * (p - 1) <= PageSize * p
            /\ (p - 1) * PageSize = PageSize * (p - 1)
        BY <3>1
      <3>3. tab.shown = Take(WholeList, PageSize * (p - 1))
        BY <1>1, <1>5, <3>1 DEF ListInv
      <3>4. IsSeq(WholeList)
        BY WholeListIs DEF RouteInv
      <3>5. NewItems(Results, p)
              = SubSeq(Take(WholeList, PageSize * p), PageSize * (p - 1) + 1,
                       Len(Take(WholeList, PageSize * p)))
        BY <1>6, <3>2 DEF NewItems
      <3>6. Take(WholeList, PageSize * (p - 1)) \o NewItems(Results, p)
              = Take(WholeList, PageSize * p)
        BY <3>2, <3>4, <3>5, TakeThenRest
      <3> QED BY <1>2, <1>6, <2>2, <3>3, <3>6
    <2> QED BY <2>1, <2>2
  <1> QED BY <1>2, <1>6, <1>7

LEMMA ListStep ==
  ASSUME RouteInv, ListInv, [Next]_vars
  PROVE  ListInv'
  <1>1. WholeList' = WholeList /\ AnswersByPrefix' = AnswersByPrefix
    BY VisitStays, SameList
  <1>2. CASE /\ tab'.shown = tab.shown /\ tab'.page = tab.page
             /\ tab'.next = tab.next /\ tab'.whole = tab.whole
    BY <1>1, <1>2 DEF ListInv, NextPage
  <1>3. CASE (\E p \in 1 .. MaxPage : Open(p)) \/ Scroll \/ Land \/ Forget
               \/ UNCHANGED vars
    <2>1. tab' = tab
      BY <1>3 DEF Open, Scroll, Land, LandOk, LandErr, Forget, vars
    <2> QED BY <1>2, <2>1
  <1>4. CASE LoadBlock
    <2>1. tab' = [tab EXCEPT !.block = "loading"]
      BY <1>4 DEF LoadBlock
    <2>2. /\ tab'.shown = tab.shown /\ tab'.page = tab.page
          /\ tab'.next = tab.next /\ tab'.whole = tab.whole
      BY <2>1 DEF RouteInv, TabInv
    <2> QED BY <1>2, <2>2
  <1>5. CASE RespondList
    BY <1>5, RespondListKeepsList
  <1>6. CASE RespondBlock
    <2>1. \E cards : tab' = [tab EXCEPT !.cards = cards, !.block = "loaded"]
      BY <1>6 DEF RespondBlock
    <2>2. /\ tab'.shown = tab.shown /\ tab'.page = tab.page
          /\ tab'.next = tab.next /\ tab'.whole = tab.whole
      BY <2>1 DEF RouteInv, TabInv
    <2> QED BY <1>2, <2>2
  <1>7. CASE Leave
    <2>1. tab'.page = 0
      BY <1>7 DEF Leave, Blank
    <2> QED BY <2>1 DEF ListInv
  <1> QED BY <1>3, <1>4, <1>5, <1>6, <1>7 DEF Next

LEMMA ListInvariant == Spec => []ListInv
  <1>1. Init => ListInv
    BY DEF Init, Blank, ListInv
  <1>2. RouteInv /\ ListInv /\ [Next]_vars => ListInv'
    BY ListStep
  <1> QED BY <1>1, <1>2, RouteInvariant, PTL DEF Spec

\* The append slice (public.rs, 798-806) continues the list: as long as every
\* source answers by prefix and none has failed, what the pages show is the
\* beginning of one list, for every catalog, every page size and every order in
\* which answers arrive, are held and are forgotten.
THEOREM PagesContinue == Spec => []AppendsContinue
  <1>1. RouteInv /\ ListInv => AppendsContinue
    <2> SUFFICES ASSUME RouteInv, ListInv, AnswersByPrefix, tab.whole
                 PROVE  tab.shown = Take(WholeList, Len(tab.shown))
      BY DEF AppendsContinue
    <2>1. IsSeq(WholeList) /\ Len(WholeList) \in Nat
      BY WholeListIs, SeqIsFunction DEF RouteInv
    <2>2. PICK n \in Nat : tab.shown = Take(WholeList, n)
      <3>1. CASE tab.page = 0
        <4>1. tab.shown = << >>
          BY <3>1 DEF RouteInv, TabInv, Blank
        <4>2. /\ IsSeq(Take(WholeList, 0))
              /\ Len(Take(WholeList, 0)) = 0
          BY <2>1, TakeProperties
        <4>3. Take(WholeList, 0) = << >>
          BY <4>2, EmptySequence, SeqEquality
        <4> QED BY <4>1, <4>3
      <3>2. CASE tab.page # 0
        <4>1. tab.page \in 1 .. MaxPage
          BY <3>2, Limits DEF RouteInv, TabInv
        <4>2. PageSize * tab.page \in Nat
          BY <4>1, Limits
        <4> QED BY <3>2, <4>2 DEF ListInv
      <3> QED BY <3>1, <3>2
    <2>3. Len(tab.shown) = IF n < Len(WholeList) THEN n ELSE Len(WholeList)
      BY <2>1, <2>2, TakeProperties
    <2>4. CASE n < Len(WholeList)
      BY <2>2, <2>3, <2>4
    <2>5. CASE ~(n < Len(WholeList))
      <3>1. Take(WholeList, n) = WholeList
        BY <2>1, <2>5, TakeAll
      <3>2. Take(WholeList, Len(WholeList)) = WholeList
        BY <2>1, TakeAll
      <3> QED BY <2>2, <2>3, <2>5, <3>1, <3>2
    <2> QED BY <2>4, <2>5
  <1> QED BY <1>1, RouteInvariant, ListInvariant, PTL

\* Under the same condition a page that offers no next one (public.rs, 766-774)
\* has brought the list to its end: a count of results that happens to fill the
\* page ends nothing early.
THEOREM LastPageEnds == Spec => []LastPageIsLast
  <1>1. RouteInv /\ ListInv => LastPageIsLast
    <2> SUFFICES ASSUME RouteInv, ListInv, AnswersByPrefix, tab.whole,
                        tab.page # 0, tab.next = 0
                 PROVE  Len(tab.shown) = Len(WholeList)
      BY DEF LastPageIsLast
    <2> DEFINE p == tab.page
               n == PageSize * p
    <2>1. /\ IsSeq(WholeList) /\ Len(WholeList) \in Nat
          /\ Take(WholeList, PageSize * MaxPage) = WholeList
      BY WholeListIs, SeqIsFunction DEF RouteInv
    <2>2. p \in 1 .. MaxPage /\ PageSize \in Nat /\ MaxPage \in Nat
      BY Limits DEF RouteInv, TabInv
    <2>3. n \in Nat /\ p * PageSize = n
      BY <2>2
    <2>4. tab.shown = Take(WholeList, n) /\ NextPage(tab.shown, p) = 0
      BY DEF ListInv
    <2>5. Len(tab.shown) = IF n < Len(WholeList) THEN n ELSE Len(WholeList)
      BY <2>1, <2>3, <2>4, TakeProperties
    <2>6. Len(tab.shown) < n \/ p = MaxPage
      <3>1. ~(Len(tab.shown) >= p * PageSize /\ p < MaxPage)
        BY <2>2, <2>4 DEF NextPage
      <3>2. Len(tab.shown) \in Nat
        BY <2>1, <2>3, <2>5
      <3> HIDE DEF n
      <3> QED BY <2>2, <2>3, <3>1, <3>2
    <2>7. CASE Len(tab.shown) < n
      <3> HIDE DEF n
      <3> QED BY <2>1, <2>3, <2>5, <2>7
    <2>8. CASE p = MaxPage
      BY <2>1, <2>4, <2>8
    <2> QED BY <2>6, <2>7, <2>8
  <1> QED BY <1>1, RouteInvariant, ListInvariant, PTL

\* The condition under which scrolling shows one list is met whenever IMSLP's
\* own filter (imslp.rs) rejects none of the entries it was sent:
\* Mutopia always meets it.
THEOREM PrefixesAnswered ==
  ASSUME visit \in Visits,
         \A q \in Queries("imslp") :
           LET listing == visit.catalog["imslp"][q]
           IN  \A i \in DOMAIN listing :
                 /\ Usable(listing[i])
                 /\ visit.filters.instrument
                      \in listing[i].names \cup {NoInstrument}
  PROVE  AnswersByPrefix
  <1> SUFFICES ASSUME NEW i \in DOMAIN ListPairs, NEW p \in 1 .. MaxPage
               PROVE  Answer(ListPairs[i], PageSize * p)
                        = Take(Answer(ListPairs[i], PageSize * MaxPage),
                               PageSize * p)
    BY DEF AnswersByPrefix
  <1>1. ListRequest(1, FALSE).query = Query /\ ~ListRequest(1, FALSE).defer
    BY DEF ListRequest
  <1>2. PICK s \in Source : \E q \in Queries(s) :
          /\ ListPairs[i] = [source |-> s, query |-> q]
          /\ s \in Deferred <=> ListRequest(1, FALSE).defer
    BY <1>1, PairsProperties DEF ListPairs
  <1>3. PICK q \in Queries(s) : ListPairs[i] = [source |-> s, query |-> q]
    BY <1>2
  <1> DEFINE listing == visit.catalog[s][q]
             instrument == visit.filters.instrument
  <1>4. s \in {"imslp", "mutopia"}
    BY <1>1, <1>2, SourcesAre DEF Deferred
  <1>5. IsSeq(listing)
    BY CatalogAssumption
  <1>6. \A n : Answer(ListPairs[i], n) = Search(s, listing, "json", instrument, n)
    BY <1>3 DEF Answer
  <1>7. PageSize * p \in Nat /\ PageSize * MaxPage \in Nat
        /\ PageSize * p <= PageSize * MaxPage
    BY Limits
  <1>8. CASE s = "imslp"
    <2>1. \A j \in DOMAIN listing :
            /\ Usable(listing[j])
            /\ instrument \in listing[j].names \cup {NoInstrument}
      BY <1>8
    <2>2. \A n : Search(s, listing, "json", instrument, n)
                   = ImslpSearch(listing, instrument, n)
      BY <1>8 DEF Search
    <2> HIDE DEF listing, instrument
    <2> QED BY <1>5, <1>6, <1>7, <2>1, <2>2, ImslpPrefix
  <1>9. CASE s = "mutopia"
    <2>1. \A n : Search(s, listing, "json", instrument, n)
                   = MutopiaSearch(listing, instrument, n)
      BY <1>9 DEF Search
    <2> HIDE DEF listing, instrument
    <2> QED BY <1>5, <1>6, <1>7, <2>1, MutopiaPrefix
  <1> QED BY <1>4, <1>8, <1>9

==============================================================================
