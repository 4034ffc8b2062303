----------------------------- MODULE TextsProofs -----------------------------
(***************************************************************************)
(* What is read of a text is what was written, at every length of it: the  *)
(* expansions of a query, and the store and the literals of a page.        *)
(***************************************************************************)
EXTENDS Texts, ListingsProofs

-----------------------------------------------------------------------------
(* Queries *)

LEMMA RowOfForm ==
  ASSUME NEW form \in Forms
  PROVE  RowOf(form) \in DOMAIN Rows
  <1> DEFINE has == {i \in DOMAIN Rows : \E s \in Script : LowerOf(Rows[i][s]) = form}
  <1>1. has # {} /\ has \in SUBSET Nat
    BY RowsAssumption, SeqIsFunction DEF Forms
  <1>2. \E i \in has : \A j \in has : i <= j
    BY <1>1, LeastNumber
  <1>3. RowOf(form) \in has
    <2> HIDE DEF has
    <2>1. (CHOOSE i \in has : \A j \in has : i <= j) \in has
      BY <1>2
    <2> QED BY <2>1 DEF RowOf, has
  <1> QED BY <1>3

\* The row of one of its own forms.
LEMMA RowOfItsForm ==
  ASSUME RowsApart, NEW i \in DOMAIN Rows, NEW s \in Script
  PROVE  Lookup(Rows[i][s]) = {i}
  <1> DEFINE form == LowerOf(Rows[i][s])
             has == {j \in DOMAIN Rows : \E u \in Script : LowerOf(Rows[j][u]) = form}
  <1>1. form \in Forms
    BY DEF Forms
  <1>2. has = {i}
    BY DEF RowsApart
  <1>3. i \in Nat
    BY RowsAssumption, SeqIsFunction
  <1>4. (CHOOSE j \in has : \A k \in has : j <= k) = i
    <2> HIDE DEF has
    <2> QED BY <1>2, <1>3
  <1>5. RowOf(form) = i
    <2> HIDE DEF form
    <2> QED BY <1>4 DEF RowOf, has
  <1> QED BY <1>1, <1>5 DEF Lookup

\* Either a word has no row, or it always has one.
LEMMA UnknownWord ==
  ASSUME NEW word, Unknown \in Lookup(word)
  PROVE  Lookup(word) = {Unknown}
  <1>1. \A form \in Forms : RowOf(form) # Unknown
    BY RowOfForm, RowsAssumption
  <1>2. CASE LowerOf(word) \in Forms
    BY <1>1, <1>2 DEF Lookup
  <1>3. CASE LowerOf(word) \notin Forms
    BY <1>1, <1>3, Zenon DEF Lookup, Fuzzy
  <1> QED BY <1>2, <1>3

LEMMA LookupFindsRows ==
  ASSUME NEW word
  PROVE  Lookup(word) \subseteq DOMAIN Rows \cup {Unknown}
  BY RowOfForm, Zenon DEF Lookup, Fuzzy

LEMMA ScriptsAre ==
  /\ DOMAIN Scripts = 1 .. 4
  /\ \A k \in DOMAIN Scripts : Scripts[k] \in Script
  BY DEF Scripts, Script

\* Where every word has one row, the query has one expansion.
LEMMA OneExpansion ==
  ASSUME NEW query, NEW row \in [Tokens(query) -> DOMAIN Rows \cup {Unknown}],
         \A x \in Tokens(query) : Lookup(x) = {row[x]}
  PROVE  Expansions(query) = {Expanded(query, row)}
  <1>1. row \in Lookups(query)
    BY DEF Lookups
  <1>2. \A other \in Lookups(query) : other = row
    BY DEF Lookups
  <1> QED BY <1>1, <1>2, Zenon DEF Expansions

\* The entries of a list without its repetitions.
LEMMA DistinctProperties ==
  ASSUME NEW s, IsSeq(s)
  PROVE  /\ IsSeq(Distinct(s))
         /\ \A n \in DOMAIN Distinct(s) : \E i \in DOMAIN s : Distinct(s)[n] = s[i]
         /\ \A n, m \in DOMAIN Distinct(s) : Distinct(s)[n] = Distinct(s)[m] => n = m
  <1> DEFINE I == {i \in DOMAIN s : ~\E j \in DOMAIN s : j < i /\ s[j] = s[i]}
             d == Kept(s, I)
  <1>1. I \in SUBSET DOMAIN s
    OBVIOUS
  <1>2. \A i, j \in I : s[i] = s[j] => i = j
    BY SeqIsFunction
  <1> HIDE DEF I
  <1>3. IsSeq(d)
    BY <1>1, KeptProperties
  <1>4. PICK f \in [DOMAIN d -> I] :
          /\ \A n \in DOMAIN d : d[n] = s[f[n]]
          /\ \A n, m \in DOMAIN d : f[n] = f[m] => n = m
    BY <1>1, KeptProperties
  <1>5. Distinct(s) = d
    BY DEF Distinct, I
  <1> HIDE DEF d
  <1> QED BY <1>1, <1>2, <1>3, <1>4, <1>5

Renderings(query, row) == [k \in DOMAIN Scripts |-> Render(query, row, Scripts[k])]

LEMMA RenderingsAreListed ==
  ASSUME NEW query, NEW row
  PROVE  /\ IsSeq(Renderings(query, row))
         /\ DOMAIN Renderings(query, row) = DOMAIN Scripts
  <1>1. Renderings(query, row) = [k \in 1 .. 4 |-> Renderings(query, row)[k]]
    BY ScriptsAre DEF Renderings
  <1>2. 4 \in Nat
    OBVIOUS
  <1> QED BY <1>1, <1>2, FunctionIsSeq, ScriptsAre

\* A rendering of a query is looked up as the query is.
LEMMA RenderingIsLookedUpAlike ==
  ASSUME RowsApart, NEW query, NEW row \in Lookups(query), NEW script \in Script,
         \E x \in Tokens(query) : row[x] # Unknown
  PROVE  Expansions(Render(query, row, script)) = {Expanded(query, row)}
  <1> DEFINE q == Render(query, row, script)
             there == [x \in Tokens(q) |-> CHOOSE r : r \in Lookup(x)]
  <1>1. /\ \A x \in Tokens(query) : /\ row[x] \in DOMAIN Rows \cup {Unknown}
                                    /\ row[x] \in Lookup(x)
    BY DEF Lookups
  <1>2. DOMAIN q = DOMAIN query
    BY DEF Render
  <1>3. ASSUME NEW i \in DOMAIN query
        PROVE  Lookup(q[i]) = {row[query[i]]}
    <2>1. query[i] \in Tokens(query)
      BY DEF Tokens
    <2>2. CASE row[query[i]] = Unknown
      <3>1. q[i] = query[i]
        BY <2>2 DEF Render
      <3>2. Unknown \in Lookup(query[i])
        BY <1>1, <2>1, <2>2
      <3> QED BY <2>2, <3>1, <3>2, UnknownWord
    <2>3. CASE row[query[i]] # Unknown
      <3>1. q[i] = Rows[row[query[i]]][script] /\ row[query[i]] \in DOMAIN Rows
        BY <1>1, <2>1, <2>3 DEF Render
      <3> QED BY <3>1, RowOfItsForm
    <2> QED BY <2>2, <2>3
  <1> HIDE DEF q
  <1>4. ASSUME NEW i \in DOMAIN query
        PROVE  q[i] \in Tokens(q) /\ there[q[i]] = row[query[i]]
    BY <1>2, <1>3 DEF Tokens
  <1>5. \A x \in Tokens(q) : Lookup(x) = {there[x]}
    <2> SUFFICES ASSUME NEW x \in Tokens(q) PROVE Lookup(x) = {there[x]}
      OBVIOUS
    <2>1. PICK i \in DOMAIN query : x = q[i]
      BY <1>2 DEF Tokens
    <2> QED BY <1>3, <1>4, <2>1
  <1>6. there \in [Tokens(q) -> DOMAIN Rows \cup {Unknown}]
    BY <1>5, LookupFindsRows
  <1> HIDE DEF there
  <1>7. Expansions(q) = {Expanded(q, there)}
    BY <1>5, <1>6, OneExpansion
  <1>8. ASSUME NEW other
        PROVE  Render(q, there, other) = Render(query, row, other)
    <2>1. ASSUME NEW i \in DOMAIN query, row[query[i]] = Unknown PROVE q[i] = query[i]
      BY <2>1 DEF q, Render
    <2> QED BY <1>2, <1>4, <2>1 DEF Render
  <1>9. \E x \in Tokens(q) : there[x] # Unknown
    <2>1. PICK i \in DOMAIN query : row[query[i]] # Unknown
      BY DEF Tokens
    <2> QED BY <1>4, <2>1
  <1>10. Renderings(q, there) = Renderings(query, row)
    BY <1>8 DEF Renderings
  <1>11. /\ Expanded(q, there) = Distinct(Renderings(q, there))
         /\ Expanded(query, row) = Distinct(Renderings(query, row))
    BY <1>9 DEF Expanded, Renderings
  <1> QED BY <1>7, <1>10, <1>11 DEF q

LEMMA TextsAgreeAlways ==
  ASSUME NEW query
  PROVE  TextsAgree(query)
  <1> SUFFICES ASSUME RowsApart, NEW e \in Expansions(query), NEW k \in DOMAIN e
               PROVE  Expansions(e[k]) = {e}
    BY DEF TextsAgree
  <1>0. PICK row \in Lookups(query) : e = Expanded(query, row)
    BY DEF Expansions
  <1>1. CASE \A x \in Tokens(query) : row[x] = Unknown
    <2>1. e = <<query>>
      BY <1>0, <1>1 DEF Expanded
    <2>2. e[k] = query /\ e = Expanded(query, row)
      BY <1>0, <2>1
    <2>3. \A x \in Tokens(query) : Lookup(x) = {row[x]}
      BY <1>1, UnknownWord DEF Lookups
    <2>4. row \in [Tokens(query) -> DOMAIN Rows \cup {Unknown}]
      BY DEF Lookups
    <2> QED BY <2>2, <2>3, <2>4, OneExpansion
  <1>2. CASE \E x \in Tokens(query) : row[x] # Unknown
    <2>1. e = Distinct(Renderings(query, row))
      BY <1>0, <1>2 DEF Expanded, Renderings
    <2>2. PICK i \in DOMAIN Scripts : e[k] = Renderings(query, row)[i]
      BY <2>1, RenderingsAreListed, DistinctProperties
    <2>3. e[k] = Render(query, row, Scripts[i])
      BY <2>2 DEF Renderings
    <2> QED BY <1>0, <1>2, <2>3, ScriptsAre, RenderingIsLookedUpAlike
  <1> QED BY <1>1, <1>2

\* AnyTextWillDo: src/i18n/alias.rs, lookup and expand_query.  A rendering of a
\* query has the query's rows, so it renders to the same texts.
THEOREM AnyTextAgrees == Spec => []AnyTextWillDo
  <1>1. AnyTextWillDo
    BY TextsAgreeAlways DEF AnyTextWillDo
  <1> QED BY <1>1, PTL

\* expand_query lists no text twice (src/i18n/alias.rs, 161-165): this is what
\* VariantsAssumption of SearchRoute says of the variants of a search.
THEOREM ExpansionsAreLists ==
  ASSUME NEW query, NEW e \in Expansions(query)
  PROVE  IsSeq(e) /\ \A n, m \in DOMAIN e : e[n] = e[m] => n = m
  <1>1. PICK row \in Lookups(query) : e = Expanded(query, row)
    BY DEF Expansions
  <1>2. CASE \A x \in Tokens(query) : row[x] = Unknown
    <2>1. e = <<query>>
      BY <1>1, <1>2 DEF Expanded
    <2> QED BY <2>1 DEF IsSeq
  <1>3. CASE \E x \in Tokens(query) : row[x] # Unknown
    <2>1. e = Distinct(Renderings(query, row))
      BY <1>1, <1>3 DEF Expanded, Renderings
    <2> QED BY <2>1, RenderingsAreListed, DistinctProperties
  <1> QED BY <1>2, <1>3

-----------------------------------------------------------------------------
(* The two loops of JsStore: a recursive function of the texts' lengths has *)
(* a value at each of them, and one more symbol is one more turn.           *)

LEMMA ScansAre ==
  ASSUME NEW s, Len(s) \in Nat
  PROVE  Scans(s) = [n \in 0 .. Len(s) |->
                       IF n = 0 THEN AtBrace ELSE Scan(Scans(s)[n - 1], s[n])]
  <1> DEFINE S == {m \in Nat : \E g : g = [n \in 0 .. m |->
                     IF n = 0 THEN AtBrace ELSE Scan(g[n - 1], s[n])]}
  <1>1. 0 \in S
    <2> DEFINE g == [n \in 0 .. 0 |-> AtBrace]
    <2>1. g = [n \in 0 .. 0 |-> IF n = 0 THEN AtBrace ELSE Scan(g[n - 1], s[n])]
      OBVIOUS
    <2> QED BY <2>1
  <1>2. ASSUME NEW m \in Nat, m \in S PROVE m + 1 \in S
    <2>1. PICK g : g = [n \in 0 .. m |->
                          IF n = 0 THEN AtBrace ELSE Scan(g[n - 1], s[n])]
      BY <1>2
    <2> DEFINE h == [n \in 0 .. m + 1 |->
                       IF n = m + 1 THEN Scan(g[m], s[m + 1]) ELSE g[n]]
    <2>2. ASSUME NEW n \in 0 .. m + 1
          PROVE  h[n] = IF n = 0 THEN AtBrace ELSE Scan(h[n - 1], s[n])
      <3>1. CASE n = 0
        BY <2>1, <3>1
      <3>2. CASE n = m + 1
        BY <3>2
      <3>3. CASE n \in 1 .. m
        <4>1. n # 0 /\ n # m + 1 /\ n - 1 # m + 1
          BY <3>3
        <4>2. g[n] = Scan(g[n - 1], s[n])
          BY <2>1, <3>3
        <4>3. h[n] = g[n] /\ h[n - 1] = g[n - 1]
          BY <3>3, <4>1
        <4> QED BY <4>1, <4>2, <4>3
      <3> QED BY <3>1, <3>2, <3>3
    <2>3. h = [n \in 0 .. m + 1 |-> h[n]]
      OBVIOUS
    <2> HIDE DEF h
    <2>4. h = [n \in 0 .. m + 1 |->
                 IF n = 0 THEN AtBrace ELSE Scan(h[n - 1], s[n])]
      BY <2>2, <2>3, Zenon
    <2> QED BY <2>4
  <1>3. Len(s) \in S
    <2> HIDE DEF S
    <2> QED BY <1>1, <1>2, SetInduction
  <1>4. \E g : g = [n \in 0 .. Len(s) |->
                      IF n = 0 THEN AtBrace ELSE Scan(g[n - 1], s[n])]
    BY <1>3
  <1> QED BY <1>4, Zenon DEF Scans

Scanned(s) == Scans(s)[Len(s)]

LEMMA ScanMore ==
  ASSUME NEW s \in Seq(Symbol), NEW c \in Symbol
  PROVE  Scanned(Append(s, c)) = Scan(Scanned(s), c)
  <1> DEFINE t == Append(s, c)
             S == {n \in Nat : n <= Len(s) => Scans(t)[n] = Scans(s)[n]}
  <1>1. /\ Len(s) \in Nat /\ Len(t) = Len(s) + 1 /\ t[Len(s) + 1] = c
        /\ \A n \in 1 .. Len(s) : t[n] = s[n]
    OBVIOUS
  <1>2. /\ \A n \in 0 .. Len(s) :
             Scans(s)[n] = IF n = 0 THEN AtBrace ELSE Scan(Scans(s)[n - 1], s[n])
        /\ \A n \in 0 .. Len(s) + 1 :
             Scans(t)[n] = IF n = 0 THEN AtBrace ELSE Scan(Scans(t)[n - 1], t[n])
    <2> HIDE DEF t
    <2>1. Len(t) \in Nat
      BY <1>1
    <2> QED BY <1>1, <2>1, ScansAre
  <1> HIDE DEF t
  <1>3. 0 \in S
    BY <1>1, <1>2
  <1>4. ASSUME NEW n \in Nat, n \in S PROVE n + 1 \in S
    <2>1. CASE n + 1 <= Len(s)
      <3>1. n + 1 # 0 /\ (n + 1) - 1 = n /\ n + 1 \in 1 .. Len(s)
        BY <1>1, <2>1
      <3>2. Scans(s)[n + 1] = Scan(Scans(s)[n], s[n + 1])
        BY <1>1, <1>2, <3>1
      <3>3. Scans(t)[n + 1] = Scan(Scans(t)[n], t[n + 1])
        BY <1>1, <1>2, <3>1
      <3>4. Scans(t)[n] = Scans(s)[n] /\ t[n + 1] = s[n + 1]
        BY <1>1, <1>4, <3>1
      <3> QED BY <3>2, <3>3, <3>4
    <2> QED BY <2>1
  <1>5. Len(s) \in S
    <2> HIDE DEF S
    <2> QED BY <1>1, <1>3, <1>4, SetInduction
  <1>6. Scans(t)[Len(s)] = Scans(s)[Len(s)]
    BY <1>1, <1>5
  <1>7. Scans(t)[Len(s) + 1] = Scan(Scans(t)[Len(s)], c)
    <2>1. Len(s) + 1 # 0 /\ (Len(s) + 1) - 1 = Len(s) /\ Len(s) + 1 \in 0 .. Len(s) + 1
      BY <1>1
    <2> QED BY <1>1, <1>2, <2>1
  <1> QED BY <1>1, <1>6, <1>7 DEF Scanned, t

Unit == {"raw", "esc", "u"} \X Nat

LEMMA ReadsAre ==
  ASSUME NEW quote, NEW s, Len(s) \in Nat
  PROVE  Reads(quote, s) =
           [n \in 0 .. Len(s) |->
              IF n = 0 THEN AtQuote ELSE ReadUnit(Reads(quote, s)[n - 1], quote, s[n])]
  <1> DEFINE S == {m \in Nat : \E g : g = [n \in 0 .. m |->
                     IF n = 0 THEN AtQuote ELSE ReadUnit(g[n - 1], quote, s[n])]}
  <1>1. 0 \in S
    <2> DEFINE g == [n \in 0 .. 0 |-> AtQuote]
    <2>1. g = [n \in 0 .. 0 |->
                 IF n = 0 THEN AtQuote ELSE ReadUnit(g[n - 1], quote, s[n])]
      OBVIOUS
    <2> QED BY <2>1
  <1>2. ASSUME NEW m \in Nat, m \in S PROVE m + 1 \in S
    <2>1. PICK g : g = [n \in 0 .. m |->
                          IF n = 0 THEN AtQuote ELSE ReadUnit(g[n - 1], quote, s[n])]
      BY <1>2
    <2> DEFINE h == [n \in 0 .. m + 1 |->
                       IF n = m + 1 THEN ReadUnit(g[m], quote, s[m + 1]) ELSE g[n]]
    <2>2. ASSUME NEW n \in 0 .. m + 1
          PROVE  h[n] = IF n = 0 THEN AtQuote ELSE ReadUnit(h[n - 1], quote, s[n])
      <3>1. CASE n = 0
        BY <2>1, <3>1
      <3>2. CASE n = m + 1
        BY <3>2
      <3>3. CASE n \in 1 .. m
        <4>1. n # 0 /\ n # m + 1 /\ n - 1 # m + 1
          BY <3>3
        <4>2. g[n] = ReadUnit(g[n - 1], quote, s[n])
          BY <2>1, <3>3
        <4>3. h[n] = g[n] /\ h[n - 1] = g[n - 1]
          BY <3>3, <4>1
        <4> QED BY <4>1, <4>2, <4>3
      <3> QED BY <3>1, <3>2, <3>3
    <2>3. h = [n \in 0 .. m + 1 |-> h[n]]
      OBVIOUS
    <2> HIDE DEF h
    <2>4. h = [n \in 0 .. m + 1 |->
                 IF n = 0 THEN AtQuote ELSE ReadUnit(h[n - 1], quote, s[n])]
      BY <2>2, <2>3, Zenon
    <2> QED BY <2>4
  <1>3. Len(s) \in S
    <2> HIDE DEF S
    <2> QED BY <1>1, <1>2, SetInduction
  <1>4. \E g : g = [n \in 0 .. Len(s) |->
                      IF n = 0 THEN AtQuote ELSE ReadUnit(g[n - 1], quote, s[n])]
    BY <1>3
  <1> QED BY <1>4, Zenon DEF Reads

Read(quote, s) == Reads(quote, s)[Len(s)]

LEMMA ReadMore ==
  ASSUME NEW quote, NEW s \in Seq(Unit), NEW c \in Unit
  PROVE  Read(quote, Append(s, c)) = ReadUnit(Read(quote, s), quote, c)
  <1> DEFINE t == Append(s, c)
             S == {n \in Nat : n <= Len(s) => Reads(quote, t)[n] = Reads(quote, s)[n]}
  <1>1. /\ Len(s) \in Nat /\ Len(t) = Len(s) + 1 /\ t[Len(s) + 1] = c
        /\ \A n \in 1 .. Len(s) : t[n] = s[n]
    OBVIOUS
  <1>2. /\ \A n \in 0 .. Len(s) :
             Reads(quote, s)[n] =
               IF n = 0 THEN AtQuote ELSE ReadUnit(Reads(quote, s)[n - 1], quote, s[n])
        /\ \A n \in 0 .. Len(s) + 1 :
             Reads(quote, t)[n] =
               IF n = 0 THEN AtQuote ELSE ReadUnit(Reads(quote, t)[n - 1], quote, t[n])
    <2> HIDE DEF t
    <2>1. Len(t) \in Nat
      BY <1>1
    <2> QED BY <1>1, <2>1, ReadsAre
  <1> HIDE DEF t
  <1>3. 0 \in S
    BY <1>1, <1>2
  <1>4. ASSUME NEW n \in Nat, n \in S PROVE n + 1 \in S
    <2>1. CASE n + 1 <= Len(s)
      <3>1. n + 1 # 0 /\ (n + 1) - 1 = n /\ n + 1 \in 1 .. Len(s)
        BY <1>1, <2>1
      <3>2. Reads(quote, s)[n + 1] = ReadUnit(Reads(quote, s)[n], quote, s[n + 1])
        BY <1>1, <1>2, <3>1
      <3>3. Reads(quote, t)[n + 1] = ReadUnit(Reads(quote, t)[n], quote, t[n + 1])
        BY <1>1, <1>2, <3>1
      <3>4. Reads(quote, t)[n] = Reads(quote, s)[n] /\ t[n + 1] = s[n + 1]
        BY <1>1, <1>4, <3>1
      <3> QED BY <3>2, <3>3, <3>4
    <2> QED BY <2>1
  <1>5. Len(s) \in S
    <2> HIDE DEF S
    <2> QED BY <1>1, <1>3, <1>4, SetInduction
  <1>6. Reads(quote, t)[Len(s)] = Reads(quote, s)[Len(s)]
    BY <1>1, <1>5
  <1>7. Reads(quote, t)[Len(s) + 1] = ReadUnit(Reads(quote, t)[Len(s)], quote, c)
    <2>1. Len(s) + 1 # 0 /\ (Len(s) + 1) - 1 = Len(s) /\ Len(s) + 1 \in 0 .. Len(s) + 1
      BY <1>1
    <2> QED BY <1>1, <1>2, <2>1
  <1> QED BY <1>1, <1>6, <1>7 DEF Read, t

-----------------------------------------------------------------------------
(* Where the store is assigned *)

LEMMA SymbolsAre ==
  ASSUME NEW s \in Seq(Symbol)
  PROVE  Len(s) \in Nat /\ DOMAIN s = 1 .. Len(s)
  OBVIOUS

\* The end of a text.
LEMMA EndProperties ==
  ASSUME NEW s \in Seq(Symbol), NEW n \in 1 .. Len(s) + 1
  PROVE  /\ SubSeq(s, n, Len(s)) \in Seq(Symbol)
         /\ Len(SubSeq(s, n, Len(s))) = Len(s) + 1 - n
         /\ \A k \in 1 .. Len(s) + 1 - n :
              SubSeq(s, n, Len(s))[k] = s[n + k - 1]
  <1>1. Len(s) \in Nat /\ n \in Nat
    OBVIOUS
  <1>2. SubSeq(s, n, Len(s)) = [k \in 1 .. Len(s) + 1 - n |-> s[n + k - 1]]
    BY <1>1
  <1> QED BY <1>1, <1>2

LEMMA EndOfEnd ==
  ASSUME NEW s \in Seq(Symbol), NEW n \in 1 .. Len(s) + 1,
         NEW m \in 1 .. Len(SubSeq(s, n, Len(s))) + 1
  PROVE  SubSeq(SubSeq(s, n, Len(s)), m, Len(SubSeq(s, n, Len(s))))
           = SubSeq(s, n + m - 1, Len(s))
  <1> DEFINE e == SubSeq(s, n, Len(s))
  <1>1. Len(s) \in Nat /\ n \in Nat
    OBVIOUS
  <1>2. /\ e \in Seq(Symbol) /\ Len(e) = Len(s) + 1 - n
        /\ \A k \in 1 .. Len(s) + 1 - n : e[k] = s[n + k - 1]
    BY EndProperties
  <1> HIDE DEF e
  <1>3. SubSeq(e, m, Len(e)) = [k \in 1 .. Len(e) + 1 - m |-> e[m + k - 1]]
    BY <1>1, <1>2 DEF e
  <1>4. SubSeq(s, n + m - 1, Len(s))
          = [k \in 1 .. Len(s) + 1 - (n + m - 1) |-> s[(n + m - 1) + k - 1]]
    BY <1>1
  <1>5. Len(e) + 1 - m = Len(s) + 1 - (n + m - 1) /\ m \in Nat \ {0}
    BY <1>1, <1>2 DEF e
  <1>6. ASSUME NEW k \in 1 .. Len(e) + 1 - m
        PROVE  e[m + k - 1] = s[(n + m - 1) + k - 1]
    <2>1. m + k - 1 \in 1 .. Len(s) + 1 - n
      BY <1>1, <1>2, <1>5
    <2>2. e[m + k - 1] = s[n + (m + k - 1) - 1]
      BY <1>2, <2>1
    <2>3. n + (m + k - 1) - 1 = (n + m - 1) + k - 1
      BY <1>1, <1>5
    <2> QED BY <2>2, <2>3
  <1> QED BY <1>3, <1>4, <1>5, <1>6 DEF e

LEMMA TrimStartFindsInk ==
  ASSUME NEW s \in Seq(Symbol), NEW n \in 1 .. Len(s), s[n] # "blank",
         \A i \in 1 .. n - 1 : s[i] = "blank"
  PROVE  TrimStart(s) = SubSeq(s, n, Len(s))
  <1> DEFINE ink == {i \in DOMAIN s : s[i] # "blank"}
  <1>0. Len(s) \in Nat /\ DOMAIN s = 1 .. Len(s)
    BY SymbolsAre
  <1>1. n \in ink /\ ink \subseteq Nat
    BY <1>0
  <1>2. \A j \in ink : n <= j
    BY <1>0
  <1>3. (CHOOSE i \in ink : \A j \in ink : i <= j) = n
    <2> HIDE DEF ink
    <2>1. \A i \in ink : i <= n /\ n <= i => i = n
      BY <1>1
    <2> QED BY <1>1, <1>2, <2>1
  <1> QED BY <1>1, <1>3 DEF TrimStart

LEMMA TrimStartOfBlanks ==
  ASSUME NEW s, \A i \in DOMAIN s : s[i] = "blank"
  PROVE  TrimStart(s) = << >>
  BY DEF TrimStart

\* What follows the symbol i of html, without its blanks.
Rest(html, i) == TrimStart(SubSeq(html, i + 1, Len(html)))

LEMMA RestFindsInk ==
  ASSUME NEW html \in Seq(Symbol), NEW i \in 0 .. Len(html),
         NEW n \in i + 1 .. Len(html), html[n] # "blank",
         \A k \in i + 1 .. n - 1 : html[k] = "blank"
  PROVE  /\ Rest(html, i) = SubSeq(html, n, Len(html))
         /\ Rest(html, i) # << >> /\ Rest(html, i)[1] = html[n]
         /\ Tail(Rest(html, i)) = SubSeq(html, n + 1, Len(html))
  <1> DEFINE s == SubSeq(html, i + 1, Len(html))
             e == SubSeq(html, n, Len(html))
  <1>0. Len(html) \in Nat /\ DOMAIN html = 1 .. Len(html)
    BY SymbolsAre
  <1>1. i \in Nat /\ n \in Nat /\ i + 1 \in 1 .. Len(html) + 1
        /\ n \in 1 .. Len(html) + 1
    BY <1>0
  <1>2. /\ s \in Seq(Symbol) /\ Len(s) = Len(html) - i
        /\ \A k \in 1 .. Len(html) - i : s[k] = html[i + k]
    <2>1. /\ s \in Seq(Symbol) /\ Len(s) = Len(html) + 1 - (i + 1)
          /\ \A k \in 1 .. Len(html) + 1 - (i + 1) : s[k] = html[(i + 1) + k - 1]
      BY <1>1, EndProperties
    <2> HIDE DEF s
    <2>2. Len(html) + 1 - (i + 1) = Len(html) - i
      <3>1. \A a, b \in Nat : a + 1 - (b + 1) = a - b
        OBVIOUS
      <3> QED BY <1>0, <1>1, <3>1
    <2>3. ASSUME NEW k \in 1 .. Len(html) - i PROVE s[k] = html[i + k]
      <3>1. k \in Nat /\ (i + 1) + k - 1 = i + k
        BY <1>0, <1>1
      <3> QED BY <2>1, <2>2, <3>1
    <2> QED BY <2>1, <2>2, <2>3
  <1>3. n - i \in 1 .. Len(s) /\ i + (n - i) = n
    <2> HIDE DEF s
    <2> QED BY <1>0, <1>1, <1>2
  <1>4. TrimStart(s) = SubSeq(s, n - i, Len(s))
    <2> HIDE DEF s
    <2>1. s[n - i] # "blank"
      BY <1>2, <1>3
    <2>2. \A k \in 1 .. (n - i) - 1 : s[k] = "blank"
      BY <1>0, <1>1, <1>2
    <2> QED BY <1>2, <1>3, <2>1, <2>2, TrimStartFindsInk
  <1>5. SubSeq(s, n - i, Len(s)) = e
    <2>1. n - i \in 1 .. Len(s) + 1 /\ (i + 1) + (n - i) - 1 = n
      <3> HIDE DEF s
      <3> QED BY <1>0, <1>1, <1>2
    <2> QED BY <1>1, <2>1, EndOfEnd
  <1>6. Rest(html, i) = e
    BY <1>4, <1>5 DEF Rest
  <1>7. /\ e \in Seq(Symbol) /\ Len(e) = Len(html) + 1 - n /\ e[1] = html[n]
    <2>1. /\ e \in Seq(Symbol) /\ Len(e) = Len(html) + 1 - n
          /\ \A k \in 1 .. Len(html) + 1 - n : e[k] = html[n + k - 1]
      BY <1>1, EndProperties
    <2>2. 1 \in 1 .. Len(html) + 1 - n /\ n + 1 - 1 = n
      BY <1>0, <1>1
    <2> HIDE DEF e
    <2> QED BY <2>1, <2>2
  <1>8. Tail(e) = SubSeq(html, n + 1, Len(html))
    <2> HIDE DEF e
    <2>1. Len(e) \in Nat /\ Len(e) # 0
      BY <1>0, <1>1, <1>7
    <2>2. Tail(e) = SubSeq(e, 2, Len(e))
      BY <1>7, <2>1
    <2>3. 2 \in 1 .. Len(e) + 1 /\ n + 2 - 1 = n + 1
      BY <1>1, <2>1
    <2>4. SubSeq(e, 2, Len(e)) = SubSeq(html, n + 2 - 1, Len(html))
      BY <1>1, <2>3, EndOfEnd DEF e
    <2> QED BY <2>2, <2>3, <2>4
  <1>9. e # << >>
    <2> HIDE DEF e
    <2> QED BY <1>0, <1>1, <1>7
  <1> QED BY <1>6, <1>7, <1>8, <1>9

\* The store at i is assigned: only blanks come between it and the sign.
Assigned(html, i) ==
  /\ html[i] = "store"
  /\ \E n \in i + 1 .. Len(html) : /\ html[n] = "eq"
                                   /\ \A k \in i + 1 .. n - 1 : html[k] = "blank"

LEMMA AssignedIs ==
  ASSUME NEW html \in Seq(Symbol), NEW i \in DOMAIN html
  PROVE  Assigned(html, i) <=>
           html[i] = "store" /\ Rest(html, i) # << >> /\ Rest(html, i)[1] = "eq"
  <1> DEFINE ink == {n \in i + 1 .. Len(html) : html[n] # "blank"}
  <1>0. Len(html) \in Nat /\ DOMAIN html = 1 .. Len(html)
    BY SymbolsAre
  <1>1. i \in 1 .. Len(html) /\ i \in Nat /\ ink \in SUBSET Nat
    BY <1>0
  <1>2. CASE ink = {}
    <2>1. ~Assigned(html, i)
      BY <1>1, <1>2 DEF Assigned
    <2> DEFINE e == SubSeq(html, i + 1, Len(html))
    <2>2. i + 1 \in 1 .. Len(html) + 1
      BY <1>0, <1>1
    <2>3. /\ e \in Seq(Symbol) /\ Len(e) = Len(html) + 1 - (i + 1)
          /\ \A k \in 1 .. Len(html) + 1 - (i + 1) : e[k] = html[(i + 1) + k - 1]
      BY <2>2, EndProperties
    <2> HIDE DEF e
    <2>4. DOMAIN e = 1 .. Len(html) + 1 - (i + 1)
      BY <2>3, SymbolsAre
    <2>5. \A k \in DOMAIN e : (i + 1) + k - 1 \in i + 1 .. Len(html)
      BY <1>0, <1>1, <2>4
    <2>6. \A k \in DOMAIN e : e[k] = "blank"
      BY <1>2, <2>3, <2>4, <2>5
    <2>7. Rest(html, i) = << >>
      BY <2>6, TrimStartOfBlanks DEF Rest, e
    <2> QED BY <2>1, <2>7
  <1>3. CASE ink # {}
    <2>1. PICK n \in ink : \A j \in ink : n <= j
      <3> HIDE DEF ink
      <3> QED BY <1>1, <1>3, LeastNumber
    <2>0. n \in Nat /\ n \in i + 1 .. Len(html) /\ html[n] # "blank"
      BY <1>0, <1>1
    <2>2. \A k \in i + 1 .. n - 1 : html[k] = "blank"
      <3> SUFFICES ASSUME NEW k \in i + 1 .. n - 1, html[k] # "blank" PROVE FALSE
        OBVIOUS
      <3>1. k \in i + 1 .. Len(html) /\ ~(n <= k)
        BY <1>0, <1>1, <2>0
      <3> QED BY <2>1, <3>1
    <2>3. n \in i + 1 .. Len(html) /\ html[n] # "blank" /\ i \in 0 .. Len(html)
      BY <1>0, <1>1, <2>0
    <2>4. Rest(html, i) # << >> /\ Rest(html, i)[1] = html[n]
      BY <2>2, <2>3, RestFindsInk
    <2>5. Assigned(html, i) <=> html[i] = "store" /\ html[n] = "eq"
      <3>1. ASSUME NEW m \in i + 1 .. Len(html), html[m] = "eq",
                   \A k \in i + 1 .. m - 1 : html[k] = "blank"
            PROVE  m = n
        <4>1. m \in ink /\ m \in Nat
          BY <1>0, <1>1, <3>1
        <4>2. n <= m
          BY <2>1, <4>1
        <4>3. CASE n < m
          <5>1. n \in i + 1 .. m - 1
            BY <1>0, <1>1, <2>0, <4>1, <4>3
          <5> QED BY <2>0, <3>1, <5>1
        <4> QED BY <2>0, <4>1, <4>2, <4>3
      <3>2. html[n] = "eq" /\ html[i] = "store" => Assigned(html, i)
        BY <2>0, <2>2 DEF Assigned
      <3>3. Assigned(html, i) => html[n] = "eq" /\ html[i] = "store"
        BY <3>1 DEF Assigned
      <3> QED BY <3>2, <3>3
    <2> QED BY <2>4, <2>5
  <1> QED BY <1>2, <1>3

\* No store is assigned, nor is one by a sign that follows.
Unassigned(html) ==
  \A j \in DOMAIN html : html[j] = "eq" =>
    \E i \in 1 .. j - 1 : /\ html[i] \notin {"blank", "store"}
                          /\ \A k \in i + 1 .. j - 1 : html[k] = "blank"

LEMMA UnassignedHasNone ==
  ASSUME NEW html \in Seq(Symbol), Unassigned(html), NEW i \in DOMAIN html
  PROVE  ~Assigned(html, i)
  <1> SUFFICES ASSUME NEW n \in i + 1 .. Len(html), html[i] = "store", html[n] = "eq",
                      \A k \in i + 1 .. n - 1 : html[k] = "blank"
               PROVE  FALSE
    BY DEF Assigned
  <1>0. Len(html) \in Nat /\ DOMAIN html = 1 .. Len(html)
    BY SymbolsAre
  <1>1. n \in DOMAIN html /\ i \in Nat /\ n \in Nat /\ i < n
    BY <1>0
  <1>2. PICK m \in 1 .. n - 1 : /\ html[m] \notin {"blank", "store"}
                                /\ \A k \in m + 1 .. n - 1 : html[k] = "blank"
    BY <1>1 DEF Unassigned
  <1>3. m \in Nat
    BY <1>1
  <1>4. CASE i < m
    <2>1. m \in i + 1 .. n - 1
      BY <1>1, <1>3, <1>4
    <2> QED BY <1>2, <2>1
  <1>5. CASE m < i
    <2>1. i \in m + 1 .. n - 1
      BY <1>1, <1>3, <1>5
    <2> QED BY <1>2, <2>1
  <1>6. CASE m = i
    BY <1>2, <1>6
  <1> QED BY <1>1, <1>3, <1>4, <1>5, <1>6

Finding(html) == {i \in DOMAIN html : Assigned(html, i)}

LEMMA FindAssignmentIs ==
  ASSUME NEW html \in Seq(Symbol)
  PROVE  FindAssignment(html) =
           IF Finding(html) = {} THEN None
           ELSE Tail(Rest(html, CHOOSE i \in Finding(html) :
                                  \A j \in Finding(html) : i <= j))
  <1>1. Finding(html) = {i \in DOMAIN html :
                           html[i] = "store" /\ Rest(html, i) # << >>
                             /\ Rest(html, i)[1] = "eq"}
    BY AssignedIs DEF Finding
  <1> QED BY <1>1 DEF FindAssignment, Rest

LEMMA JoinProperties ==
  ASSUME NEW s \in Seq(Symbol), NEW t \in Seq(Symbol)
  PROVE  /\ s \o t \in Seq(Symbol) /\ Len(s \o t) = Len(s) + Len(t)
         /\ \A i \in 1 .. Len(s) : (s \o t)[i] = s[i]
         /\ \A i \in 1 .. Len(t) : (s \o t)[Len(s) + i] = t[i]
  <1>1. Len(s) \in Nat /\ Len(t) \in Nat
    BY SymbolsAre
  <1>2. /\ s \o t \in Seq(Symbol) /\ Len(s \o t) = Len(s) + Len(t)
        /\ \A i \in 1 .. Len(s) + Len(t) :
             (s \o t)[i] = IF i <= Len(s) THEN s[i] ELSE t[i - Len(s)]
    BY ConcatProperties
  <1>3. ASSUME NEW i \in 1 .. Len(s) PROVE (s \o t)[i] = s[i]
    <2>1. i \in 1 .. Len(s) + Len(t) /\ i <= Len(s)
      BY <1>1
    <2> QED BY <1>2, <2>1
  <1>4. ASSUME NEW i \in 1 .. Len(t) PROVE (s \o t)[Len(s) + i] = t[i]
    <2>1. /\ Len(s) + i \in 1 .. Len(s) + Len(t) /\ ~(Len(s) + i <= Len(s))
          /\ (Len(s) + i) - Len(s) = i
      BY <1>1
    <2> QED BY <1>2, <2>1
  <1> QED BY <1>2, <1>3, <1>4

LEMMA OneSymbol ==
  ASSUME NEW c \in Symbol
  PROVE  <<c>> \in Seq(Symbol) /\ Len(<<c>>) = 1 /\ <<c>>[1] = c
  <1>1. \A S : \A x \in S : <<x>> \in Seq(S)
    OBVIOUS
  <1>2. <<c>> \in Seq(Symbol)
    BY <1>1, Zenon
  <1> QED BY <1>2

LEMMA GapIsBlank ==
  ASSUME NEW gap \in Gap
  PROVE  /\ gap \in Seq(Symbol) /\ Len(gap) \in Nat
         /\ \A i \in 1 .. Len(gap) : gap[i] = "blank"
  <1>1. CASE gap = << >>
    BY <1>1
  <1>2. CASE gap = <<"blank">>
    <2>1. "blank" \in Symbol
      BY DEF Symbol
    <2> QED BY <1>2, <2>1, OneSymbol
  <1> QED BY <1>1, <1>2 DEF Gap

\* Texts that assign nothing, one after the other.
LEMMA UnassignedJoin ==
  ASSUME NEW s \in Seq(Symbol), NEW t \in Seq(Symbol), Unassigned(s), Unassigned(t)
  PROVE  Unassigned(s \o t)
  <1> DEFINE u == s \o t
  <1>1. /\ Len(s) \in Nat /\ DOMAIN s = 1 .. Len(s)
        /\ Len(t) \in Nat /\ DOMAIN t = 1 .. Len(t)
    BY SymbolsAre
  <1>2. /\ u \in Seq(Symbol) /\ Len(u) = Len(s) + Len(t)
        /\ \A i \in 1 .. Len(s) : u[i] = s[i]
        /\ \A i \in 1 .. Len(t) : u[Len(s) + i] = t[i]
    BY JoinProperties
  <1> HIDE DEF u
  <1>3. DOMAIN u = 1 .. Len(s) + Len(t)
    BY <1>2, SymbolsAre
  <1> SUFFICES ASSUME NEW j \in DOMAIN u, u[j] = "eq"
               PROVE  \E i \in 1 .. j - 1 : /\ u[i] \notin {"blank", "store"}
                                            /\ \A k \in i + 1 .. j - 1 : u[k] = "blank"
    BY DEF Unassigned, u
  <1>4. j \in Nat
    BY <1>1, <1>3
  <1>5. CASE j <= Len(s)
    <2>1. j \in DOMAIN s /\ s[j] = "eq"
      BY <1>1, <1>2, <1>3, <1>5
    <2>2. PICK i \in 1 .. j - 1 : /\ s[i] \notin {"blank", "store"}
                                  /\ \A k \in i + 1 .. j - 1 : s[k] = "blank"
      BY <2>1 DEF Unassigned
    <2>3. \A k \in i .. j - 1 : k \in 1 .. Len(s)
      BY <1>1, <1>4, <1>5
    <2>4. i \in i .. j - 1 /\ \A k \in i + 1 .. j - 1 : k \in i .. j - 1
      BY <1>4
    <2> QED BY <1>2, <2>2, <2>3, <2>4
  <1>6. CASE ~(j <= Len(s))
    <2> DEFINE m == j - Len(s)
    <2>1. m \in Nat /\ m \in DOMAIN t /\ Len(s) + m = j
      BY <1>1, <1>3, <1>4, <1>6
    <2> HIDE DEF m
    <2>2. t[m] = "eq"
      BY <1>1, <1>2, <2>1
    <2>3. PICK i \in 1 .. m - 1 : /\ t[i] \notin {"blank", "store"}
                                  /\ \A k \in i + 1 .. m - 1 : t[k] = "blank"
      BY <2>1, <2>2 DEF Unassigned
    <2>4. i \in 1 .. Len(t) /\ i \in Nat /\ Len(s) + i \in 1 .. j - 1
      BY <1>1, <2>1
    <2>5. u[Len(s) + i] \notin {"blank", "store"}
      BY <1>2, <2>3, <2>4
    <2>6. ASSUME NEW k \in (Len(s) + i) + 1 .. j - 1 PROVE u[k] = "blank"
      <3>1. /\ k - Len(s) \in i + 1 .. m - 1 /\ k - Len(s) \in 1 .. Len(t)
            /\ Len(s) + (k - Len(s)) = k
        BY <1>1, <2>1, <2>4
      <3> QED BY <1>2, <2>3, <3>1
    <2> QED BY <2>4, <2>5, <2>6
  <1> QED BY <1>5, <1>6

LEMMA StoreOfUnassigned ==
  ASSUME NEW html \in Seq(Symbol), Unassigned(html)
  PROVE  StoreOfScript(html) = None
  <1>1. Finding(html) = {}
    BY UnassignedHasNone DEF Finding
  <1>2. FindAssignment(html) = None
    BY <1>1, FindAssignmentIs
  <1> QED BY <1>2 DEF StoreOfScript

\* A text whose first symbol opens a brace.
Braced(s) == s \in Seq(Symbol) /\ s # << >> /\ s[1] = "lbrace"

LEMMA BracesOfBraced ==
  ASSUME NEW s, Braced(s)
  PROVE  BalancedBraces(s) = IF Scanned(s).done THEN SubSeq(s, 1, Scanned(s).len)
                             ELSE None
  <1> DEFINE braces == {i \in DOMAIN s : s[i] = "lbrace"}
  <1>1. s \in Seq(Symbol) /\ Len(s) \in Nat /\ DOMAIN s = 1 .. Len(s) /\ Len(s) # 0
    BY SymbolsAre DEF Braced
  <1>2. 1 \in braces /\ braces \subseteq Nat /\ \A j \in braces : 1 <= j
    BY <1>1 DEF Braced
  <1>3. (CHOOSE i \in braces : \A j \in braces : i <= j) = 1
    <2> HIDE DEF braces
    <2>1. \A i \in braces : i <= 1 /\ 1 <= i => i = 1
      BY <1>2
    <2> QED BY <1>2, <2>1
  <1>4. SubSeq(s, 1, Len(s)) = s
    BY <1>1
  <1> QED BY <1>2, <1>3, <1>4 DEF BalancedBraces, Scanned

LEMMA HeadIsSkipped ==
  ASSUME NEW pre \in Seq(Symbol), Unassigned(pre),
         NEW left \in Gap, NEW right \in Gap, NEW body, Braced(body)
  PROVE  StoreOfScript((pre \o <<"store">> \o left \o <<"eq">> \o right) \o body)
           = BalancedBraces(body)
  <1> DEFINE h1 == pre \o <<"store">>
             h2 == h1 \o left
             h3 == h2 \o <<"eq">>
             h4 == h3 \o right
             html == h4 \o body
             p == Len(pre) + 1
             q == p + Len(left) + 1
             b == q + Len(right) + 1
  <1>1. /\ Len(pre) \in Nat /\ DOMAIN pre = 1 .. Len(pre)
        /\ body \in Seq(Symbol) /\ Len(body) \in Nat /\ Len(body) # 0
        /\ body[1] = "lbrace"
    BY SymbolsAre DEF Braced
  <1>2. /\ left \in Seq(Symbol) /\ Len(left) \in Nat
        /\ \A i \in 1 .. Len(left) : left[i] = "blank"
        /\ right \in Seq(Symbol) /\ Len(right) \in Nat
        /\ \A i \in 1 .. Len(right) : right[i] = "blank"
    BY GapIsBlank
  <1>3. /\ <<"store">> \in Seq(Symbol) /\ Len(<<"store">>) = 1 /\ <<"store">>[1] = "store"
        /\ <<"eq">> \in Seq(Symbol) /\ Len(<<"eq">>) = 1 /\ <<"eq">>[1] = "eq"
    <2>1. "store" \in Symbol /\ "eq" \in Symbol
      BY DEF Symbol
    <2> QED BY <2>1, OneSymbol
  <1>4. /\ h1 \in Seq(Symbol) /\ Len(h1) = p /\ h1[p] = "store"
        /\ \A i \in 1 .. Len(pre) : h1[i] = pre[i]
    <2>1. 1 \in 1 .. 1
      OBVIOUS
    <2> QED BY <1>3, <2>1, JoinProperties
  <1> HIDE DEF h1
  <1>5. /\ h2 \in Seq(Symbol) /\ Len(h2) = p + Len(left)
        /\ \A i \in 1 .. p : h2[i] = h1[i]
        /\ \A i \in 1 .. Len(left) : h2[p + i] = left[i]
    <2>1. /\ h2 \in Seq(Symbol) /\ Len(h2) = Len(h1) + Len(left)
          /\ \A i \in 1 .. Len(h1) : h2[i] = h1[i]
          /\ \A i \in 1 .. Len(left) : h2[Len(h1) + i] = left[i]
      BY <1>2, <1>4, JoinProperties
    <2> HIDE DEF h2, p
    <2> QED BY <1>4, <2>1
  <1> HIDE DEF h2
  <1>6. /\ h3 \in Seq(Symbol) /\ Len(h3) = q /\ h3[q] = "eq"
        /\ \A i \in 1 .. p + Len(left) : h3[i] = h2[i]
    <2>1. 1 \in 1 .. 1
      OBVIOUS
    <2> QED BY <1>3, <1>5, <2>1, JoinProperties
  <1> HIDE DEF h3
  <1>7. /\ h4 \in Seq(Symbol) /\ Len(h4) = q + Len(right)
        /\ \A i \in 1 .. q : h4[i] = h3[i]
        /\ \A i \in 1 .. Len(right) : h4[q + i] = right[i]
    <2>1. /\ h4 \in Seq(Symbol) /\ Len(h4) = Len(h3) + Len(right)
          /\ \A i \in 1 .. Len(h3) : h4[i] = h3[i]
          /\ \A i \in 1 .. Len(right) : h4[Len(h3) + i] = right[i]
      BY <1>2, <1>6, JoinProperties
    <2> HIDE DEF h4, q
    <2> QED BY <1>6, <2>1
  <1> HIDE DEF h4
  <1>8. /\ html \in Seq(Symbol) /\ Len(html) = q + Len(right) + Len(body)
        /\ \A i \in 1 .. q + Len(right) : html[i] = h4[i]
        /\ \A i \in 1 .. Len(body) : html[q + Len(right) + i] = body[i]
    <2>1. /\ html \in Seq(Symbol) /\ Len(html) = Len(h4) + Len(body)
          /\ \A i \in 1 .. Len(h4) : html[i] = h4[i]
          /\ \A i \in 1 .. Len(body) : html[Len(h4) + i] = body[i]
      BY <1>1, <1>7, JoinProperties
    <2> HIDE DEF html, q
    <2> QED BY <1>7, <2>1
  <1>9. SubSeq(html, b, Len(html)) = body
    <2>1. SubSeq(html, Len(h4) + 1, Len(h4) + Len(body)) = body
      BY <1>1, <1>7, SubSeqOfConcat2
    <2> QED BY <1>7, <1>8, <2>1
  <1> HIDE DEF html
  <1>10. /\ p \in Nat /\ q \in Nat /\ b \in Nat
         /\ p < q /\ q < b /\ b <= Len(html) /\ Len(html) \in Nat
         /\ DOMAIN html = 1 .. Len(html)
    BY <1>1, <1>2, <1>8, SymbolsAre
  \* Symbol by symbol.
  <1>11. \A i \in 1 .. Len(pre) : html[i] = pre[i]
    <2> SUFFICES ASSUME NEW i \in 1 .. Len(pre) PROVE html[i] = pre[i]
      OBVIOUS
    <2>1. /\ i \in 1 .. q + Len(right) /\ i \in 1 .. q
          /\ i \in 1 .. p + Len(left) /\ i \in 1 .. p
      BY <1>1, <1>2
    <2> QED BY <1>4, <1>5, <1>6, <1>7, <1>8, <2>1
  <1>12. html[p] = "store"
    <2>1. /\ p \in 1 .. q + Len(right) /\ p \in 1 .. q
          /\ p \in 1 .. p + Len(left) /\ p \in 1 .. p
      BY <1>1, <1>2
    <2> HIDE DEF p, q
    <2> QED BY <1>4, <1>5, <1>6, <1>7, <1>8, <2>1
  <1>13. \A k \in p + 1 .. q - 1 : html[k] = "blank"
    <2> SUFFICES ASSUME NEW k \in p + 1 .. q - 1 PROVE html[k] = "blank"
      OBVIOUS
    <2>1. /\ k \in 1 .. q + Len(right) /\ k \in 1 .. q /\ k \in 1 .. p + Len(left)
          /\ k - p \in 1 .. Len(left) /\ p + (k - p) = k
      BY <1>1, <1>2
    <2> HIDE DEF p, q
    <2>2. html[k] = h4[k] /\ h4[k] = h3[k] /\ h3[k] = h2[k]
      BY <1>6, <1>7, <1>8, <2>1
    <2>3. h2[p + (k - p)] = left[k - p]
      BY <1>5, <2>1
    <2> QED BY <1>2, <2>1, <2>2, <2>3
  <1>14. html[q] = "eq"
    <2>1. q \in 1 .. q + Len(right) /\ q \in 1 .. q
      BY <1>1, <1>2
    <2> HIDE DEF p, q
    <2> QED BY <1>6, <1>7, <1>8, <2>1
  <1>15. \A k \in q + 1 .. b - 1 : html[k] = "blank"
    <2> SUFFICES ASSUME NEW k \in q + 1 .. b - 1 PROVE html[k] = "blank"
      OBVIOUS
    <2>1. /\ k \in 1 .. q + Len(right)
          /\ k - q \in 1 .. Len(right) /\ q + (k - q) = k
      BY <1>1, <1>2
    <2>2. html[k] = h4[k]
      BY <1>8, <2>1
    <2> HIDE DEF p, q
    <2> QED BY <1>2, <1>7, <2>1, <2>2
  <1>16. html[b] = "lbrace"
    <2>1. 1 \in 1 .. Len(body) /\ b = q + Len(right) + 1
      BY <1>1
    <2> HIDE DEF p, q, b
    <2> QED BY <1>1, <1>8, <2>1
  <1> HIDE DEF p, q, b
  \* The first store that is assigned is the one at p.
  <1>17. p \in Finding(html)
    <2>1. q \in p + 1 .. Len(html)
      BY <1>10
    <2>2. p \in 1 .. Len(html)
      BY <1>1, <1>10 DEF p
    <2> QED BY <1>10, <1>12, <1>13, <1>14, <2>1, <2>2 DEF Finding, Assigned
  <1>18. \A i \in Finding(html) : p <= i
    <2> SUFFICES ASSUME NEW i \in Finding(html), ~(p <= i) PROVE FALSE
      OBVIOUS
    <2>1. i \in 1 .. Len(pre) /\ i < p /\ i \in Nat
      BY <1>1, <1>10 DEF Finding, p
    <2>2. PICK n \in i + 1 .. Len(html) :
            html[n] = "eq" /\ \A k \in i + 1 .. n - 1 : html[k] = "blank"
      BY DEF Finding, Assigned
    <2>3. n \in Nat /\ n # p
      BY <1>10, <1>12, <2>1, <2>2
    <2>4. ~(p < n)
      <3>1. p < n => p \in i + 1 .. n - 1
        BY <1>10, <2>1, <2>3
      <3> QED BY <1>12, <2>2, <3>1
    <2>5. n \in i + 1 .. Len(pre)
      BY <1>1, <1>10, <2>1, <2>3, <2>4 DEF p
    <2>6. \A k \in i .. n : k \in 1 .. Len(pre)
      BY <1>1, <2>1, <2>5
    <2>7. /\ i \in i .. n /\ n \in i .. n
          /\ \A k \in i + 1 .. n - 1 : k \in i .. n
      BY <2>1, <2>3, <2>5
    <2>8. Assigned(pre, i)
      BY <1>11, <2>2, <2>5, <2>6, <2>7 DEF Assigned, Finding
    <2> QED BY <1>1, <2>1, <2>8, UnassignedHasNone
  <1>19. (CHOOSE i \in Finding(html) : \A j \in Finding(html) : i <= j) = p
    <2>1. \A i \in Finding(html) : i <= p /\ p <= i => i = p
      BY <1>10 DEF Finding
    <2> QED BY <1>17, <1>18, <2>1
  <1>20. FindAssignment(html) = SubSeq(html, q + 1, Len(html))
    <2>1. p \in 0 .. Len(html) /\ q \in p + 1 .. Len(html) /\ html[q] # "blank"
      BY <1>10, <1>14
    <2>2. Tail(Rest(html, p)) = SubSeq(html, q + 1, Len(html))
      BY <1>8, <1>13, <2>1, RestFindsInk
    <2>3. FindAssignment(html) = Tail(Rest(html, p))
      BY <1>8, <1>17, <1>19, FindAssignmentIs
    <2> QED BY <2>2, <2>3
  <1>21. TrimStart(SubSeq(html, q + 1, Len(html))) = body
    <2>1. q \in 0 .. Len(html) /\ b \in q + 1 .. Len(html) /\ html[b] # "blank"
      BY <1>10, <1>16
    <2>2. Rest(html, q) = SubSeq(html, b, Len(html))
      BY <1>8, <1>15, <2>1, RestFindsInk
    <2> QED BY <1>9, <2>2 DEF Rest
  <1>22. SubSeq(html, q + 1, Len(html)) # None
    <2>1. q + 1 \in 1 .. Len(html) + 1
      BY <1>10
    <2>2. SubSeq(html, q + 1, Len(html)) \in Seq(Symbol)
      BY <1>8, <2>1, EndProperties
    <2> QED BY <2>2, NoneAssumption
  <1>23. StoreOfScript(html) = BalancedBraces(body)
    BY <1>20, <1>21, <1>22 DEF StoreOfScript
  <1> QED BY <1>23 DEF html, h4, h3, h2, h1

-----------------------------------------------------------------------------
(* Scripts *)

IsHead(head) ==
  \E pre \in Seq(Symbol) : \E left, right \in Gap :
    /\ Unassigned(pre)
    /\ head = pre \o <<"store">> \o left \o <<"eq">> \o right

LEMMA HeadsAreTexts ==
  ASSUME NEW head, IsHead(head)
  PROVE  head \in Seq(Symbol)
  <1>1. PICK pre \in Seq(Symbol), left \in Gap, right \in Gap :
          head = pre \o <<"store">> \o left \o <<"eq">> \o right
    BY DEF IsHead
  <1>2. left \in Seq(Symbol) /\ right \in Seq(Symbol)
    BY GapIsBlank
  <1>3. <<"store">> \in Seq(Symbol) /\ <<"eq">> \in Seq(Symbol)
    BY OneSymbol DEF Symbol
  <1>4. pre \o <<"store">> \in Seq(Symbol)
    BY <1>3, JoinProperties
  <1>5. pre \o <<"store">> \o left \in Seq(Symbol)
    BY <1>2, <1>4, JoinProperties
  <1>6. pre \o <<"store">> \o left \o <<"eq">> \in Seq(Symbol)
    BY <1>3, <1>5, JoinProperties
  <1> QED BY <1>1, <1>2, <1>6, JoinProperties

LEMMA StoreAfterHead ==
  ASSUME NEW head, IsHead(head), NEW body, Braced(body)
  PROVE  StoreOfScript(head \o body) =
           IF Scanned(body).done THEN SubSeq(body, 1, Scanned(body).len) ELSE None
  <1>1. PICK pre \in Seq(Symbol), left \in Gap, right \in Gap :
          /\ Unassigned(pre)
          /\ head = pre \o <<"store">> \o left \o <<"eq">> \o right
    BY DEF IsHead
  <1>2. StoreOfScript(head \o body) = BalancedBraces(body)
    BY <1>1, HeadIsSkipped
  <1> QED BY <1>2, BracesOfBraced

\* The loop of balanced_braces stands where the writer does.
ObjectRead(body) ==
  /\ Scanned(body) = [len |-> Len(written.value), depth |-> written.depth,
                      quote |-> IF written.quoted THEN "dq" ELSE "none",
                      escaped |-> written.escaped, done |-> Whole]
  /\ written.value = SubSeq(body, 1, Len(written.value))
  /\ Len(written.value) <= Len(body)
  /\ written.part = "object" => written.value = body /\ written.depth \in Nat \ {0}

ScriptWritten ==
  [part : {"before", "object", "after", "end"}, value : Seq(Symbol), depth : Int,
   quoted : BOOLEAN, escaped : BOOLEAN]

ScriptInv ==
  /\ text \in Seq(Symbol) /\ written \in ScriptWritten
  /\ written.part = "before" => Unassigned(text)
  /\ written.part # "before" =>
       \E head, body : /\ IsHead(head) /\ Braced(body) /\ text = head \o body
                       /\ ObjectRead(body)

Deeper(depth, c) ==
  IF c = "lbrace" THEN depth + 1 ELSE IF c = "rbrace" THEN depth - 1 ELSE depth

ScanState == [len : Nat, depth : Int, quote : {"none", "dq", "sq"},
              escaped : BOOLEAN, done : BOOLEAN]

LEMMA SameScanState ==
  ASSUME NEW at \in ScanState, NEW to \in ScanState,
         at.len = to.len, at.depth = to.depth, at.quote = to.quote,
         at.escaped = to.escaped, at.done = to.done
  PROVE  at = to
  BY DEF ScanState

\* One turn of the loop: between the strings, in one, and past the end.
LEMMA ScanOutside ==
  ASSUME NEW at \in ScanState, NEW c \in Symbol, ~at.done, at.quote = "none",
         NEW to \in ScanState, to.len = at.len + 1, to.depth = Deeper(at.depth, c),
         to.quote = IF c \in Quotes THEN c ELSE "none", to.escaped = at.escaped,
         to.done <=> c = "rbrace" /\ to.depth = 0
  PROVE  Scan(at, c) = to
  <1>1. Scan(at, c) = [at EXCEPT !.len = at.len + 1, !.depth = Deeper(at.depth, c),
                                 !.quote = IF c \in Quotes THEN c ELSE "none",
                                 !.done = c = "rbrace" /\ Deeper(at.depth, c) = 0]
    BY DEF Scan, Deeper
  <1>2. (c = "rbrace" /\ Deeper(at.depth, c) = 0) = to.done
    BY DEF ScanState
  <1>3. Scan(at, c) = [at EXCEPT !.len = to.len, !.depth = to.depth,
                                 !.quote = to.quote, !.done = to.done]
    BY <1>1, <1>2, Zenon
  <1>4. DOMAIN at = {"len", "depth", "quote", "escaped", "done"}
    BY DEF ScanState
  <1> DEFINE s == [at EXCEPT !.len = to.len, !.depth = to.depth,
                             !.quote = to.quote, !.done = to.done]
  <1>5. /\ s.len = to.len /\ s.depth = to.depth /\ s.quote = to.quote
        /\ s.escaped = to.escaped /\ s.done = to.done
    BY <1>4
  <1>6. s \in ScanState
    BY DEF ScanState
  <1> HIDE DEF s
  <1>7. s = to
    BY <1>5, <1>6, SameScanState
  <1> QED BY <1>3, <1>7 DEF s

LEMMA ScanInside ==
  ASSUME NEW at \in ScanState, NEW c \in Symbol, ~at.done, at.quote = "dq",
         NEW to \in ScanState, to.len = at.len + 1, to.depth = at.depth,
         to.quote = IF ~at.escaped /\ c = "dq" THEN "none" ELSE "dq",
         to.escaped <=> ~at.escaped /\ c = "bs", ~to.done
  PROVE  Scan(at, c) = to
  <1>1. Scan(at, c) = [at EXCEPT !.len = at.len + 1,
                                 !.escaped = ~at.escaped /\ c = "bs",
                                 !.quote = IF ~at.escaped /\ c = "dq" THEN "none"
                                           ELSE "dq"]
    BY DEF Scan, Closes
  <1>2. (~at.escaped /\ c = "bs") = to.escaped
    BY DEF ScanState
  <1>3. Scan(at, c) = [at EXCEPT !.len = to.len, !.escaped = to.escaped,
                                 !.quote = to.quote]
    BY <1>1, <1>2, Zenon
  <1>4. DOMAIN at = {"len", "depth", "quote", "escaped", "done"}
    BY DEF ScanState
  <1> DEFINE s == [at EXCEPT !.len = to.len, !.escaped = to.escaped,
                             !.quote = to.quote]
  <1>5. at.done = to.done
    BY DEF ScanState
  <1>6. /\ s.len = to.len /\ s.depth = to.depth /\ s.quote = to.quote
        /\ s.escaped = to.escaped /\ s.done = to.done
    BY <1>4, <1>5
  <1>7. s \in ScanState
    BY DEF ScanState
  <1> HIDE DEF s
  <1>8. s = to
    BY <1>6, <1>7, SameScanState
  <1> QED BY <1>3, <1>8 DEF s

LEMMA ScanDone ==
  ASSUME NEW at, at.done = TRUE, NEW c
  PROVE  Scan(at, c) = at
  BY DEF Scan

LEMMA ScannedFirst ==
  Scanned(<<"lbrace">>) = [len |-> 1, depth |-> 1, quote |-> "none",
                           escaped |-> FALSE, done |-> FALSE]
  <1>1. << >> \in Seq(Symbol) /\ Len(<< >>) = 0 /\ "lbrace" \in Symbol
    BY DEF Symbol
  <1>2. Scanned(<< >>) = AtBrace
    <2>1. Len(<< >>) \in Nat /\ 0 \in 0 .. Len(<< >>)
      BY <1>1
    <2> QED BY <1>1, <2>1, ScansAre DEF Scanned
  <1>3. <<"lbrace">> = Append(<< >>, "lbrace")
    OBVIOUS
  <1>4. Scanned(<<"lbrace">>) = Scan(AtBrace, "lbrace")
    BY <1>1, <1>2, <1>3, ScanMore
  <1> DEFINE to == [len |-> 1, depth |-> 1, quote |-> "none", escaped |-> FALSE,
                    done |-> FALSE]
  <1>5. /\ to \in ScanState /\ to.len = 0 + 1 /\ to.depth = Deeper(0, "lbrace")
        /\ to.quote = IF "lbrace" \in Quotes THEN "lbrace" ELSE "none"
        /\ to.escaped = FALSE /\ ~to.done /\ "lbrace" # "rbrace"
    BY DEF ScanState, Deeper, Quotes
  <1>6. /\ AtBrace \in ScanState /\ ~AtBrace.done /\ AtBrace.quote = "none"
        /\ AtBrace.len = 0 /\ AtBrace.depth = 0 /\ AtBrace.escaped = FALSE
    BY DEF AtBrace, ScanState
  <1> HIDE DEF to
  <1>7. Scan(AtBrace, "lbrace") = to
    BY <1>1, <1>5, <1>6, ScanOutside
  <1> QED BY <1>4, <1>7 DEF to

\* One more symbol after a head and a body is one more of the body.
LEMMA BodyGrows ==
  ASSUME NEW head, IsHead(head), NEW body, Braced(body), NEW c \in Symbol,
         NEW more, more = Append(body, c), NEW longer, longer = Append(head \o body, c)
  PROVE  /\ longer = head \o more
         /\ Braced(more)
         /\ Len(more) = Len(body) + 1 /\ Len(body) \in Nat
         /\ \A n \in 0 .. Len(body) : SubSeq(more, 1, n) = SubSeq(body, 1, n)
         /\ SubSeq(more, 1, Len(body) + 1) = more
  <1>1. /\ head \in Seq(Symbol) /\ body \in Seq(Symbol) /\ body # << >>
        /\ body[1] = "lbrace" /\ Len(body) \in Nat /\ Len(body) # 0
    BY HeadsAreTexts, SymbolsAre DEF Braced
  <1>2. <<c>> \in Seq(Symbol) /\ head \o body \in Seq(Symbol)
    BY <1>1, OneSymbol, JoinProperties
  <1>3. Append(body, c) = body \o <<c>> /\ Append(head \o body, c) = (head \o body) \o <<c>>
    BY <1>1, <1>2, AppendIsConcat
  <1>4. (head \o body) \o <<c>> = head \o (body \o <<c>>)
    BY <1>1, <1>2, ConcatAssociative
  <1>5. /\ Append(body, c) \in Seq(Symbol) /\ Append(body, c) # << >>
        /\ Len(Append(body, c)) = Len(body) + 1
        /\ \A i \in 1 .. Len(body) : Append(body, c)[i] = body[i]
    BY <1>1, AppendProperties
  <1>6. Append(body, c)[1] = "lbrace"
    <2>1. 1 \in 1 .. Len(body)
      BY <1>1
    <2> QED BY <1>1, <1>5, <2>1
  <1>7. ASSUME NEW n \in 0 .. Len(body)
        PROVE  SubSeq(Append(body, c), 1, n) = SubSeq(body, 1, n)
    BY <1>1
  <1>8. SubSeq(Append(body, c), 1, Len(body) + 1) = Append(body, c)
    BY <1>1, <1>5
  <1> QED BY <1>1, <1>3, <1>4, <1>5, <1>6, <1>7, <1>8 DEF Braced

LEMMA MentionKeepsScript ==
  ASSUME kind = "script" => ScriptInv, Mention
  PROVE  ScriptInv'
  <1>1. kind = "script" /\ written.part = "before" /\ written' = written
    BY DEF Mention
  <1>2. PICK piece \in Preamble : text' = text \o piece
    BY DEF Mention
  <1>3. text \in Seq(Symbol) /\ written \in ScriptWritten /\ Unassigned(text)
    BY <1>1 DEF ScriptInv
  <1>4. piece \in Seq(Symbol) /\ Unassigned(piece)
    BY PreambleAssumption DEF Unassigned
  <1>5. text \o piece \in Seq(Symbol) /\ Unassigned(text \o piece)
    BY <1>3, <1>4, JoinProperties, UnassignedJoin
  <1> QED BY <1>1, <1>2, <1>3, <1>5 DEF ScriptInv

LEMMA AssignKeepsScript ==
  ASSUME kind = "script" => ScriptInv, Assign
  PROVE  ScriptInv'
  <1>1. kind = "script" /\ written.part = "before"
    BY DEF Assign
  <1>2. PICK left \in Gap, right \in Gap :
          text' = text \o <<"store">> \o left \o <<"eq">> \o right \o <<"lbrace">>
    BY DEF Assign
  <1>3. written' = [part |-> "object", value |-> <<"lbrace">>, depth |-> 1,
                    quoted |-> FALSE, escaped |-> FALSE]
    BY DEF Assign, Nothing
  <1>4. text \in Seq(Symbol) /\ Unassigned(text)
    BY <1>1 DEF ScriptInv
  <1> DEFINE head == text \o <<"store">> \o left \o <<"eq">> \o right
             body == <<"lbrace">>
  <1>5. IsHead(head)
    BY <1>4 DEF IsHead
  <1>6. "lbrace" \in Symbol
    BY DEF Symbol
  <1>7. body \in Seq(Symbol) /\ Len(body) = 1 /\ body[1] = "lbrace"
    BY <1>6, OneSymbol
  <1>8. Braced(body)
    BY <1>7 DEF Braced
  <1>9. text' = head \o body
    BY <1>2
  <1>10. text' \in Seq(Symbol)
    BY <1>5, <1>7, <1>9, HeadsAreTexts, JoinProperties
  <1> HIDE DEF head
  <1>11. written' \in ScriptWritten
    BY <1>3, <1>7 DEF ScriptWritten
  <1>12. ObjectRead(body)'
    <2>1. /\ written'.value = <<"lbrace">> /\ Len(written'.value) = 1
          /\ written'.depth = 1 /\ ~written'.quoted /\ written'.escaped = FALSE
          /\ written'.part = "object"
      BY <1>3, <1>7
    <2>2. (Whole)' = FALSE
      BY <2>1 DEF Whole
    <2>3. SubSeq(body, 1, 1) = body
      <3> HIDE DEF body
      <3> QED BY <1>7
    <2>4. Scanned(body) = [len |-> Len(written'.value), depth |-> written'.depth,
                           quote |-> IF written'.quoted THEN "dq" ELSE "none",
                           escaped |-> written'.escaped, done |-> (Whole)']
      <3>1. (IF written'.quoted THEN "dq" ELSE "none") = "none"
        BY <2>1
      <3> QED BY <2>1, <2>2, <3>1, ScannedFirst, Zenon
    <2>5. written'.value = body /\ Len(written'.value) = 1 /\ written'.depth \in Nat \ {0}
      BY <2>1
    <2>6. written'.value = SubSeq(body, 1, Len(written'.value))
      BY <2>3, <2>5, Zenon
    <2>7. Len(written'.value) <= Len(body)
      <3>1. 1 <= 1
        OBVIOUS
      <3> QED BY <1>7, <2>5, <3>1, Zenon
    <2> QED BY <2>4, <2>5, <2>6, <2>7, Zenon DEF ObjectRead
  <1>13. written'.part # "before"
    BY <1>3
  <1> QED BY <1>5, <1>8, <1>9, <1>10, <1>11, <1>12, <1>13 DEF ScriptInv

\* Between the first brace and the last.
LEMMA ObjectIs ==
  ASSUME ScriptInv, written.part = "object", NEW c \in Symbol, text' = Append(text, c),
         written' \in ScriptWritten, written'.part # "before",
         written'.value = Append(written.value, c),
         written'.part = "object" => written'.depth \in Nat \ {0},
         \A to \in ScanState :
           /\ to.len = Len(written.value) + 1 /\ to.depth = written'.depth
           /\ to.quote = IF written'.quoted THEN "dq" ELSE "none"
           /\ to.escaped = written'.escaped
           /\ to.done <=> written'.part \in {"after", "end"}
           => \A at \in ScanState :
                /\ at.len = Len(written.value) /\ at.depth = written.depth
                /\ at.quote = IF written.quoted THEN "dq" ELSE "none"
                /\ at.escaped = written.escaped /\ ~at.done
                => Scan(at, c) = to
  PROVE  ScriptInv'
  <1>1. PICK head, body : /\ IsHead(head) /\ Braced(body) /\ text = head \o body
                          /\ ObjectRead(body)
    BY DEF ScriptInv
  <1>2. /\ written.value = body /\ Whole = FALSE
        /\ body \in Seq(Symbol) /\ Len(body) \in Nat
    BY <1>1, SymbolsAre DEF ObjectRead, Whole, Braced
  <1> DEFINE at == [len |-> Len(body), depth |-> written.depth,
                    quote |-> IF written.quoted THEN "dq" ELSE "none",
                    escaped |-> written.escaped, done |-> FALSE]
             to == [len |-> Len(body) + 1, depth |-> written'.depth,
                    quote |-> IF written'.quoted THEN "dq" ELSE "none",
                    escaped |-> written'.escaped, done |-> (Whole)']
             more == Append(body, c)
  <1>3. Scanned(body) = at
    BY <1>1, <1>2, Zenon DEF ObjectRead
  <1>4. at \in ScanState
    BY <1>2 DEF ScanState, ScriptInv, ScriptWritten
  <1>5. (Whole)' \in BOOLEAN /\ ((Whole)' <=> written'.part \in {"after", "end"})
    BY DEF Whole
  <1>6. to \in ScanState
    BY <1>2, <1>5 DEF ScanState, ScriptWritten
  <1>7. Scan(at, c) = to
    <2>1. /\ to.len = Len(written.value) + 1 /\ to.depth = written'.depth
          /\ to.quote = IF written'.quoted THEN "dq" ELSE "none"
          /\ to.escaped = written'.escaped
          /\ to.done <=> written'.part \in {"after", "end"}
      BY <1>2, <1>5
    <2>2. /\ at.len = Len(written.value) /\ at.depth = written.depth
          /\ at.quote = IF written.quoted THEN "dq" ELSE "none"
          /\ at.escaped = written.escaped /\ ~at.done
      BY <1>2
    <2> HIDE DEF at, to
    <2> QED BY <1>4, <1>6, <2>1, <2>2
  <1>8. Scanned(more) = to
    BY <1>2, <1>3, <1>7, ScanMore
  <1>9. /\ text' = head \o more /\ Braced(more)
        /\ Len(more) = Len(body) + 1 /\ SubSeq(more, 1, Len(body) + 1) = more
    <2>1. IsHead(head) /\ Braced(body) /\ c \in Symbol
      BY <1>1
    <2> DEFINE longer == Append(head \o body, c)
    <2>2. more = Append(body, c) /\ longer = Append(head \o body, c)
      OBVIOUS
    <2> HIDE DEF more
    <2>3. text' = head \o more
      <3> HIDE DEF longer
      <3>1. longer = head \o more
        BY ONLY <2>1, <2>2, BodyGrows
      <3> QED BY <1>1, <3>1 DEF longer
    <2>4. Braced(more)
      BY <2>1, <2>2, BodyGrows
    <2>5. Len(more) = Len(body) + 1
      BY <2>1, <2>2, BodyGrows
    <2>6. SubSeq(more, 1, Len(body) + 1) = more
      BY <2>1, <2>2, BodyGrows
    <2> QED BY <2>3, <2>4, <2>5, <2>6
  <1>10. written'.value = more
    BY <1>2
  <1>11. text' = head \o more /\ text' \in Seq(Symbol)
    <2>1. more \in Seq(Symbol)
      BY <1>9 DEF Braced
    <2> HIDE DEF more
    <2> QED BY <1>1, <1>9, <2>1, HeadsAreTexts, JoinProperties DEF more
  <1>12. ObjectRead(more)'
    <2> HIDE DEF more
    <2>1. Scanned(more) = [len |-> Len(written'.value), depth |-> written'.depth,
                           quote |-> IF written'.quoted THEN "dq" ELSE "none",
                           escaped |-> written'.escaped, done |-> (Whole)']
      BY <1>8, <1>9, <1>10, Zenon
    <2>2. Len(more) <= Len(more)
      BY <1>2, <1>9
    <2> QED BY <1>9, <1>10, <2>1, <2>2 DEF ObjectRead
  <1> HIDE DEF more
  <1> QED BY <1>1, <1>9, <1>11, <1>12 DEF ScriptInv

LEMMA InStringKeepsScript ==
  ASSUME kind = "script" => ScriptInv, InString
  PROVE  ScriptInv'
  <1>1. /\ ScriptInv /\ written \in ScriptWritten /\ written.part = "object"
        /\ written.quoted = TRUE
    BY DEF InString, ScriptInv, ScriptWritten
  <1>2. PICK c \in {"dq", "sq", "bs", "lbrace", "rbrace", "x"} :
          /\ Put(c)
          /\ written' = [written EXCEPT !.value = Append(@, c),
                                        !.escaped = c = "bs" /\ ~@,
                                        !.quoted = c # "dq" \/ written.escaped]
    BY DEF InString
  <1>3. c \in Symbol /\ text' = Append(text, c)
    BY <1>2 DEF Symbol, Put
  <1>4. Append(written.value, c) \in Seq(Symbol)
    BY <1>1, <1>3, AppendProperties DEF ScriptWritten
  <1>5. /\ written'.value = Append(written.value, c)
        /\ written'.depth = written.depth /\ written'.part = "object"
        /\ written'.escaped \in BOOLEAN /\ (written'.escaped <=> c = "bs" /\ ~written.escaped)
        /\ written'.quoted \in BOOLEAN /\ (written'.quoted <=> c # "dq" \/ written.escaped)
    BY <1>1, <1>2 DEF ScriptWritten
  <1>6. written' \in ScriptWritten
    BY <1>1, <1>2, <1>4 DEF ScriptWritten
  <1>7. written.depth \in Nat \ {0}
    BY <1>1 DEF ScriptInv, ObjectRead
  <1>8. ASSUME NEW to \in ScanState,
               to.len = Len(written.value) + 1, to.depth = written'.depth,
               to.quote = IF written'.quoted THEN "dq" ELSE "none",
               to.escaped = written'.escaped,
               to.done <=> written'.part \in {"after", "end"},
               NEW at \in ScanState,
               at.len = Len(written.value), at.depth = written.depth,
               at.quote = IF written.quoted THEN "dq" ELSE "none",
               at.escaped = written.escaped, ~at.done
        PROVE  Scan(at, c) = to
    <2>1. at.quote = "dq" /\ to.len = at.len + 1 /\ to.depth = at.depth /\ ~to.done
      BY <1>1, <1>5, <1>8
    <2>2. to.quote = IF ~at.escaped /\ c = "dq" THEN "none" ELSE "dq"
      BY <1>1, <1>5, <1>8 DEF ScriptWritten
    <2>3. to.escaped <=> ~at.escaped /\ c = "bs"
      BY <1>1, <1>5, <1>8 DEF ScriptWritten
    <2> QED BY <1>3, <1>8, <2>1, <2>2, <2>3, ScanInside
  <1> QED BY <1>1, <1>3, <1>5, <1>6, <1>7, <1>8, ObjectIs

LEMMA InObjectKeepsScript ==
  ASSUME kind = "script" => ScriptInv, InObject
  PROVE  ScriptInv'
  <1>1. /\ ScriptInv /\ written \in ScriptWritten /\ written.part = "object"
        /\ written.quoted = FALSE
    BY DEF InObject, ScriptInv, ScriptWritten
  <1>2. PICK c \in {"dq", "lbrace", "rbrace", "x"} :
          /\ Put(c)
          /\ written' = [written EXCEPT !.value = Append(@, c),
                                        !.depth = Deeper(written.depth, c),
                                        !.quoted = c = "dq",
                                        !.part = IF Deeper(written.depth, c) = 0
                                                 THEN "after" ELSE @]
    BY DEF InObject, Deeper
  <1>3. c \in Symbol /\ text' = Append(text, c) /\ (c \in Quotes <=> c = "dq")
    BY <1>2 DEF Symbol, Put, Quotes
  <1>4. Append(written.value, c) \in Seq(Symbol)
    BY <1>1, <1>3, AppendProperties DEF ScriptWritten
  <1>5. /\ written'.value = Append(written.value, c)
        /\ written'.depth = Deeper(written.depth, c)
        /\ written'.part = IF Deeper(written.depth, c) = 0 THEN "after" ELSE "object"
        /\ written'.escaped = written.escaped
        /\ written'.quoted \in BOOLEAN /\ (written'.quoted <=> c = "dq")
    BY <1>1, <1>2 DEF ScriptWritten
  <1>6. written.depth \in Nat \ {0}
    BY <1>1 DEF ScriptInv, ObjectRead
  <1>7. /\ Deeper(written.depth, c) \in Nat
        /\ Deeper(written.depth, c) = 0 => c = "rbrace"
    BY <1>6 DEF Deeper
  <1>8. written' \in ScriptWritten
    <2> DEFINE depth == Deeper(written.depth, c)
               part == IF depth = 0 THEN "after" ELSE written.part
    <2>1. depth \in Int /\ part \in {"object", "after"}
      BY <1>1, <1>7
    <2>2. written' = [written EXCEPT !.value = Append(written.value, c),
                                     !.depth = depth, !.quoted = c = "dq", !.part = part]
      BY <1>2
    <2> HIDE DEF depth, part
    <2> QED BY <1>1, <1>4, <2>1, <2>2 DEF ScriptWritten
  <1>9. ASSUME NEW to \in ScanState,
               to.len = Len(written.value) + 1, to.depth = written'.depth,
               to.quote = IF written'.quoted THEN "dq" ELSE "none",
               to.escaped = written'.escaped,
               to.done <=> written'.part \in {"after", "end"},
               NEW at \in ScanState,
               at.len = Len(written.value), at.depth = written.depth,
               at.quote = IF written.quoted THEN "dq" ELSE "none",
               at.escaped = written.escaped, ~at.done
        PROVE  Scan(at, c) = to
    <2>1. /\ at.quote = "none" /\ to.len = at.len + 1
          /\ to.depth = Deeper(at.depth, c) /\ to.escaped = at.escaped
      BY <1>1, <1>5, <1>9
    <2>2. to.quote = IF c \in Quotes THEN c ELSE "none"
      BY <1>3, <1>5, <1>9
    <2>3. to.done <=> c = "rbrace" /\ to.depth = 0
      BY <1>5, <1>7, <1>9
    <2> QED BY <1>3, <1>9, <2>1, <2>2, <2>3, ScanOutside
  <1>10. /\ written'.part # "before"
         /\ written'.part = "object" => written'.depth \in Nat \ {0}
    BY <1>5, <1>7
  <1> QED BY <1>1, <1>3, <1>5, <1>8, <1>9, <1>10, ObjectIs

\* Past the object.
LEMMA EndIs ==
  ASSUME ScriptInv, written.part = "after", NEW c \in Symbol, text' = Append(text, c),
         written' = [written EXCEPT !.part = "end"]
  PROVE  ScriptInv'
  <1>1. text' = Append(text, c)
    OBVIOUS
  <1>2. c \in Symbol
    OBVIOUS
  <1>3. written.part = "after" /\ written' = [written EXCEPT !.part = "end"]
        /\ written \in ScriptWritten
    BY DEF ScriptInv
  <1>4. /\ written'.part = "end" /\ written'.value = written.value
        /\ written'.depth = written.depth /\ written'.quoted = written.quoted
        /\ written'.escaped = written.escaped /\ written' \in ScriptWritten
    BY <1>3 DEF ScriptWritten
  <1>5. PICK head, body : /\ IsHead(head) /\ Braced(body) /\ text = head \o body
                          /\ ObjectRead(body)
    BY <1>3 DEF ScriptInv
  <1> DEFINE more == Append(body, c)
             longer == Append(head \o body, c)
  <1>6. more = Append(body, c) /\ longer = Append(head \o body, c)
    OBVIOUS
  <1>7. IsHead(head) /\ Braced(body)
    BY <1>5
  <1>8. Scanned(more) = Scanned(body)
    <2>1. Whole = TRUE
      BY <1>3 DEF Whole
    <2>2. Scanned(body).done = TRUE
      BY <1>5, <2>1 DEF ObjectRead
    <2>3. Scan(Scanned(body), c) = Scanned(body)
      BY <2>2, ScanDone
    <2> QED BY <1>2, <1>7, <2>3, ScanMore DEF Braced
  <1> HIDE DEF more, longer
  <1>9. /\ longer = head \o more /\ Braced(more)
        /\ Len(more) = Len(body) + 1 /\ Len(body) \in Nat
        /\ \A n \in 0 .. Len(body) : SubSeq(more, 1, n) = SubSeq(body, 1, n)
    <2>1. longer = head \o more
      BY ONLY <1>2, <1>6, <1>7, BodyGrows
    <2>2. Braced(more)
      BY ONLY <1>2, <1>6, <1>7, BodyGrows
    <2>3. Len(more) = Len(body) + 1 /\ Len(body) \in Nat
      BY ONLY <1>2, <1>6, <1>7, BodyGrows
    <2>4. \A n \in 0 .. Len(body) : SubSeq(more, 1, n) = SubSeq(body, 1, n)
      BY ONLY <1>2, <1>6, <1>7, BodyGrows
    <2> QED BY <2>1, <2>2, <2>3, <2>4
  <1>10. text' = head \o more /\ text' \in Seq(Symbol)
    <2>1. text' = longer
      BY <1>1, <1>5 DEF longer
    <2>2. more \in Seq(Symbol) /\ head \in Seq(Symbol)
      BY <1>7, <1>9, HeadsAreTexts DEF Braced
    <2>3. head \o more \in Seq(Symbol)
      BY <2>2, JoinProperties
    <2> QED BY <1>9, <2>1, <2>3
  <1>11. ObjectRead(more)'
    <2>1. (Whole)' = Whole
      BY <1>3, <1>4 DEF Whole
    <2>2. Scanned(more) = [len |-> Len(written'.value), depth |-> written'.depth,
                           quote |-> IF written'.quoted THEN "dq" ELSE "none",
                           escaped |-> written'.escaped, done |-> (Whole)']
      BY <1>4, <1>5, <1>8, <2>1, Zenon DEF ObjectRead
    <2>3. Len(written.value) \in 0 .. Len(body)
          /\ written.value = SubSeq(body, 1, Len(written.value))
      BY <1>3, <1>5, <1>9 DEF ObjectRead, ScriptWritten
    <2>4. written'.value = SubSeq(more, 1, Len(written'.value))
      BY <1>4, <1>9, <2>3
    <2>5. Len(written'.value) <= Len(more)
      BY <1>4, <1>9, <2>3
    <2> QED BY <1>4, <2>2, <2>4, <2>5 DEF ObjectRead
  <1> QED BY <1>4, <1>7, <1>9, <1>10, <1>11 DEF ScriptInv

LEMMA AfterKeepsScript ==
  ASSUME kind = "script", ScriptInv, After
  PROVE  ScriptInv'
  <1>1. PICK c \in {"rbrace", "dq"} : text' = Append(text, c)
    BY DEF After
  <1>2. c \in Symbol
    BY DEF Symbol
  <1>3. written.part = "after" /\ written' = [written EXCEPT !.part = "end"]
    BY DEF After
  <1> QED BY <1>1, <1>2, <1>3, EndIs

LEMMA ScriptIsRead ==
  ASSUME ScriptInv
  PROVE  StoreOfScript(text) = IF Whole THEN written.value ELSE None
  <1>1. CASE written.part = "before"
    <2>1. text \in Seq(Symbol) /\ Unassigned(text) /\ ~Whole
      BY <1>1 DEF ScriptInv, Whole
    <2> QED BY <2>1, StoreOfUnassigned
  <1>2. CASE written.part # "before"
    <2>1. PICK head, body : /\ IsHead(head) /\ Braced(body) /\ text = head \o body
                            /\ ObjectRead(body)
      BY <1>2 DEF ScriptInv
    <2>2. StoreOfScript(text) = IF Scanned(body).done
                                THEN SubSeq(body, 1, Scanned(body).len) ELSE None
      BY <2>1, StoreAfterHead
    <2>3. Scanned(body).done = Whole /\ Scanned(body).len = Len(written.value)
      BY <2>1 DEF ObjectRead
    <2>4. written.value = SubSeq(body, 1, Len(written.value))
      BY <2>1 DEF ObjectRead
    <2> QED BY <2>2, <2>3, <2>4
  <1> QED BY <1>1, <1>2

-----------------------------------------------------------------------------
(* Literals *)

ReadState == [out : Seq(Nat), hi : Nat, end : {"open", "closed", "bad"}]

LEMMA SameReadState ==
  ASSUME NEW at \in ReadState, NEW to \in ReadState,
         at.out = to.out, at.hi = to.hi, at.end = to.end
  PROVE  at = to
  BY DEF ReadState

\* What is read after out has been, with no half of a pair left over.
Between(out) == [out |-> out, hi |-> 0, end |-> "open"]

LEMMA BetweenIs ==
  ASSUME NEW out \in Seq(Nat)
  PROVE  /\ Between(out) \in ReadState /\ Between(out).out = out
         /\ Between(out).hi = 0 /\ Between(out).end = "open"
  BY DEF Between, ReadState

\* A code point more.
LEMMA PushIs ==
  ASSUME NEW at \in ReadState, at.end = "open", NEW v \in Nat
  PROVE  [at EXCEPT !.out = Append(@, v), !.hi = 0] = Between(Append(at.out, v))
  <1> DEFINE s == [at EXCEPT !.out = Append(@, v), !.hi = 0]
             out == Append(at.out, v)
  <1>1. at.out \in Seq(Nat) /\ out \in Seq(Nat)
    BY AppendProperties DEF ReadState
  <1>2. s \in ReadState /\ s.out = out /\ s.hi = 0 /\ s.end = "open"
    BY <1>1 DEF ReadState
  <1> HIDE DEF s, out
  <1>3. s = Between(out)
    BY <1>1, <1>2, BetweenIs, SameReadState
  <1> QED BY <1>3 DEF s, out

LEMMA RawIsRead ==
  ASSUME NEW out \in Seq(Nat), NEW quote, NEW v \in Nat, v # quote
  PROVE  ReadUnit(Between(out), quote, <<"raw", v>>) = Between(Append(out, v))
  <1> DEFINE at == Between(out)
  <1>1. at \in ReadState /\ at.out = out /\ at.hi = 0 /\ at.end = "open"
    BY BetweenIs
  <1> HIDE DEF at
  <1>2. ReadUnit(at, quote, <<"raw", v>>) = [at EXCEPT !.out = Append(@, v), !.hi = 0]
    BY <1>1 DEF ReadUnit
  <1> QED BY <1>1, <1>2, PushIs DEF at

LEMMA EscapeIsRead ==
  ASSUME NEW out \in Seq(Nat), NEW quote, NEW c \in Nat, NEW v \in Nat, Escaped(c) = v
  PROVE  ReadUnit(Between(out), quote, <<"esc", c>>) = Between(Append(out, v))
  <1> DEFINE at == Between(out)
  <1>1. at \in ReadState /\ at.out = out /\ at.hi = 0 /\ at.end = "open"
    BY BetweenIs
  <1> HIDE DEF at
  <1>2. ReadUnit(at, quote, <<"esc", c>>) = [at EXCEPT !.out = Append(@, v), !.hi = 0]
    BY <1>1 DEF ReadUnit
  <1> QED BY <1>1, <1>2, PushIs DEF at

LEMMA CodePointIsRead ==
  ASSUME NEW out \in Seq(Nat), NEW quote, NEW v \in Nat, IsScalar(v)
  PROVE  ReadUnit(Between(out), quote, <<"u", v>>) = Between(Append(out, v))
  <1> DEFINE at == Between(out)
  <1>1. at \in ReadState /\ at.out = out /\ at.hi = 0 /\ at.end = "open"
    BY BetweenIs
  <1>2. ~High(v)
    BY DEF IsScalar
  <1> HIDE DEF at
  <1>3. ReadUnit(at, quote, <<"u", v>>) = [at EXCEPT !.out = Append(@, v), !.hi = 0]
    BY <1>1, <1>2 DEF ReadUnit
  <1> QED BY <1>1, <1>3, PushIs DEF at

\* The halves of a pair stand for the code point that was halved.
LEMMA HalvesCombine ==
  ASSUME NEW v \in Nat, IsScalar(v), 65536 <= v
  PROVE  /\ High(55296 + ((v - 65536) \div 1024))
         /\ 55296 + ((v - 65536) \div 1024) \in Nat \ {0}
         /\ 56320 + ((v - 65536) % 1024) \in Nat
         /\ Combine(55296 + ((v - 65536) \div 1024), 56320 + ((v - 65536) % 1024)) = v
  <1> DEFINE d == (v - 65536) \div 1024
             m == (v - 65536) % 1024
  <1>1. v <= 1114111 /\ v - 65536 \in Nat
    BY DEF IsScalar
  <1>2. d \in Nat /\ m \in 0 .. 1023 /\ v - 65536 = 1024 * d + m
    BY <1>1
  <1> HIDE DEF d, m
  <1>3. d <= 1023
    BY <1>1, <1>2
  <1>4. 65536 + ((55296 + d) - 55296) * 1024 + ((56320 + m) - 56320) = v
    BY <1>1, <1>2
  <1> QED BY <1>2, <1>3, <1>4 DEF d, m, High, Combine

LEMMA PairIsRead ==
  ASSUME NEW out \in Seq(Nat), NEW quote, NEW v \in Nat, IsScalar(v),
         NEW hi \in Nat \ {0}, NEW lo \in Nat, High(hi), Combine(hi, lo) = v
  PROVE  ReadUnit(ReadUnit(Between(out), quote, <<"u", hi>>), quote, <<"u", lo>>)
           = Between(Append(out, v))
  <1> DEFINE at == Between(out)
             half == ReadUnit(at, quote, <<"u", hi>>)
  <1>1. at \in ReadState /\ at.out = out /\ at.hi = 0 /\ at.end = "open"
    BY BetweenIs
  <1> HIDE DEF at
  <1>2. half = [at EXCEPT !.hi = hi]
    BY <1>1 DEF ReadUnit
  <1>3. half \in ReadState /\ half.out = out /\ half.hi = hi /\ half.end = "open"
    BY <1>1, <1>2 DEF ReadState
  <1> HIDE DEF half
  <1>4. ReadUnit(half, quote, <<"u", lo>>) = [half EXCEPT !.out = Append(@, v), !.hi = 0]
    BY <1>3 DEF ReadUnit
  <1> QED BY <1>3, <1>4, PushIs DEF half, at

LEMMA QuoteIsRead ==
  ASSUME NEW out \in Seq(Nat), NEW quote
  PROVE  ReadUnit(Between(out), quote, <<"raw", quote>>)
           = [out |-> out, hi |-> 0, end |-> "closed"]
  <1> DEFINE at == Between(out)
             to == [out |-> out, hi |-> 0, end |-> "closed"]
  <1>1. at \in ReadState /\ at.out = out /\ at.hi = 0 /\ at.end = "open"
    BY BetweenIs
  <1>2. to \in ReadState /\ to.out = out /\ to.hi = 0 /\ to.end = "closed"
    BY DEF ReadState
  <1> HIDE DEF at, to
  <1>3. ReadUnit(at, quote, <<"raw", quote>>) = [at EXCEPT !.end = "closed"]
    BY <1>1 DEF ReadUnit
  <1>4. [at EXCEPT !.end = "closed"] = to
    <2> DEFINE s == [at EXCEPT !.end = "closed"]
    <2>1. s \in ReadState /\ s.out = out /\ s.hi = 0 /\ s.end = "closed"
      BY <1>1 DEF ReadState
    <2> HIDE DEF s
    <2>2. s = to
      BY <1>2, <2>1, SameReadState
    <2> QED BY <2>2 DEF s
  <1> QED BY <1>3, <1>4 DEF at, to

LEMMA PastTheQuote ==
  ASSUME NEW at, at.end = "closed", NEW quote, NEW unit
  PROVE  ReadUnit(at, quote, unit) = at
  BY DEF ReadUnit

LiteralWritten ==
  [part : {"before", "object", "after", "end"}, value : Seq(Nat), depth : Int,
   quoted : BOOLEAN, escaped : BOOLEAN]

\* The loop of js_string_literal stands where the writer does.
LiteralInv ==
  /\ text \in Seq(Unit) /\ written \in LiteralWritten
  /\ text = << >> => written = Nothing
  /\ text # << >> =>
       /\ written.part # "before"
       /\ \E quote \in {34, 39} :
            /\ text[1] = <<"raw", quote>>
            /\ Read(quote, Tail(text)) = [out |-> written.value, hi |-> 0,
                                          end |-> IF Whole THEN "closed" ELSE "open"]

LEMMA LiteralIsRead ==
  ASSUME LiteralInv, text # << >>
  PROVE  JsStringLiteral(text) = IF Whole THEN written.value ELSE None
  <1>1. PICK quote \in {34, 39} :
          /\ text[1] = <<"raw", quote>>
          /\ Read(quote, Tail(text)) = [out |-> written.value, hi |-> 0,
                                        end |-> IF Whole THEN "closed" ELSE "open"]
    BY DEF LiteralInv
  <1>2. text \in Seq(Unit) /\ Len(Tail(text)) = Len(text) - 1
    BY HeadTailProperties DEF LiteralInv
  <1>3. text[1][1] = "raw" /\ text[1][2] = quote
    BY <1>1
  <1>4. Reads(quote, Tail(text))[Len(text) - 1]
          = [out |-> written.value, hi |-> 0,
             end |-> IF Whole THEN "closed" ELSE "open"]
    BY <1>1, <1>2 DEF Read
  <1> DEFINE end == Reads(quote, Tail(text))[Len(text) - 1]
  <1>5. end.out = written.value /\ end.end = IF Whole THEN "closed" ELSE "open"
    BY <1>4
  <1> HIDE DEF end
  <1>6. JsStringLiteral(text) = IF end.end = "closed" THEN end.out ELSE None
    BY <1>3 DEF JsStringLiteral, end
  <1> QED BY <1>5, <1>6

LEMMA UnitsAre ==
  ASSUME NEW kindOfUnit \in {"raw", "esc", "u"}, NEW v \in Nat
  PROVE  /\ <<kindOfUnit, v>> \in Unit
         /\ <<<<kindOfUnit, v>>>> \in Seq(Unit)
  <1>1. <<kindOfUnit, v>> \in Unit
    BY DEF Unit
  <1>2. \A S : \A x \in S : <<x>> \in Seq(S)
    OBVIOUS
  <1> QED BY <1>1, <1>2, Zenon

\* One more unit after the opening quote.
LEMMA UnitIsAppended ==
  ASSUME NEW s \in Seq(Unit), s # << >>, NEW unit \in Unit, NEW quote,
         NEW longer, longer = Append(s, unit)
  PROVE  /\ longer \in Seq(Unit) /\ longer # << >> /\ longer[1] = s[1]
         /\ Read(quote, Tail(longer)) = ReadUnit(Read(quote, Tail(s)), quote, unit)
  <1>1. Len(s) \in Nat /\ Len(s) # 0 /\ 1 \in 1 .. Len(s)
    OBVIOUS
  <1>2. /\ longer \in Seq(Unit) /\ longer # << >>
        /\ \A i \in 1 .. Len(s) : longer[i] = s[i]
    BY AppendProperties
  <1>3. Tail(longer) = Append(Tail(s), unit) /\ Tail(s) \in Seq(Unit)
    BY HeadTailAppend, HeadTailProperties
  <1>4. Read(quote, Append(Tail(s), unit)) = ReadUnit(Read(quote, Tail(s)), quote, unit)
    BY <1>3, ReadMore
  <1> QED BY <1>1, <1>2, <1>3, <1>4

\* The literal longer is s and more, and has been read as out.
ReadsAs(longer, s, quote, out) ==
  /\ longer \in Seq(Unit) /\ longer # << >> /\ longer[1] = s[1]
  /\ Read(quote, Tail(longer)) = Between(out)

LEMMA OneUnitIsRead ==
  ASSUME NEW s \in Seq(Unit), s # << >>, NEW quote, NEW out, NEW more,
         Read(quote, Tail(s)) = Between(out),
         NEW unit \in Unit, ReadUnit(Between(out), quote, unit) = Between(more)
  PROVE  ReadsAs(s \o <<unit>>, s, quote, more)
  <1> DEFINE longer == s \o <<unit>>
  <1>1. longer = Append(s, unit)
    BY AppendIsConcat
  <1> HIDE DEF longer
  <1>2. /\ longer \in Seq(Unit) /\ longer # << >> /\ longer[1] = s[1]
        /\ Read(quote, Tail(longer)) = ReadUnit(Read(quote, Tail(s)), quote, unit)
    BY <1>1, UnitIsAppended
  <1>3. ReadsAs(longer, s, quote, more)
    BY <1>2 DEF ReadsAs
  <1> QED BY <1>3 DEF longer

LEMMA TwoUnits ==
  ASSUME NEW S, NEW s \in Seq(S), NEW first \in S, NEW second \in S
  PROVE  s \o <<first, second>> = Append(Append(s, first), second)
  OBVIOUS

LEMMA TwoUnitsAreRead ==
  ASSUME NEW s \in Seq(Unit), s # << >>, NEW quote, NEW out, NEW more,
         Read(quote, Tail(s)) = Between(out),
         NEW first \in Unit, NEW second \in Unit,
         ReadUnit(ReadUnit(Between(out), quote, first), quote, second) = Between(more)
  PROVE  ReadsAs(s \o <<first, second>>, s, quote, more)
  <1> DEFINE middle == Append(s, first)
             longer == s \o <<first, second>>
  <1>1. longer = Append(middle, second)
    BY TwoUnits
  <1>2. middle = Append(s, first)
    OBVIOUS
  <1> HIDE DEF longer, middle
  <1>3. /\ middle \in Seq(Unit) /\ middle # << >> /\ middle[1] = s[1]
        /\ Read(quote, Tail(middle)) = ReadUnit(Read(quote, Tail(s)), quote, first)
    BY <1>2, UnitIsAppended
  <1>4. /\ longer \in Seq(Unit) /\ longer # << >> /\ longer[1] = middle[1]
        /\ Read(quote, Tail(longer)) = ReadUnit(Read(quote, Tail(middle)), quote, second)
    BY <1>1, <1>3, UnitIsAppended
  <1>5. Read(quote, Tail(longer)) = Between(more)
    BY <1>3, <1>4, Zenon
  <1>6. ReadsAs(longer, s, quote, more)
    BY <1>3, <1>4, <1>5 DEF ReadsAs
  <1> QED BY <1>6 DEF longer

\* The four ways to spell v.
AsItself(v, spelling) ==
  \E c \in {v} \ ({92, text[1][2]} \cup 0 .. 31) : spelling = <<<<"raw", c>>>>

AsEscape(v, spelling) ==
  \E c \in {c \in DOMAIN ShortEscapes : ShortEscapes[c] = v}
             \cup ({v} \cap {34, 39, 47, 92}) : spelling = <<<<"esc", c>>>>

AsUnit(v, spelling) == v < 65536 /\ spelling = <<<<"u", v>>>>

AsPair(v, spelling) ==
  /\ ~(v < 65536)
  /\ spelling = <<<<"u", 55296 + ((v - 65536) \div 1024)>>,
                  <<"u", 56320 + ((v - 65536) % 1024)>>>>

LEMMA SpellingsAre ==
  ASSUME NEW v, NEW spelling \in Spellings(v)
  PROVE  \/ AsItself(v, spelling) \/ AsEscape(v, spelling)
         \/ AsUnit(v, spelling) \/ AsPair(v, spelling)
  <1> DEFINE plain == {v} \ ({92, text[1][2]} \cup 0 .. 31)
             short == {c \in DOMAIN ShortEscapes : ShortEscapes[c] = v}
                        \cup ({v} \cap {34, 39, 47, 92})
             one == <<<<"u", v>>>>
             two == <<<<"u", 55296 + ((v - 65536) \div 1024)>>,
                      <<"u", 56320 + ((v - 65536) % 1024)>>>>
             small == v < 65536
             units == IF v < 65536 THEN one ELSE two
  <1>1. spelling \in {<<<<"raw", c>>>> : c \in plain} \cup {<<<<"esc", c>>>> : c \in short}
                       \cup {units}
    BY DEF Spellings
  <1>2. (units = one /\ small) \/ (units = two /\ ~small)
    OBVIOUS
  <1> HIDE DEF plain, short, one, two, small, units
  <1>3. \/ \E c \in plain : spelling = <<<<"raw", c>>>>
        \/ \E c \in short : spelling = <<<<"esc", c>>>>
        \/ small /\ spelling = one
        \/ ~small /\ spelling = two
    BY <1>1, <1>2, Zenon
  <1>4. ASSUME \E c \in plain : spelling = <<<<"raw", c>>>>
        PROVE  AsItself(v, spelling)
    BY <1>4 DEF AsItself, plain
  <1>5. ASSUME \E c \in short : spelling = <<<<"esc", c>>>>
        PROVE  AsEscape(v, spelling)
    BY <1>5 DEF AsEscape, short
  <1>6. ASSUME small, spelling = one
        PROVE  AsUnit(v, spelling)
    BY <1>6 DEF AsUnit, small, one
  <1>7. ASSUME ~small, spelling = two
        PROVE  AsPair(v, spelling)
    BY <1>7 DEF AsPair, small, two
  <1> QED BY <1>3, <1>4, <1>5, <1>6, <1>7, Zenon

\* A spelling of v reads as v.
LEMMA SpellingIsRead ==
  ASSUME NEW s \in Seq(Unit), s # << >>, NEW quote \in {34, 39},
         s[1] = <<"raw", quote>>, NEW out \in Seq(Nat),
         Read(quote, Tail(s)) = Between(out), text = s,
         NEW v \in Scalars, NEW spelling \in Spellings(v)
  PROVE  ReadsAs(s \o spelling, s, quote, Append(out, v))
  <1>1. v \in Nat /\ IsScalar(v) /\ text[1][2] = quote /\ quote \in Nat
    BY ScalarsAssumption
  <1> DEFINE more == Append(out, v)
  <1>2. \A unit \in Unit : ReadUnit(Between(out), quote, unit) = Between(more)
                             => ReadsAs(s \o <<unit>>, s, quote, more)
    <2> HIDE DEF more
    <2> QED BY OneUnitIsRead
  <1>3. \A first, second \in Unit :
          ReadUnit(ReadUnit(Between(out), quote, first), quote, second) = Between(more)
            => ReadsAs(s \o <<first, second>>, s, quote, more)
    <2> HIDE DEF more
    <2> QED BY TwoUnitsAreRead
  <1>4. CASE AsItself(v, spelling)
    <2>1. v # quote /\ spelling = <<<<"raw", v>>>>
      BY <1>1, <1>4 DEF AsItself
    <2>2. <<"raw", v>> \in Unit
      BY <1>1, UnitsAre
    <2>3. ReadUnit(Between(out), quote, <<"raw", v>>) = Between(more)
      BY <1>1, <2>1, RawIsRead
    <2> HIDE DEF more
    <2>4. ReadsAs(s \o <<<<"raw", v>>>>, s, quote, more)
      BY <1>2, <2>2, <2>3, Zenon
    <2> QED BY <2>1, <2>4, Zenon DEF more
  <1>5. CASE AsEscape(v, spelling)
    <2>1. PICK c \in {c \in DOMAIN ShortEscapes : ShortEscapes[c] = v}
                       \cup ({v} \cap {34, 39, 47, 92}) : spelling = <<<<"esc", c>>>>
      BY <1>5 DEF AsEscape
    <2>2. c \in Nat /\ Escaped(c) = v
      BY DEF Escaped, ShortEscapes
    <2>3. <<"esc", c>> \in Unit
      BY <2>2, UnitsAre
    <2>4. ReadUnit(Between(out), quote, <<"esc", c>>) = Between(more)
      BY <1>1, <2>2, EscapeIsRead
    <2> HIDE DEF more
    <2>5. ReadsAs(s \o <<<<"esc", c>>>>, s, quote, more)
      BY <1>2, <2>3, <2>4, Zenon
    <2> QED BY <2>1, <2>5, Zenon DEF more
  <1>6. CASE AsUnit(v, spelling)
    <2>1. <<"u", v>> \in Unit
      BY <1>1, UnitsAre
    <2>2. ReadUnit(Between(out), quote, <<"u", v>>) = Between(more)
      BY <1>1, CodePointIsRead
    <2>3. spelling = <<<<"u", v>>>>
      BY <1>6 DEF AsUnit
    <2> HIDE DEF more
    <2>4. ReadsAs(s \o <<<<"u", v>>>>, s, quote, more)
      BY <1>2, <2>1, <2>2, Zenon
    <2> QED BY <2>3, <2>4, Zenon DEF more
  <1>7. CASE AsPair(v, spelling)
    <2> DEFINE hi == 55296 + ((v - 65536) \div 1024)
               lo == 56320 + ((v - 65536) % 1024)
    <2>1. 65536 <= v
      BY <1>1, <1>7 DEF AsPair
    <2>2. High(hi) /\ hi \in Nat \ {0} /\ lo \in Nat /\ Combine(hi, lo) = v
      BY <1>1, <2>1, HalvesCombine
    <2>3. spelling = <<<<"u", hi>>, <<"u", lo>>>>
      BY <1>7 DEF AsPair
    <2> HIDE DEF hi, lo
    <2>4. ReadUnit(ReadUnit(Between(out), quote, <<"u", hi>>), quote, <<"u", lo>>)
            = Between(more)
      BY <1>1, <2>2, PairIsRead
    <2>5. <<"u", hi>> \in Unit /\ <<"u", lo>> \in Unit
      BY <2>2, UnitsAre
    <2> HIDE DEF more
    <2>6. ReadsAs(s \o <<<<"u", hi>>, <<"u", lo>>>>, s, quote, more)
      BY <1>3, <2>4, <2>5, Zenon
    <2> QED BY <2>3, <2>6, Zenon DEF more
  <1>8. \/ AsItself(v, spelling) \/ AsEscape(v, spelling)
        \/ AsUnit(v, spelling) \/ AsPair(v, spelling)
    BY SpellingsAre
  <1> HIDE DEF more
  <1>9. ReadsAs(s \o spelling, s, quote, more)
    BY <1>4, <1>5, <1>6, <1>7, <1>8, Zenon DEF more
  <1> QED BY <1>9 DEF more

LEMMA OpenKeepsLiteral ==
  ASSUME LiteralInv, Open
  PROVE  LiteralInv'
  <1>1. PICK quote \in {34, 39} : text' = <<<<"raw", quote>>>>
    BY DEF Open
  <1>2. written' = [written EXCEPT !.part = "object"] /\ written = Nothing
    BY DEF Open, LiteralInv
  <1>3. /\ written' \in LiteralWritten /\ written'.part = "object" /\ written'.value = << >>
    <2>1. written.value = << >>
      BY <1>2 DEF Nothing
    <2>2. written \in LiteralWritten
      BY DEF LiteralInv
    <2> QED BY <1>2, <2>1, <2>2 DEF LiteralWritten
  <1>4. text' \in Seq(Unit) /\ text' # << >> /\ text'[1] = <<"raw", quote>>
    <2>1. <<<<"raw", quote>>>> \in Seq(Unit)
      BY UnitsAre
    <2>2. <<<<"raw", quote>>>> # << >>
      OBVIOUS
    <2> QED BY <1>1, <2>1, <2>2
  <1>5. Tail(text') = << >>
    BY <1>1
  <1>6. Read(quote, << >>) = [out |-> << >>, hi |-> 0, end |-> "open"]
    BY ReadsAre DEF Read, AtQuote
  <1>7. ~(Whole)'
    BY <1>3 DEF Whole
  <1> QED BY <1>3, <1>4, <1>5, <1>6, <1>7 DEF LiteralInv

LEMMA SpellKeepsLiteral ==
  ASSUME LiteralInv, Spell, text # << >>
  PROVE  LiteralInv'
  <1>1. PICK v \in Scalars : \E spelling \in Spellings(v) :
          /\ text' = text \o spelling
          /\ written' = [written EXCEPT !.value = Append(@, v)]
    BY DEF Spell
  <1>2. PICK spelling \in Spellings(v) : text' = text \o spelling
    BY <1>1
  <1>3. PICK quote \in {34, 39} :
          /\ text[1] = <<"raw", quote>>
          /\ Read(quote, Tail(text)) = [out |-> written.value, hi |-> 0,
                                        end |-> IF Whole THEN "closed" ELSE "open"]
    BY DEF LiteralInv
  <1>4. written.part = "object" /\ written \in LiteralWritten /\ written.value \in Seq(Nat)
    BY DEF Spell, LiteralInv, LiteralWritten
  <1>5. text \in Seq(Unit) /\ v \in Nat
    BY ScalarsAssumption DEF LiteralInv
  <1>6. Read(quote, Tail(text)) = Between(written.value)
    BY <1>3, <1>4 DEF Whole, Between
  <1> DEFINE out == written.value
             more == Append(out, v)
             longer == text \o spelling
  <1>7. ReadsAs(longer, text, quote, more)
    BY <1>3, <1>4, <1>5, <1>6, SpellingIsRead
  <1>8. written' \in LiteralWritten /\ written'.part = "object" /\ written'.value = more
    <2>1. more \in Seq(Nat)
      BY <1>4, <1>5, AppendProperties
    <2>2. written' = [written EXCEPT !.value = more]
      BY <1>1
    <2> HIDE DEF more
    <2> QED BY <1>4, <2>1, <2>2 DEF LiteralWritten
  <1>9. text' = longer
    BY <1>2
  <1> HIDE DEF longer, more, out
  <1>10. /\ text' \in Seq(Unit) /\ text' # << >> /\ text'[1] = <<"raw", quote>>
         /\ Read(quote, Tail(text')) = [out |-> written'.value, hi |-> 0, end |-> "open"]
    BY <1>3, <1>7, <1>8, <1>9 DEF ReadsAs, Between
  <1>11. ~(Whole)'
    BY <1>8 DEF Whole
  <1> QED BY <1>8, <1>10, <1>11 DEF LiteralInv

LEMMA CloseKeepsLiteral ==
  ASSUME LiteralInv, Close, text # << >>
  PROVE  LiteralInv'
  <1>1. PICK quote \in {34, 39} :
          /\ text[1] = <<"raw", quote>>
          /\ Read(quote, Tail(text)) = [out |-> written.value, hi |-> 0,
                                        end |-> IF Whole THEN "closed" ELSE "open"]
    BY DEF LiteralInv
  <1>2. written.part = "object" /\ written \in LiteralWritten /\ written.value \in Seq(Nat)
    BY DEF Close, LiteralInv, LiteralWritten
  <1>3. text \in Seq(Unit) /\ <<"raw", quote>> \in Unit
    BY UnitsAre DEF LiteralInv
  <1>4. Read(quote, Tail(text)) = Between(written.value)
    BY <1>1, <1>2 DEF Whole, Between
  <1>5. text' = Append(text, <<"raw", quote>>) /\ written' = [written EXCEPT !.part = "after"]
    BY <1>1 DEF Close
  <1>6. /\ text' \in Seq(Unit) /\ text' # << >> /\ text'[1] = text[1]
        /\ Read(quote, Tail(text'))
             = ReadUnit(Read(quote, Tail(text)), quote, <<"raw", quote>>)
    <2> DEFINE unit == <<"raw", quote>>
    <2>1. unit \in Unit /\ text' = Append(text, unit)
      BY <1>3, <1>5
    <2> HIDE DEF unit
    <2>2. /\ text' \in Seq(Unit) /\ text' # << >> /\ text'[1] = text[1]
          /\ Read(quote, Tail(text')) = ReadUnit(Read(quote, Tail(text)), quote, unit)
      BY <1>3, <2>1, UnitIsAppended
    <2> QED BY <2>2 DEF unit
  <1>7. Read(quote, Tail(text')) = [out |-> written.value, hi |-> 0, end |-> "closed"]
    BY <1>2, <1>4, <1>6, QuoteIsRead
  <1>8. /\ written' \in LiteralWritten /\ written'.part = "after"
        /\ written'.value = written.value
    BY <1>2, <1>5 DEF LiteralWritten
  <1>9. (Whole)'
    BY <1>8 DEF Whole
  <1> QED BY <1>1, <1>6, <1>7, <1>8, <1>9 DEF LiteralInv

LEMMA AfterKeepsLiteral ==
  ASSUME LiteralInv, kind = "literal", After, text # << >>
  PROVE  LiteralInv'
  <1>1. PICK quote \in {34, 39} :
          /\ text[1] = <<"raw", quote>>
          /\ Read(quote, Tail(text)) = [out |-> written.value, hi |-> 0,
                                        end |-> IF Whole THEN "closed" ELSE "open"]
    BY DEF LiteralInv
  <1>2. written.part = "after" /\ written \in LiteralWritten /\ written.value \in Seq(Nat)
    BY DEF After, LiteralInv, LiteralWritten
  <1>3. PICK unit \in {<<"raw", 41>>, text[1]} : text' = Append(text, unit)
    BY DEF After
  <1>4. unit \in Unit /\ text \in Seq(Unit)
    <2>1. <<"raw", 41>> \in Unit /\ <<"raw", quote>> \in Unit
      BY UnitsAre
    <2> QED BY <1>1, <1>3, <2>1 DEF LiteralInv
  <1> DEFINE at == Read(quote, Tail(text))
  <1>5. at = [out |-> written.value, hi |-> 0, end |-> "closed"] /\ at.end = "closed"
    BY <1>1, <1>2 DEF Whole
  <1>6. /\ text' \in Seq(Unit) /\ text' # << >> /\ text'[1] = text[1]
        /\ Read(quote, Tail(text')) = ReadUnit(Read(quote, Tail(text)), quote, unit)
    <2>1. \A s : s = Append(text, unit) =>
            /\ s \in Seq(Unit) /\ s # << >> /\ s[1] = text[1]
            /\ Read(quote, Tail(s)) = ReadUnit(Read(quote, Tail(text)), quote, unit)
      BY ONLY <1>4, text # << >>, UnitIsAppended
    <2> QED BY <1>3, <2>1, Zenon
  <1>7. Read(quote, Tail(text')) = at
    <2>1. Read(quote, Tail(text')) = ReadUnit(at, quote, unit)
      BY <1>6
    <2> HIDE DEF at
    <2> QED BY <1>5, <2>1, PastTheQuote
  <1>8. /\ written' \in LiteralWritten /\ written'.part = "end"
        /\ written'.value = written.value
    BY <1>2 DEF After, LiteralWritten
  <1>9. (Whole)'
    BY <1>8 DEF Whole
  <1> QED BY <1>1, <1>5, <1>6, <1>7, <1>8, <1>9 DEF LiteralInv

-----------------------------------------------------------------------------
(* Every text *)

TextsInv ==
  /\ kind \in {"query", "script", "literal"}
  /\ kind = "script" => ScriptInv
  /\ kind = "literal" => LiteralInv

LEMMA TextsInvInit == Init => TextsInv
  <1> SUFFICES ASSUME Init PROVE TextsInv
    OBVIOUS
  <1>1. text = << >> /\ written = Nothing /\ kind \in {"query", "script", "literal"}
    BY DEF Init
  <1>2. ScriptInv
    <2>1. written \in ScriptWritten /\ written.part = "before"
      BY <1>1 DEF Nothing, ScriptWritten
    <2>2. text \in Seq(Symbol) /\ Unassigned(text)
      BY <1>1 DEF Unassigned
    <2> QED BY <2>1, <2>2 DEF ScriptInv
  <1>3. LiteralInv
    <2>1. written \in LiteralWritten
      BY <1>1 DEF Nothing, LiteralWritten
    <2> QED BY <1>1, <2>1 DEF LiteralInv
  <1> QED BY <1>1, <1>2, <1>3 DEF TextsInv

\* What is written of a literal is written after its opening quote.
LEMMA LiteralIsOpen ==
  ASSUME LiteralInv, written.part # "before"
  PROVE  text # << >>
  BY DEF LiteralInv, Nothing

LEMMA TextsInvNext == TextsInv /\ [Next]_vars => TextsInv'
  <1> SUFFICES ASSUME TextsInv, [Next]_vars PROVE TextsInv'
    OBVIOUS
  <1>1. kind \in {"query", "script", "literal"} /\ kind' = kind
    BY DEF TextsInv, Next, vars, Type, Mention, Assign, InString, InObject, Put,
           Open, Spell, Close, After
  <1>2. ASSUME kind = "script" PROVE ScriptInv'
    <2>1. ScriptInv
      BY <1>2 DEF TextsInv
    <2>2. CASE Mention
      BY <2>1, <2>2, MentionKeepsScript
    <2>3. CASE Assign
      BY <2>1, <2>3, AssignKeepsScript
    <2>4. CASE InString
      BY <2>1, <2>4, InStringKeepsScript
    <2>5. CASE InObject
      BY <2>1, <2>5, InObjectKeepsScript
    <2>6. CASE After
      BY <1>2, <2>1, <2>6, AfterKeepsScript
    <2>7. CASE UNCHANGED vars
      BY <2>1, <2>7 DEF vars, ScriptInv, ObjectRead, Whole
    <2>8. ~Type /\ ~Open /\ ~Spell /\ ~Close
      BY <1>2 DEF Type, Open, Spell, Close
    <2> QED BY <2>2, <2>3, <2>4, <2>5, <2>6, <2>7, <2>8 DEF Next
  <1>3. ASSUME kind = "literal" PROVE LiteralInv'
    <2>1. LiteralInv
      BY <1>3 DEF TextsInv
    <2>2. CASE Open
      BY <2>1, <2>2, OpenKeepsLiteral
    <2>3. CASE Spell
      BY <2>1, <2>3, LiteralIsOpen, SpellKeepsLiteral DEF Spell
    <2>4. CASE Close
      BY <2>1, <2>4, LiteralIsOpen, CloseKeepsLiteral DEF Close
    <2>5. CASE After
      BY <1>3, <2>1, <2>5, LiteralIsOpen, AfterKeepsLiteral DEF After
    <2>6. CASE UNCHANGED vars
      BY <2>1, <2>6 DEF vars, LiteralInv, Whole
    <2>7. ~Type /\ ~Mention /\ ~Assign /\ ~InString /\ ~InObject
      BY <1>3 DEF Type, Mention, Assign, InString, InObject
    <2> QED BY <2>2, <2>3, <2>4, <2>5, <2>6, <2>7 DEF Next
  <1> QED BY <1>1, <1>2, <1>3 DEF TextsInv

LEMMA TextsInvAlways == Spec => []TextsInv
  BY TextsInvInit, TextsInvNext, PTL DEF Spec

\* Whatever comes before the assignment, whatever the object holds and whatever
\* follows it, the object is found when it is whole and only then
\* (find_assignment, balanced_braces): for scripts of every length.
THEOREM StoreIsFound == Spec => []StoreFound
  <1>1. TextsInv => StoreFound
    BY ScriptIsRead DEF TextsInv, StoreFound
  <1> QED BY <1>1, TextsInvAlways, PTL

\* js_string_literal gives back what was written, for every sequence of code
\* points and every spelling of each: surrogates in pairs, escapes and plain
\* characters; before the closing quote it gives nothing.
THEOREM LiteralIsReadBack == Spec => []LiteralRead
  <1>1. TextsInv => LiteralRead
    BY LiteralIsRead DEF TextsInv, LiteralRead
  <1> QED BY <1>1, TextsInvAlways, PTL

==============================================================================
