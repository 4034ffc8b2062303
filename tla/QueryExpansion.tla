---------------------------- MODULE QueryExpansion ----------------------------
(***************************************************************************)
(* The expansion of a search query into the scripts its words are known in *)
(* (src/i18n/alias.rs, expand_query).  A query is the sequence of its      *)
(* tokens: tokenize has dropped the blanks and the punctuation.            *)
(***************************************************************************)
EXTENDS Listings

CONSTANTS
  Rows,      \* zh_aliases.csv: a sequence of rows, by script
  Lower,     \* to_lowercase of tokens, where it changes them
  Length,    \* characters of each lower-case token or form
  Distance,  \* Damerau-Levenshtein, of pairs of lower-case texts
  Unknown    \* no row

ASSUME RowsAssumption == IsSeq(Rows) /\ Unknown \notin DOMAIN Rows

Scripts == <<"en", "simplified", "traditional", "pinyin">>
Script == {Scripts[k] : k \in DOMAIN Scripts}

LowerOf(x) == IF x \in DOMAIN Lower THEN Lower[x] ELSE x

\* The keys of by_token, and the row of each: the first that has it.
Forms == {LowerOf(Rows[i][s]) : i \in DOMAIN Rows, s \in Script}

\* (Mutant of RowOf) The index has the English forms only.
RowOfEnglish(form) ==
  LET has == {i \in DOMAIN Rows : LowerOf(Rows[i]["en"]) = form}
  IN  IF has = {} THEN Unknown ELSE CHOOSE i \in has : \A j \in has : i <= j

RowOf(form) ==
  LET has == {i \in DOMAIN Rows : \E s \in Script : LowerOf(Rows[i][s]) = form}
  IN  CHOOSE i \in has : \A j \in has : i <= j

\* Typos are forgiven in tokens of four characters or more, one in four.  Of
\* the forms that are nearest, the one a hash map visits first is taken: which,
\* differs from one process to the next.
Fuzzy(token) ==
  LET most == IF Length[token] < 8 THEN 1 ELSE Length[token] \div 4
      near == {f \in Forms : Distance[token, f] <= most}
      best == {f \in near : \A g \in near : Distance[token, f] <= Distance[token, g]}
  IN  IF Length[token] < 4 \/ near = {} THEN {Unknown}
      ELSE {RowOf(f) : f \in best}

\* The rows lookup may find for a token.
Lookup(token) ==
  IF LowerOf(token) \in Forms THEN {RowOf(LowerOf(token))}
  ELSE Fuzzy(LowerOf(token))

Render(query, row, script) ==
  [i \in DOMAIN query |->
     IF row[query[i]] = Unknown THEN query[i] ELSE Rows[row[query[i]]][script]]

\* Each text once, in the order of the scripts.
Distinct(s) ==
  Kept(s, {i \in DOMAIN s : ~\E j \in DOMAIN s : j < i /\ s[j] = s[i]})

Tokens(query) == {query[i] : i \in DOMAIN query}

\* A query is searched for as it is when none of its tokens has a row.
Expanded(query, row) ==
  IF \A x \in Tokens(query) : row[x] = Unknown THEN <<query>>
  ELSE Distinct([k \in DOMAIN Scripts |-> Render(query, row, Scripts[k])])

\* One for each way the lookups of its tokens may turn out.
Lookups(query) ==
  {row \in [Tokens(query) -> DOMAIN Rows \cup {Unknown}] :
     \A x \in Tokens(query) : row[x] \in Lookup(x)}

Expansions(query) == {Expanded(query, row) : row \in Lookups(query)}

-----------------------------------------------------------------------------
\* No two rows share a form, as in zh_aliases.csv.
RowsApart ==
  \A i, j \in DOMAIN Rows : \A s, u \in Script :
    LowerOf(Rows[i][s]) = LowerOf(Rows[j][u]) => i = j

\* Whichever of a query's texts somebody types, in whatever script, the same
\* texts are searched for in the same order (src/i18n/alias.rs, lookup and
\* expand_query), corrected typos and words no row knows included.
TextsAgree(query) ==
  RowsApart =>
    \A e \in Expansions(query) : \A k \in DOMAIN e : Expansions(e[k]) = {e}

==============================================================================
