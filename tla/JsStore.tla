------------------------------- MODULE JsStore -------------------------------
(***************************************************************************)
(* How the Ultimate Guitar source reads the page's data out of its script  *)
(* (src/sources/ultimate_guitar.rs, extract_js_store and its helpers).  A  *)
(* script is a sequence of symbols: "store" is window.UGAPP.store, "dq",   *)
(* "sq" and "bs" are the two quotes and the backslash.  A string literal   *)
(* is the sequence of its units: <<"raw", c>> a character, <<"esc", c>> a  *)
(* backslash and one, <<"u", v>> backslash, u and four hex digits.         *)
(***************************************************************************)
EXTENDS Integers, Sequences

CONSTANT None

\* x is any other.
Symbol == {"store", "eq", "blank", "lbrace", "rbrace", "dq", "sq", "bs", "x"}

ASSUME NoneAssumption == None \notin Seq(Symbol)

TrimStart(s) ==
  LET ink == {i \in DOMAIN s : s[i] # "blank"}
  IN  IF ink = {} THEN << >>
      ELSE SubSeq(s, CHOOSE i \in ink : \A j \in ink : i <= j, Len(s))

\* What follows the first mention of the store that is an assignment.
FindAssignment(html) ==
  LET Rest(i) == TrimStart(SubSeq(html, i + 1, Len(html)))
      at == {i \in DOMAIN html : html[i] = "store" /\ Rest(i) # << >> /\ Rest(i)[1] = "eq"}
  IN  IF at = {} THEN None
      ELSE Tail(Rest(CHOOSE i \in at : \A j \in at : i <= j))

Quotes == {"dq", "sq"}

\* (Mutant of Closes) Any quote ends a string.
ClosesAny(quote, c) == c \in Quotes

Closes(quote, c) == c = quote

\* One turn of the loop of balanced_braces, from the first brace on.
Scan(at, c) ==
  CASE at.done -> at
    [] ~at.done /\ at.quote # "none" ->
         [at EXCEPT !.len = @ + 1,
                    !.escaped = ~@ /\ c = "bs",
                    !.quote = IF ~at.escaped /\ Closes(@, c) THEN "none" ELSE @]
    [] ~at.done /\ at.quote = "none" ->
         LET depth == IF c = "lbrace" THEN at.depth + 1
                      ELSE IF c = "rbrace" THEN at.depth - 1 ELSE at.depth
         IN  [at EXCEPT !.len = @ + 1, !.depth = depth,
                        !.quote = IF c \in Quotes THEN c ELSE "none",
                        !.done = c = "rbrace" /\ depth = 0]

AtBrace == [len |-> 0, depth |-> 0, quote |-> "none", escaped |-> FALSE, done |-> FALSE]

\* Where the loop stands after each number of symbols.
Scans(s) ==
  LET at[n \in 0 .. Len(s)] == IF n = 0 THEN AtBrace ELSE Scan(at[n - 1], s[n])
  IN  at

BalancedBraces(s) ==
  LET braces == {i \in DOMAIN s : s[i] = "lbrace"}
      start == CHOOSE i \in braces : \A j \in braces : i <= j
      rest == SubSeq(s, start, Len(s))
      end == Scans(rest)[Len(rest)]
  IN  IF braces = {} \/ ~end.done THEN None ELSE SubSeq(rest, 1, end.len)

\* The store, from the script that a browser has run (variant 2).
StoreOfScript(html) ==
  LET rhs == FindAssignment(html)
  IN  IF rhs = None THEN None ELSE BalancedBraces(TrimStart(rhs))

-----------------------------------------------------------------------------
(* String literals (variant 3, JSON.parse("...")). *)

\* What a backslash and c stand for: n, r, t, b, f, or c itself.
ShortEscapes ==
  [c \in {110, 114, 116, 98, 102} |->
     CASE c = 110 -> 10 [] c = 114 -> 13 [] c = 116 -> 9 [] c = 98 -> 8 [] c = 102 -> 12]

Escaped(c) == IF c \in DOMAIN ShortEscapes THEN ShortEscapes[c] ELSE c

High(v) == v \in 55296 .. 56319            \* 0xD800 ..= 0xDBFF
Low(v) == v \in 56320 .. 57343             \* 0xDC00 ..= 0xDFFF

\* char::from_u32 accepts it.
IsScalar(v) == v <= 1114111 /\ ~High(v) /\ ~Low(v)

\* (Mutant of Combine) The pairs count from zero.
CombineFromZero(hi, lo) == (hi - 55296) * 1024 + (lo - 56320)

\* u32 arithmetic: the release build wraps where lo is no low surrogate, and
\* the sum wraps back, so the integers give the same value.
Combine(hi, lo) == 65536 + (hi - 55296) * 1024 + (lo - 56320)

\* One turn of the loop of js_string_literal: hi is a high surrogate that
\* waits for its other half.
ReadUnit(at, quote, unit) ==
  LET kind == unit[1]
      Push(c) == [at EXCEPT !.out = Append(@, c), !.hi = 0]
      bad == [at EXCEPT !.end = "bad"]
  IN  CASE at.end # "open" -> at
        [] at.end = "open" /\ at.hi # 0 ->
             IF kind = "u" /\ IsScalar(Combine(at.hi, unit[2]))
               THEN Push(Combine(at.hi, unit[2])) ELSE bad
        [] at.end = "open" /\ at.hi = 0 /\ kind = "raw" ->
             IF unit[2] = quote THEN [at EXCEPT !.end = "closed"] ELSE Push(unit[2])
        [] at.end = "open" /\ at.hi = 0 /\ kind = "esc" -> Push(Escaped(unit[2]))
        [] at.end = "open" /\ at.hi = 0 /\ kind = "u" ->
             IF High(unit[2]) THEN [at EXCEPT !.hi = unit[2]]
             ELSE IF IsScalar(unit[2]) THEN Push(unit[2]) ELSE bad

AtQuote == [out |-> << >>, hi |-> 0, end |-> "open"]

Reads(quote, units) ==
  LET at[n \in 0 .. Len(units)] ==
        IF n = 0 THEN AtQuote ELSE ReadUnit(at[n - 1], quote, units[n])
  IN  at

\* literal[1] must be the opening quote.
JsStringLiteral(literal) ==
  LET quote == literal[1][2]
      end == Reads(quote, Tail(literal))[Len(literal) - 1]
  IN  IF literal = << >> \/ literal[1][1] # "raw" \/ quote \notin {34, 39} THEN None
      ELSE IF end.end = "closed" THEN end.out ELSE None

==============================================================================
