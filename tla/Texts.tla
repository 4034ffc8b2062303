------------------------------- MODULE Texts -------------------------------
(***************************************************************************)
(* The texts that this program takes apart, written one symbol at a time   *)
(* by those who write them: a query by its user (QueryExpansion), the      *)
(* script and the JSON text of an Ultimate Guitar page by that site        *)
(* (JsStore).  The writers follow the grammar of JSON and know what they   *)
(* have written; the properties compare that with what the code reads at   *)
(* every length of the text.                                               *)
(***************************************************************************)
EXTENDS QueryExpansion, JsStore

CONSTANTS
  Words,       \* what a user types
  MaxWords,
  Preamble,    \* pieces of script that may come before the assignment
  MaxBefore,
  MaxObject,   \* symbols of the object
  Scalars,     \* code points of the string literal
  MaxScalars

\* No piece assigns to the store, nor does a piece that follows another: the
\* last symbol before its sign is in the piece, and is not the store.
ASSUME PreambleAssumption ==
  \A piece \in Preamble :
    /\ piece \in Seq(Symbol)
    /\ \A j \in DOMAIN piece : piece[j] = "eq" =>
         \E i \in 1 .. j - 1 : /\ piece[i] \notin {"blank", "store"}
                               /\ \A k \in i + 1 .. j - 1 : piece[k] = "blank"

ASSUME ScalarsAssumption == Scalars \subseteq {v \in Nat : IsScalar(v)}

VARIABLES
  kind,     \* which text it is
  text,     \* the text so far
  written   \* what the writer knows of it

vars == <<kind, text, written>>

Nothing == [part |-> "before", value |-> << >>, depth |-> 0,
            quoted |-> FALSE, escaped |-> FALSE]

Init ==
  /\ kind \in {"query", "script", "literal"}
  /\ text = << >>
  /\ written = Nothing

-----------------------------------------------------------------------------
Type ==
  /\ kind = "query"
  /\ Len(text) < MaxWords
  /\ \E w \in Words : text' = Append(text, w)
  /\ UNCHANGED <<kind, written>>

-----------------------------------------------------------------------------
(* The script: other statements, store = { object }, other statements. *)

Mention ==
  /\ kind = "script" /\ written.part = "before"
  /\ \E piece \in Preamble :
       /\ Len(text) + Len(piece) <= MaxBefore
       /\ text' = text \o piece
  /\ UNCHANGED <<kind, written>>

Gap == {<< >>, <<"blank">>}

Assign ==
  /\ kind = "script" /\ written.part = "before"
  /\ \E left, right \in Gap :
       text' = text \o <<"store">> \o left \o <<"eq">> \o right \o <<"lbrace">>
  /\ written' = [Nothing EXCEPT !.part = "object", !.value = <<"lbrace">>, !.depth = 1]
  /\ UNCHANGED kind

Put(c) ==
  /\ text' = Append(text, c)
  /\ UNCHANGED kind

\* JSON puts strings in double quotes; in them a brace or an apostrophe is a
\* character like others, and what follows a backslash too.
InString ==
  /\ kind = "script" /\ written.part = "object" /\ written.quoted
  /\ Len(written.value) < MaxObject
  /\ \E c \in {"dq", "sq", "bs", "lbrace", "rbrace", "x"} :
       /\ Put(c)
       /\ written' = [written EXCEPT !.value = Append(@, c),
                                     !.escaped = c = "bs" /\ ~@,
                                     !.quoted = c # "dq" \/ written.escaped]

InObject ==
  /\ kind = "script" /\ written.part = "object" /\ ~written.quoted
  /\ Len(written.value) < MaxObject
  /\ \E c \in {"dq", "lbrace", "rbrace", "x"} :
       LET depth == CASE c = "lbrace" -> written.depth + 1
                      [] c = "rbrace" -> written.depth - 1
                      [] OTHER -> written.depth
       IN  /\ Put(c)
           /\ written' = [written EXCEPT !.value = Append(@, c), !.depth = depth,
                                         !.quoted = c = "dq",
                                         !.part = IF depth = 0 THEN "after" ELSE @]

-----------------------------------------------------------------------------
(* The literal: any code point may be written as an escape, and some must. *)

Open ==
  /\ kind = "literal" /\ text = << >>
  /\ \E quote \in {34, 39} : text' = <<<<"raw", quote>>>>
  /\ written' = [written EXCEPT !.part = "object"]
  /\ UNCHANGED kind

Spellings(v) ==
  LET plain == {v} \ ({92, text[1][2]} \cup 0 .. 31)
      short == {c \in DOMAIN ShortEscapes : ShortEscapes[c] = v}
                 \cup ({v} \cap {34, 39, 47, 92})
      units == IF v < 65536 THEN <<<<"u", v>>>>
               ELSE <<<<"u", 55296 + ((v - 65536) \div 1024)>>,
                      <<"u", 56320 + ((v - 65536) % 1024)>>>>
  IN  {<<<<"raw", c>>>> : c \in plain} \cup {<<<<"esc", c>>>> : c \in short}
        \cup {units}

Spell ==
  /\ kind = "literal" /\ written.part = "object"
  /\ Len(written.value) < MaxScalars
  /\ \E v \in Scalars : \E spelling \in Spellings(v) :
       /\ text' = text \o spelling
       /\ written' = [written EXCEPT !.value = Append(@, v)]
  /\ UNCHANGED kind

Close ==
  /\ kind = "literal" /\ written.part = "object"
  /\ text' = Append(text, text[1])
  /\ written' = [written EXCEPT !.part = "after"]
  /\ UNCHANGED kind

-----------------------------------------------------------------------------
After ==
  /\ kind # "query" /\ written.part = "after"
  /\ \E c \in IF kind = "script" THEN {"rbrace", "dq"}
              ELSE {<<"raw", 41>>, text[1]} :
       text' = Append(text, c)
  /\ written' = [written EXCEPT !.part = "end"]
  /\ UNCHANGED kind

Next ==
  \/ Type
  \/ Mention \/ Assign \/ InString \/ InObject
  \/ Open \/ Spell \/ Close
  \/ After

Spec == Init /\ [][Next]_vars

-----------------------------------------------------------------------------
Whole == written.part \in {"after", "end"}

\* From whichever of its texts a search is typed, in whatever script, the same
\* texts are searched for (src/i18n/alias.rs, lookup and expand_query).
AnyTextWillDo == kind = "query" => TextsAgree(text)

\* The store is found where it is assigned, not where it is mentioned, and it
\* is found whole, whatever its strings hold and whatever follows it; half an
\* object is never taken for one (find_assignment, balanced_braces).
StoreFound ==
  kind = "script" => StoreOfScript(text) = IF Whole THEN written.value ELSE None

\* Any text that is written as a literal is read back, however its characters
\* are spelled; an unfinished literal is none (js_string_literal).
LiteralRead ==
  kind = "literal" /\ text # << >> =>
    JsStringLiteral(text) = IF Whole THEN written.value ELSE None

============================================================================
