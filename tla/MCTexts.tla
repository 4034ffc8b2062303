------------------------------ MODULE MCTexts ------------------------------
(***************************************************************************)
(* Three rows of zh_aliases.csv, one with the same form in both Chinese    *)
(* scripts and two whose pinyin forms are one typo apart.                  *)
(***************************************************************************)
EXTENDS Texts

MCRows ==
  <<[en |-> "Bach", simplified |-> "s-ba", traditional |-> "s-ba", pinyin |-> "bahe"],
    [en |-> "Overture", simplified |-> "s-xu", traditional |-> "t-xu", pinyin |-> "xuqu"],
    [en |-> "Suite", simplified |-> "s-zu", traditional |-> "t-zu", pinyin |-> "zuqu"]>>

MCLower == [Bach |-> "bach", Overture |-> "overture", Suite |-> "suite"]

\* A user may mistype: overtrue is near one form, wuqu near two.
MCWords ==
  {"Bach", "bach", "s-ba", "bahe", "Overture", "t-xu", "xuqu", "zuqu", "s-zu",
   "overtrue", "wuqu", "op"}

Lowers == {LowerOf(w) : w \in MCWords} \cup Forms

Four == {"bach", "bahe", "xuqu", "zuqu", "wuqu"}

MCLength ==
  [w \in Lowers |-> CASE w \in Four -> 4 [] w = "suite" -> 5
                      [] w \in {"overture", "overtrue"} -> 8 [] OTHER -> 2]

Near == {{"xuqu", "zuqu"}, {"wuqu", "xuqu"}, {"wuqu", "zuqu"},
         {"overture", "overtrue"}}

\* bach and bahe are two edits apart; all others are further.
MCDistance ==
  [v, w \in Lowers |-> CASE v = w -> 0 [] {v, w} \in Near -> 1
                         [] {v, w} = {"bach", "bahe"} -> 2 [] OTHER -> 4]

MCPreamble == {<<"store", "x">>, <<"store", "blank">>, <<"x", "eq", "lbrace">>, <<"dq">>}

\* The ends of the ranges that the reader tells apart: controls, the quotes,
\* the backslash and the slash, the last before and the first after the
\* surrogates, the first and the last of each high half.
MCScalars ==
  {8, 10, 34, 39, 47, 65, 92, 110, 55295, 57344, 65535,
   65536, 66559, 66560, 119070, 1114111}
============================================================================
