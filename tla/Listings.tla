------------------------------- MODULE Listings -------------------------------
(***************************************************************************)
(* Sequences as the search code makes them: a list cut to a limit          *)
(* (Vec::truncate), filtered (retain), and several joined into one in      *)
(* their order (flat_map, and the loops over the groups of the fan-out).   *)
(*                                                                         *)
(* All of them keep some positions of the given lists in the order of the  *)
(* positions, so that one operator without recursion, Gather, is enough    *)
(* for them, and one lemma in the proofs: entry n of its value is the one  *)
(* at the position of rank n.                                              *)
(***************************************************************************)
EXTENDS Naturals, Sequences, FiniteSets

\* s is a sequence.
IsSeq(s) == s \in Seq({s[i] : i \in DOMAIN s})

Take(s, n) == SubSeq(s, 1, IF n < Len(s) THEN n ELSE Len(s))

\* The positions <<g, i>> of groups, a sequence of sequences.
Positions(groups) == UNION {{g} \X DOMAIN groups[g] : g \in DOMAIN groups}

At(groups, x) == groups[x[1]][x[2]]

Before(x, y) == x[1] < y[1] \/ (x[1] = y[1] /\ x[2] < y[2])

Upto(P, x) == {y \in P : ~Before(x, y)}

\* The entries at the positions P, in the order of the positions.
Gather(groups, P) ==
  [n \in 1 .. Cardinality(P) |->
     At(groups, CHOOSE x \in P : Cardinality(Upto(P, x)) = n)]

Flatten(groups) == Gather(groups, Positions(groups))

\* The entries of s at the indices I.
Kept(s, I) == Gather(<<s>>, {1} \X I)

==============================================================================
