-------------------------- MODULE SourceSearchProofs --------------------------
(***************************************************************************)
(* What each source answers, and that a list merged from answers that were *)
(* cut to a limit is the beginning of the list merged from the whole       *)
(* answers.                                                                *)
(***************************************************************************)
EXTENDS SourceSearch, ListingsProofs

-----------------------------------------------------------------------------
(* The first of each card *)

\* Every position has a first one with its card.
LEMMA FirstExists ==
  ASSUME NEW groups, Finite(Positions(groups)), NEW z \in Positions(groups)
  PROVE  \E y \in Firsts(groups) : /\ Same(At(groups, y), At(groups, z))
                                   /\ y = z \/ Before(y, z)
  <1> DEFINE P == {y \in Positions(groups) : Same(At(groups, y), At(groups, z))}
  <1>1. Finite(P)
    BY SubsetIsFinite
  <1>2. z \in P
    BY DEF Same
  <1>3. Cardinality(P) \in Nat /\ 1 \in 1 .. Cardinality(P)
    BY <1>1, <1>2, RankBounds
  <1>4. PICK y \in P : Rank(P, y) = 1
    BY <1>1, <1>3, RankIsOnto
  <1>5. ASSUME NEW w \in P PROVE ~Before(w, y)
    <2>1. Rank(P, w) \in 1 .. Cardinality(P)
      BY <1>1, RankBounds
    <2> QED BY <1>1, <1>3, <1>4, <2>1, RankGrows
  <1>6. y \in Firsts(groups)
    <2> SUFFICES ASSUME NEW w \in Positions(groups), Before(w, y),
                        Same(At(groups, w), At(groups, y))
                 PROVE  FALSE
      BY DEF Firsts
    <2>1. w \in P
      BY DEF Same
    <2> QED BY <1>5, <2>1
  <1>7. y = z \/ Before(y, z)
    <2>1. y \in Nat \X Nat /\ z \in Nat \X Nat
      BY DEF Finite
    <2> QED BY <1>2, <1>5, <2>1, BeforeIsTotal
  <1> QED BY <1>6, <1>7

\* No card twice.
NoRepeats(s) == \A i, j \in DOMAIN s : Same(s[i], s[j]) => i = j

\* Two first positions have different cards.
LEMMA FirstsDiffer ==
  ASSUME NEW groups, Finite(Positions(groups)),
         NEW x \in Firsts(groups), NEW y \in Firsts(groups),
         Same(At(groups, x), At(groups, y))
  PROVE  x = y
  <1>1. x \in Nat \X Nat /\ y \in Nat \X Nat
    BY DEF Finite, Firsts
  <1>2. Same(At(groups, y), At(groups, x))
    BY DEF Same
  <1>3. ~Before(x, y) /\ ~Before(y, x)
    BY <1>2 DEF Firsts
  <1> QED BY <1>1, <1>3, BeforeIsTotal

\* So what is gathered from first positions has no card twice.
LEMMA GatheredOnce ==
  ASSUME NEW groups, Finite(Positions(groups)), NEW P \in SUBSET Firsts(groups)
  PROVE  NoRepeats(Gather(groups, P))
  <1>1. Finite(P)
    BY SubsetIsFinite DEF Firsts
  <1> DEFINE s == Gather(groups, P)
  <1>2. \A n \in DOMAIN s : \E x \in P : Rank(P, x) = n /\ s[n] = At(groups, x)
    BY <1>1, GatherProperties
  <1> HIDE DEF s
  <1> SUFFICES ASSUME NEW i \in DOMAIN s, NEW j \in DOMAIN s, Same(s[i], s[j])
               PROVE  i = j
    BY DEF NoRepeats, s
  <1>3. PICK x \in P : Rank(P, x) = i /\ s[i] = At(groups, x)
    BY <1>2
  <1>4. PICK y \in P : Rank(P, y) = j /\ s[j] = At(groups, y)
    BY <1>2
  <1> QED BY <1>3, <1>4, FirstsDiffer

-----------------------------------------------------------------------------
(* Merging *)

\* A position that comes after n entries of some group that are different
\* cards has a rank past n.
LEMMA Crowded ==
  ASSUME NEW groups, Finite(Positions(groups)), NEW n \in Nat,
         NEW g \in DOMAIN groups, NoRepeats(groups[g]),
         1 .. n \subseteq DOMAIN groups[g],
         NEW x \in Firsts(groups), \A i \in 1 .. n : Before(<<g, i>>, x)
  PROVE  Rank(Firsts(groups), x) > n
  <1> DEFINE F == Firsts(groups)
             U == Upto(F, x) \ {x}
             z(i) == <<g, i>>
  <1>1. Finite(F)
    BY SubsetIsFinite DEF Firsts
  <1>2. ASSUME NEW i \in 1 .. n
        PROVE  \E y \in U : Same(At(groups, y), groups[g][i])
    <2>1. z(i) \in Positions(groups) /\ At(groups, z(i)) = groups[g][i]
      BY DEF Positions, At
    <2>2. PICK y \in F : /\ Same(At(groups, y), groups[g][i])
                         /\ y = z(i) \/ Before(y, z(i))
      BY <2>1, FirstExists
    <2>3. y \in Nat \X Nat /\ x \in Nat \X Nat /\ z(i) \in Nat \X Nat
      BY <2>1 DEF Finite, Firsts
    <2>4. Before(z(i), x)
      OBVIOUS
    <2> HIDE DEF z
    <2>5. Before(y, x)
      BY <2>2, <2>3, <2>4, BeforeIsTotal
    <2>6. ~Before(x, y) /\ y # x
      BY <2>3, <2>5, BeforeIsTotal
    <2> QED BY <2>2, <2>6 DEF Upto
  <1> DEFINE h == [i \in 1 .. n |-> CHOOSE y \in U :
                                      Same(At(groups, y), groups[g][i])]
  <1>3. \A i \in 1 .. n : h[i] \in U /\ Same(At(groups, h[i]), groups[g][i])
    BY <1>2
  <1>4. h \in Injection(1 .. n, U)
    <2>1. ASSUME NEW i \in 1 .. n, NEW j \in 1 .. n, h[i] = h[j] PROVE i = j
      <3>1. Same(At(groups, h[i]), groups[g][i])
            /\ Same(At(groups, h[i]), groups[g][j])
        BY <1>3, <2>1
      <3>2. Same(groups[g][i], groups[g][j])
        BY <3>1 DEF Same
      <3> QED BY <3>2 DEF NoRepeats
    <2>2. h \in [1 .. n -> U]
      BY <1>3
    <2> HIDE DEF h
    <2> QED BY <2>1, <2>2 DEF Injection, IsInjective
  <1>5. /\ IsFiniteSet(Upto(F, x)) /\ x \in Upto(F, x)
        /\ Rank(F, x) \in Nat
    BY <1>1, RankBounds
  <1>6. IsFiniteSet(U) /\ Cardinality(U) = Rank(F, x) - 1
    BY <1>5, FS_RemoveElement DEF Rank
  <1>7. Cardinality(1 .. n) <= Cardinality(U)
    BY <1>4, <1>6, FS_Injection
  <1>8. Cardinality(1 .. n) = n
    BY FS_Interval
  <1> QED BY <1>5, <1>6, <1>7, <1>8

\* A gathering depends, up to n, on the positions of rank up to n alone.
LEMMA GatherPrefix ==
  ASSUME NEW B, NEW C, NEW P, NEW Q, Finite(P), Finite(Q), NEW n \in Nat,
         \A x \in P : Rank(P, x) <= n =>
           x \in Q /\ Rank(Q, x) = Rank(P, x) /\ At(B, x) = At(C, x),
         \A x \in Q : Rank(Q, x) <= n =>
           x \in P /\ Rank(P, x) = Rank(Q, x)
  PROVE  Take(Gather(B, P), n) = Take(Gather(C, Q), n)
  <1> DEFINE b == Gather(B, P)
             c == Gather(C, Q)
  <1>1. /\ IsSeq(b) /\ Len(b) = Cardinality(P) /\ Cardinality(P) \in Nat
        /\ \A k \in 1 .. Cardinality(P) :
             \E x \in P : Rank(P, x) = k /\ b[k] = At(B, x)
    BY GatherProperties
  <1>2. /\ IsSeq(c) /\ Len(c) = Cardinality(Q) /\ Cardinality(Q) \in Nat
        /\ \A k \in 1 .. Cardinality(Q) :
             \E x \in Q : Rank(Q, x) = k /\ c[k] = At(C, x)
    BY GatherProperties
  <1> HIDE DEF b, c
  <1>3. ASSUME NEW k \in 1 .. n, k <= Cardinality(P)
        PROVE  k <= Cardinality(Q) /\ b[k] = c[k]
    <2>1. PICK x \in P : Rank(P, x) = k /\ b[k] = At(B, x)
      BY <1>1, <1>3
    <2>2. x \in Q /\ Rank(Q, x) = k /\ At(B, x) = At(C, x)
      BY <2>1
    <2>3. k <= Cardinality(Q)
      BY <1>2, <2>2, RankBounds
    <2>4. PICK y \in Q : Rank(Q, y) = k /\ c[k] = At(C, y)
      BY <1>2, <2>3
    <2>5. x = y
      BY <2>2, <2>4, RankIsInjective
    <2> QED BY <2>1, <2>2, <2>3, <2>4, <2>5
  <1>4. ASSUME NEW k \in 1 .. n, k <= Cardinality(Q)
        PROVE  k <= Cardinality(P)
    <2>1. PICK x \in Q : Rank(Q, x) = k
      BY <1>2, <1>4
    <2>2. x \in P /\ Rank(P, x) = k
      BY <2>1
    <2> QED BY <1>1, <2>2, RankBounds
  <1>5. /\ IsSeq(Take(b, n)) /\ IsSeq(Take(c, n))
        /\ Len(Take(b, n)) = IF n < Len(b) THEN n ELSE Len(b)
        /\ Len(Take(c, n)) = IF n < Len(c) THEN n ELSE Len(c)
        /\ \A i \in 1 .. Len(Take(b, n)) : Take(b, n)[i] = b[i]
        /\ \A i \in 1 .. Len(Take(c, n)) : Take(c, n)[i] = c[i]
    BY <1>1, <1>2, TakeProperties
  <1>6. Len(Take(b, n)) = Len(Take(c, n))
    <2>1. CASE Len(b) < Len(c) /\ Len(b) < n
      <3>1. Len(b) + 1 \in 1 .. n /\ Len(b) + 1 <= Cardinality(Q)
        BY <1>1, <1>2, <2>1
      <3> QED BY <1>1, <1>4, <3>1
    <2>2. CASE Len(c) < Len(b) /\ Len(c) < n
      <3>1. Len(c) + 1 \in 1 .. n /\ Len(c) + 1 <= Cardinality(P)
        BY <1>1, <1>2, <2>2
      <3> QED BY <1>2, <1>3, <3>1
    <2> QED BY <1>1, <1>2, <1>5, <2>1, <2>2
  <1>7. \A i \in 1 .. Len(Take(b, n)) : Take(b, n)[i] = Take(c, n)[i]
    BY <1>1, <1>2, <1>3, <1>5, <1>6
  <1> QED BY <1>5, <1>6, <1>7, SeqEquality DEF b, c

\* x comes after more than n entries of some group.
LateIn(groups, n, x) ==
  \E g \in DOMAIN groups : /\ n < Len(groups[g])
                           /\ g < x[1] \/ (g = x[1] /\ n < x[2])

\* A limited fan-out merges to the beginning of the unlimited one (public.rs,
\* 722-741, as the append slice of 798-806 needs it): when every answer is cut
\* to its first n results, none has a card twice, and the filters tell no two
\* of the results apart, the first n of the merged list are the same.
THEOREM MergedPrefix ==
  ASSUME NEW C, IsSeq(C),
         \A g \in DOMAIN C : IsSeq(C[g]) /\ NoRepeats(C[g]),
         NEW n \in Nat, NEW f,
         \/ \A x \in Positions(C) : PassesPostHoc(At(C, x), f)
         \/ \A x \in Positions(C) : ~PassesPostHoc(At(C, x), f)
  PROVE  Take(Merged([g \in DOMAIN C |-> Take(C[g], n)], f), n)
           = Take(Merged(C, f), n)
  <1> DEFINE B == [g \in DOMAIN C |-> Take(C[g], n)]
  <1>1. Len(C) \in Nat /\ DOMAIN C = 1 .. Len(C)
    BY SeqIsFunction
  <1>2. \A g \in DOMAIN C : /\ Len(C[g]) \in Nat
                            /\ DOMAIN C[g] = 1 .. Len(C[g])
    BY SeqIsFunction
  <1>3. ASSUME NEW g \in DOMAIN C
        PROVE  /\ IsSeq(B[g]) /\ NoRepeats(B[g])
               /\ DOMAIN B[g] = {i \in DOMAIN C[g] : i <= n}
               /\ Len(B[g]) = IF n < Len(C[g]) THEN n ELSE Len(C[g])
               /\ \A i \in DOMAIN B[g] : B[g][i] = C[g][i]
    <2> DEFINE b == Take(C[g], n)
    <2>1. /\ IsSeq(b) /\ DOMAIN b = 1 .. Len(b)
          /\ Len(b) = IF n < Len(C[g]) THEN n ELSE Len(C[g])
          /\ \A i \in 1 .. Len(b) : b[i] = C[g][i]
      BY TakeProperties
    <2>2. B[g] = b
      OBVIOUS
    <2> HIDE DEF b, B
    <2>3. DOMAIN b = {i \in DOMAIN C[g] : i <= n}
      BY <1>2, <2>1
    <2>4. NoRepeats(b)
      BY <2>1, <2>3 DEF NoRepeats
    <2> QED BY <2>1, <2>2, <2>3, <2>4
  <1>4. DOMAIN B = DOMAIN C /\ IsSeq(B)
    <2>1. B = [g \in 1 .. Len(C) |-> B[g]]
      BY <1>1
    <2> QED BY <1>1, <2>1, FunctionIsSeq
  <1> HIDE DEF B
  <1>5. /\ Finite(Positions(C)) /\ Finite(Positions(B))
        /\ Finite(Firsts(C)) /\ Finite(Firsts(B))
    <2>1. Finite(Positions(C)) /\ Finite(Positions(B))
      BY <1>3, <1>4, PositionsAreFinite
    <2> QED BY <2>1, SubsetIsFinite DEF Firsts
  <1>6. \A x : x \in Positions(B) <=> x \in Positions(C) /\ x[2] <= n
    BY <1>3, <1>4, PositionsAre
  <1>7. \A x \in Positions(B) : At(B, x) = At(C, x)
    BY <1>3, <1>4, PositionsAre DEF At
  <1>8. ASSUME NEW x \in Positions(C), ~LateIn(C, n, x),
               NEW y \in Positions(C), y = x \/ Before(y, x)
        PROVE  y \in Positions(B) /\ ~LateIn(C, n, y)
    <2>1. /\ y[1] \in DOMAIN C /\ y[2] \in DOMAIN C[y[1]]
          /\ x[1] \in DOMAIN C /\ x[2] \in DOMAIN C[x[1]]
      BY <1>4, PositionsAre
    <2>2. x[1] \in Nat /\ x[2] \in Nat /\ y[1] \in Nat /\ y[2] \in Nat
      BY <1>1, <1>2, <2>1
    <2>3. ~LateIn(C, n, y)
      <3> SUFFICES ASSUME NEW g \in DOMAIN C, n < Len(C[g]),
                          g < y[1] \/ (g = y[1] /\ n < y[2])
                   PROVE  g < x[1] \/ (g = x[1] /\ n < x[2])
        BY <1>8 DEF LateIn
      <3>1. g \in Nat
        BY <1>1
      <3> QED BY <1>8, <2>2, <3>1 DEF Before
    <2>4. y[2] <= n
      <3> SUFFICES ASSUME n < y[2] PROVE FALSE
        BY <2>2
      <3>1. n < Len(C[y[1]])
        BY <1>2, <2>1, <2>2
      <3> QED BY <2>1, <2>3, <3>1 DEF LateIn
    <2> QED BY <1>6, <2>3, <2>4
  <1>9. ASSUME NEW x \in Positions(C), ~LateIn(C, n, x)
        PROVE  x \in Firsts(B) <=> x \in Firsts(C)
    <2>1. x \in Positions(B) /\ At(B, x) = At(C, x)
      BY <1>7, <1>8, <1>9
    <2>2. \A y : y \in Positions(C) /\ Before(y, x) =>
                   y \in Positions(B) /\ At(B, y) = At(C, y)
      BY <1>7, <1>8, <1>9
    <2>3. \A y \in Positions(B) : y \in Positions(C)
      BY <1>6
    <2> QED BY <2>1, <2>2, <2>3 DEF Firsts
  <1>10. ASSUME NEW x \in Positions(C), ~LateIn(C, n, x)
         PROVE  Rank(Firsts(B), x) = Rank(Firsts(C), x)
    <2>1. \A y \in Positions(C) : y = x \/ Before(y, x) =>
            (y \in Firsts(B) <=> y \in Firsts(C))
      BY <1>8, <1>9, <1>10
    <2>2. Firsts(B) \subseteq Positions(C) /\ Firsts(C) \subseteq Positions(C)
          /\ Positions(C) \subseteq Nat \X Nat
      BY <1>5, <1>6 DEF Firsts, Finite
    <2>3. \A y \in Positions(C) : ~Before(x, y) => y = x \/ Before(y, x)
      BY <2>2, BeforeIsTotal
    <2>4. Upto(Firsts(B), x) = Upto(Firsts(C), x)
      BY <2>1, <2>2, <2>3 DEF Upto
    <2> QED BY <2>4 DEF Rank
  <1>11. ASSUME NEW D \in {B, C}, NEW x \in Firsts(D), LateIn(C, n, x)
         PROVE  n < Rank(Firsts(D), x)
    <2>1. PICK g \in DOMAIN C : /\ n < Len(C[g])
                                /\ g < x[1] \/ (g = x[1] /\ n < x[2])
      BY <1>11 DEF LateIn
    <2>2. 1 .. n \subseteq DOMAIN D[g] /\ g \in DOMAIN D /\ NoRepeats(D[g])
      <3>1. CASE D = B
        BY <1>2, <1>3, <1>4, <2>1, <3>1
      <3>2. CASE D = C
        BY <1>2, <2>1, <3>2
      <3> QED BY <3>1, <3>2
    <2>3. Finite(Positions(D))
      BY <1>5
    <2>4. x \in Nat \X Nat /\ g \in Nat
      BY <1>1, <2>3 DEF Firsts, Finite
    <2>5. \A i \in 1 .. n : Before(<<g, i>>, x)
      BY <2>1, <2>4 DEF Before
    <2> QED BY <2>2, <2>3, <2>5, Crowded
  <1>12. CASE \A x \in Positions(C) : PassesPostHoc(At(C, x), f)
    <2>1. Merged(B, f) = Gather(B, Firsts(B))
      <3>1. Firsts(B) = {x \in Firsts(B) : PassesPostHoc(At(B, x), f)}
        BY <1>6, <1>7, <1>12 DEF Firsts
      <3> QED BY <3>1 DEF Merged
    <2>2. Merged(C, f) = Gather(C, Firsts(C))
      <3>1. Firsts(C) = {x \in Firsts(C) : PassesPostHoc(At(C, x), f)}
        BY <1>12 DEF Firsts
      <3> QED BY <3>1 DEF Merged
    <2>3. \A x \in Firsts(B) : Rank(Firsts(B), x) <= n =>
            /\ x \in Firsts(C) /\ Rank(Firsts(C), x) = Rank(Firsts(B), x)
            /\ At(B, x) = At(C, x)
      <3> SUFFICES ASSUME NEW x \in Firsts(B), Rank(Firsts(B), x) <= n
                   PROVE  /\ x \in Firsts(C)
                          /\ Rank(Firsts(C), x) = Rank(Firsts(B), x)
                          /\ At(B, x) = At(C, x)
        OBVIOUS
      <3>1. x \in Positions(B) /\ x \in Positions(C)
        BY <1>6 DEF Firsts
      <3>2. Rank(Firsts(B), x) \in Nat
        BY <1>5, RankBounds
      <3>3. ~LateIn(C, n, x)
        BY <1>11, <3>2
      <3> QED BY <1>7, <1>9, <1>10, <3>1, <3>3
    <2>4. \A x \in Firsts(C) : Rank(Firsts(C), x) <= n =>
            /\ x \in Firsts(B) /\ Rank(Firsts(B), x) = Rank(Firsts(C), x)
      <3> SUFFICES ASSUME NEW x \in Firsts(C), Rank(Firsts(C), x) <= n
                   PROVE  /\ x \in Firsts(B)
                          /\ Rank(Firsts(B), x) = Rank(Firsts(C), x)
        OBVIOUS
      <3>1. x \in Positions(C)
        BY DEF Firsts
      <3>2. Rank(Firsts(C), x) \in Nat
        BY <1>5, RankBounds
      <3>3. ~LateIn(C, n, x)
        BY <1>11, <3>2
      <3> QED BY <1>9, <1>10, <3>1, <3>3
    <2> HIDE DEF B
    <2>5. Take(Gather(B, Firsts(B)), n) = Take(Gather(C, Firsts(C)), n)
      BY <1>5, <2>3, <2>4, GatherPrefix
    <2> QED BY <2>1, <2>2, <2>5 DEF B
  <1>13. CASE \A x \in Positions(C) : ~PassesPostHoc(At(C, x), f)
    <2>1. Merged(B, f) = Gather(B, {}) /\ Merged(C, f) = Gather(C, {})
      <3>1. {x \in Firsts(B) : PassesPostHoc(At(B, x), f)} = {}
        BY <1>6, <1>7, <1>13 DEF Firsts
      <3>2. {x \in Firsts(C) : PassesPostHoc(At(C, x), f)} = {}
        BY <1>13 DEF Firsts
      <3> QED BY <3>1, <3>2 DEF Merged
    <2>2. Gather(B, {}) = Gather(C, {})
      <3>1. 1 .. Cardinality({}) = {}
        BY FS_EmptySet
      <3> QED BY <3>1 DEF Gather
    <2> QED BY <2>1, <2>2 DEF B
  <1> QED BY <1>12, <1>13

-----------------------------------------------------------------------------
(* The answers *)

LEMMA TakeSelects ==
  ASSUME NEW s, IsSeq(s), NEW n \in Nat
  PROVE  /\ IsSeq(Take(s, n))
         /\ \A i \in DOMAIN Take(s, n) : i \in DOMAIN s /\ Take(s, n)[i] = s[i]
         /\ NoRepeats(s) => NoRepeats(Take(s, n))
  <1>1. Len(s) \in Nat /\ DOMAIN s = 1 .. Len(s)
    BY SeqIsFunction
  <1>2. /\ IsSeq(Take(s, n))
        /\ Len(Take(s, n)) = IF n < Len(s) THEN n ELSE Len(s)
        /\ DOMAIN Take(s, n) = 1 .. Len(Take(s, n))
        /\ \A i \in 1 .. Len(Take(s, n)) : Take(s, n)[i] = s[i]
    BY TakeProperties
  <1>3. \A i \in DOMAIN Take(s, n) : i \in DOMAIN s /\ Take(s, n)[i] = s[i]
    BY <1>1, <1>2
  <1> QED BY <1>2, <1>3 DEF NoRepeats

\* The public-domain sources tell no score from another.
PublicDomain(r, s) ==
  r.source = s /\ r.level = 0 /\ r.pd = "yes" /\ r.official = "unknown"

LEMMA ImslpAnswer ==
  ASSUME NEW listing, IsSeq(listing), NEW instrument, NEW limit \in Nat,
         \A i, j \in DOMAIN listing : listing[i].id = listing[j].id => i = j
  PROVE  LET r == ImslpSearch(listing, instrument, limit)
         IN  IsSeq(r) /\ NoRepeats(r)
             /\ \A i \in DOMAIN r : PublicDomain(r[i], "imslp")
  <1> DEFINE asked == Take(listing, ImslpAsks(instrument, limit))
             I == {i \in DOMAIN asked :
                     /\ Usable(asked[i])
                     /\ instrument \in asked[i].names \cup {NoInstrument}}
             works == Kept(asked, I)
             r == [i \in DOMAIN works |->
                     Result("imslp", works[i], 0, "yes", "unknown")]
  <1>1. ImslpAsks(instrument, limit) \in Nat
    BY DEF ImslpAsks
  <1>2. /\ IsSeq(asked)
        /\ \A i \in DOMAIN asked : i \in DOMAIN listing
                                   /\ asked[i] = listing[i]
    BY <1>1, TakeSelects
  <1> HIDE DEF asked
  <1>3. I \in SUBSET DOMAIN asked
    OBVIOUS
  <1> HIDE DEF I
  <1>4. PICK f \in [DOMAIN works -> I] :
          /\ \A n \in DOMAIN works : works[n] = asked[f[n]]
          /\ \A n, m \in DOMAIN works : f[n] = f[m] => n = m
    BY <1>2, <1>3, KeptProperties
  <1>5. IsSeq(works)
    BY <1>2, <1>3, KeptProperties
  <1> HIDE DEF works
  <1>6. \A i, j \in DOMAIN works : works[i].id = works[j].id => i = j
    BY <1>2, <1>3, <1>4
  <1>7. IsSeq(r)
    <2>1. Len(works) \in Nat /\ DOMAIN works = 1 .. Len(works)
      BY <1>5, SeqIsFunction
    <2>2. r = [i \in 1 .. Len(works) |-> r[i]]
      BY <2>1
    <2> QED BY <2>1, <2>2, FunctionIsSeq
  <1>8. NoRepeats(r)
    BY <1>6 DEF NoRepeats, Same, Result
  <1>9. \A i \in DOMAIN r : PublicDomain(r[i], "imslp")
    BY DEF PublicDomain, Result
  <1>10. ImslpSearch(listing, instrument, limit) = Take(r, limit)
    BY DEF ImslpSearch, works, I, asked
  <1> HIDE DEF r
  <1>11. /\ IsSeq(Take(r, limit)) /\ NoRepeats(Take(r, limit))
         /\ \A i \in DOMAIN Take(r, limit) : i \in DOMAIN r
                                             /\ Take(r, limit)[i] = r[i]
    BY <1>7, <1>8, TakeSelects
  <1> QED BY <1>9, <1>10, <1>11

LEMMA MutopiaAnswer ==
  ASSUME NEW listing, IsSeq(listing), NEW instrument, NEW limit \in Nat
  PROVE  LET r == MutopiaSearch(listing, instrument, limit)
         IN  IsSeq(r) /\ NoRepeats(r)
             /\ \A i \in DOMAIN r : PublicDomain(r[i], "mutopia")
  <1> DEFINE I == {i \in DOMAIN listing :
                     /\ Usable(listing[i])
                     /\ instrument \in listing[i].names \cup {NoInstrument}}
             pieces == Kept(listing, I)
             all == [i \in DOMAIN pieces |->
                       Result("mutopia", pieces[i], 0, "yes", "unknown")]
             groups == <<all>>
             r == Gather(groups, Firsts(groups))
  <1>1. I \in SUBSET DOMAIN listing
    OBVIOUS
  <1> HIDE DEF I
  <1>2. IsSeq(pieces)
    BY <1>1, KeptProperties
  <1> HIDE DEF pieces
  <1>3. IsSeq(all)
    <2>1. Len(pieces) \in Nat /\ DOMAIN pieces = 1 .. Len(pieces)
      BY <1>2, SeqIsFunction
    <2>2. all = [i \in 1 .. Len(pieces) |-> all[i]]
      BY <2>1
    <2> QED BY <2>1, <2>2, FunctionIsSeq
  <1>4. \A i \in DOMAIN all : PublicDomain(all[i], "mutopia")
    BY DEF PublicDomain, Result
  <1>5. MutopiaSearch(listing, instrument, limit) = Take(r, limit)
    BY DEF MutopiaSearch, pieces, I
  <1> HIDE DEF all
  <1>6. IsSeq(groups) /\ DOMAIN groups = {1} /\ groups[1] = all
    BY DEF IsSeq
  <1> HIDE DEF groups
  <1>7. Finite(Positions(groups))
    BY <1>3, <1>6, PositionsAreFinite
  <1>8. NoRepeats(r)
    BY <1>7, GatheredOnce
  <1>9. \A x \in Firsts(groups) : PublicDomain(At(groups, x), "mutopia")
    BY <1>3, <1>4, <1>6, PositionsAre DEF Firsts, At
  <1>10. Finite(Firsts(groups))
    BY <1>7, SubsetIsFinite DEF Firsts
  <1>11. IsSeq(r) /\ \A n \in DOMAIN r : \E x \in Firsts(groups) :
                       r[n] = At(groups, x)
    BY <1>10, GatherProperties
  <1> HIDE DEF r
  <1>12. /\ IsSeq(Take(r, limit)) /\ NoRepeats(Take(r, limit))
         /\ \A i \in DOMAIN Take(r, limit) : i \in DOMAIN r
                                             /\ Take(r, limit)[i] = r[i]
    BY <1>8, <1>11, TakeSelects
  <1> QED BY <1>5, <1>9, <1>11, <1>12

LEMMA UgAnswer ==
  ASSUME NEW listing, IsSeq(listing), NEW shape, NEW instrument,
         NEW limit \in Nat
  PROVE  LET r == UgSearch(listing, shape, instrument, limit)
         IN  IsSeq(r) /\ \A i \in DOMAIN r : r[i].source = "ultimate-guitar"
  <1> DEFINE I == {i \in DOMAIN listing : Usable(listing[i])}
             tabs == Kept(listing, I)
             r == [i \in DOMAIN tabs |->
                     Result("ultimate-guitar", tabs[i], 0, "no", "unknown")]
  <1>1. IsSeq(tabs)
    <2>1. I \in SUBSET DOMAIN listing
      OBVIOUS
    <2> HIDE DEF I
    <2> QED BY <2>1, KeptProperties
  <1>2. UgSearch(listing, shape, instrument, limit)
          = IF instrument \notin {NoInstrument, Guitar} \/ shape = "neither"
            THEN << >>
            ELSE Take(r, limit)
    BY DEF UgSearch
  <1> HIDE DEF tabs
  <1>3. IsSeq(r)
    <2>1. Len(tabs) \in Nat /\ DOMAIN tabs = 1 .. Len(tabs)
      BY <1>1, SeqIsFunction
    <2>2. r = [i \in 1 .. Len(tabs) |-> r[i]]
      BY <2>1
    <2> QED BY <2>1, <2>2, FunctionIsSeq
  <1>4. \A i \in DOMAIN r : r[i].source = "ultimate-guitar"
    BY DEF Result
  <1> HIDE DEF r
  <1>5. /\ IsSeq(Take(r, limit))
        /\ \A i \in DOMAIN Take(r, limit) : i \in DOMAIN r
                                            /\ Take(r, limit)[i] = r[i]
    BY <1>3, TakeSelects
  <1>6. IsSeq(<< >>) /\ DOMAIN << >> = {}
    BY DEF IsSeq
  <1> QED BY <1>2, <1>4, <1>5, <1>6

LEMMA MuseScoreAnswer ==
  ASSUME NEW listing, IsSeq(listing), NEW shape, NEW instrument,
         NEW limit \in Nat
  PROVE  LET r == MuseScoreSearch(listing, shape, instrument, limit)
         IN  IsSeq(r) /\ \A i \in DOMAIN r : r[i].source = "musescore"
  <1> DEFINE I == {i \in DOMAIN listing :
                     instrument \in listing[i].names \cup {NoInstrument}}
             scores == Kept(listing, I)
             Score(e) == IF shape = "json"
                         THEN Result("musescore", e, e.level, e.pd, e.official)
                         ELSE Result("musescore", e, 0, "unknown", "unknown")
             r == [i \in DOMAIN scores |-> Score(scores[i])]
  <1>1. IsSeq(scores)
    <2>1. I \in SUBSET DOMAIN listing
      OBVIOUS
    <2> HIDE DEF I
    <2> QED BY <2>1, KeptProperties
  <1>2. MuseScoreSearch(listing, shape, instrument, limit)
          = IF shape = "neither" THEN << >> ELSE Take(r, limit)
    BY DEF MuseScoreSearch
  <1> HIDE DEF scores
  <1>3. IsSeq(r)
    <2>1. Len(scores) \in Nat /\ DOMAIN scores = 1 .. Len(scores)
      BY <1>1, SeqIsFunction
    <2>2. r = [i \in 1 .. Len(scores) |-> r[i]]
      BY <2>1
    <2> QED BY <2>1, <2>2, FunctionIsSeq
  <1>4. \A i \in DOMAIN r : r[i].source = "musescore"
    BY DEF Result
  <1> HIDE DEF r
  <1>5. /\ IsSeq(Take(r, limit))
        /\ \A i \in DOMAIN Take(r, limit) : i \in DOMAIN r
                                            /\ Take(r, limit)[i] = r[i]
    BY <1>3, TakeSelects
  <1>6. IsSeq(<< >>) /\ DOMAIN << >> = {}
    BY DEF IsSeq
  <1> QED BY <1>2, <1>4, <1>5, <1>6

\* Whatever a source answers is a sequence of results of that source.
LEMMA AnswerOfSource ==
  ASSUME NEW s \in {"imslp", "mutopia", "musescore", "ultimate-guitar"},
         NEW listing, IsSeq(listing), NEW shape, NEW instrument,
         NEW limit \in Nat,
         s = "imslp" =>
           \A i, j \in DOMAIN listing : listing[i].id = listing[j].id => i = j
  PROVE  LET r == Search(s, listing, shape, instrument, limit)
         IN  /\ IsSeq(r) /\ \A i \in DOMAIN r : r[i].source = s
             /\ s \in {"imslp", "mutopia"} =>
                  NoRepeats(r) /\ \A i \in DOMAIN r : PublicDomain(r[i], s)
  <1>1. CASE s = "imslp"
    <2>1. Search(s, listing, shape, instrument, limit)
            = ImslpSearch(listing, instrument, limit)
      BY <1>1 DEF Search
    <2> QED BY <1>1, <2>1, ImslpAnswer DEF PublicDomain
  <1>2. CASE s = "mutopia"
    <2>1. Search(s, listing, shape, instrument, limit)
            = MutopiaSearch(listing, instrument, limit)
      BY <1>2 DEF Search
    <2> QED BY <1>2, <2>1, MutopiaAnswer DEF PublicDomain
  <1>3. CASE s = "musescore"
    <2>1. Search(s, listing, shape, instrument, limit)
            = MuseScoreSearch(listing, shape, instrument, limit)
      BY <1>3 DEF Search
    <2> QED BY <1>3, <2>1, MuseScoreAnswer
  <1>4. CASE s = "ultimate-guitar"
    <2>1. Search(s, listing, shape, instrument, limit)
            = UgSearch(listing, shape, instrument, limit)
      BY <1>4 DEF Search
    <2> QED BY <1>4, <2>1, UgAnswer
  <1> QED BY <1>1, <1>2, <1>3, <1>4

\* Mutopia sends all it has, whatever the limit.
LEMMA MutopiaPrefix ==
  ASSUME NEW listing, IsSeq(listing), NEW instrument, NEW limit \in Nat,
         NEW n \in Nat, n <= limit
  PROVE  MutopiaSearch(listing, instrument, n)
           = Take(MutopiaSearch(listing, instrument, limit), n)
  <1> DEFINE I == {i \in DOMAIN listing :
                     /\ Usable(listing[i])
                     /\ instrument \in listing[i].names \cup {NoInstrument}}
             pieces == Kept(listing, I)
             all == [i \in DOMAIN pieces |->
                       Result("mutopia", pieces[i], 0, "yes", "unknown")]
             groups == <<all>>
             r == Gather(groups, Firsts(groups))
  <1>1. I \in SUBSET DOMAIN listing
    OBVIOUS
  <1> HIDE DEF I
  <1>2. Len(pieces) \in Nat /\ DOMAIN pieces = 1 .. Len(pieces)
    BY <1>1, KeptProperties, SeqIsFunction
  <1> HIDE DEF pieces
  <1>3. IsSeq(all)
    <2>1. all = [i \in 1 .. Len(pieces) |-> all[i]]
      BY <1>2
    <2> QED BY <1>2, <2>1, FunctionIsSeq
  <1> HIDE DEF all
  <1>4. IsSeq(groups) /\ DOMAIN groups = {1} /\ groups[1] = all
    BY DEF IsSeq
  <1> HIDE DEF groups
  <1>5. Finite(Firsts(groups))
    <2>1. Finite(Positions(groups))
      BY <1>3, <1>4, PositionsAreFinite
    <2> QED BY <2>1, SubsetIsFinite DEF Firsts
  <1>6. IsSeq(r)
    BY <1>5, GatherProperties
  <1>7. \A m : MutopiaSearch(listing, instrument, m) = Take(r, m)
    BY DEF MutopiaSearch, pieces, I, all, groups
  <1> HIDE DEF r
  <1> QED BY <1>6, <1>7, TakeOfTake

\* IMSLP is asked for a number of entries and filters them itself: only when
\* its filter rejects none does a larger number leave the first ones as they are.
LEMMA ImslpPrefix ==
  ASSUME NEW listing, IsSeq(listing), NEW instrument, NEW limit \in Nat,
         NEW n \in Nat, n <= limit,
         \A i \in DOMAIN listing :
           /\ Usable(listing[i])
           /\ instrument \in listing[i].names \cup {NoInstrument}
  PROVE  ImslpSearch(listing, instrument, n)
           = Take(ImslpSearch(listing, instrument, limit), n)
  <1> DEFINE R(e) == Result("imslp", e, 0, "yes", "unknown")
             all == [i \in DOMAIN listing |-> R(listing[i])]
  <1>1. Len(listing) \in Nat /\ DOMAIN listing = 1 .. Len(listing)
    BY SeqIsFunction
  <1> HIDE DEF R
  <1>2. IsSeq(all) /\ Len(all) = Len(listing) /\ DOMAIN all = 1 .. Len(listing)
    <2>1. all = [i \in 1 .. Len(listing) |-> all[i]]
      BY <1>1
    <2> QED BY <1>1, <2>1, FunctionIsSeq
  <1>3. \A i \in 1 .. Len(listing) : all[i] = R(listing[i])
    BY <1>1
  <1> HIDE DEF all
  <1>4. ASSUME NEW m \in Nat
        PROVE  ImslpSearch(listing, instrument, m) = Take(all, m)
    <2> DEFINE a == ImslpAsks(instrument, m)
               asked == Take(listing, a)
               r == [i \in DOMAIN asked |-> R(asked[i])]
    <2>1. a \in Nat /\ m <= a
      BY DEF ImslpAsks
    <2> HIDE DEF a
    <2>2. /\ IsSeq(asked) /\ DOMAIN asked = 1 .. Len(asked)
          /\ Len(asked) = IF a < Len(listing) THEN a ELSE Len(listing)
          /\ \A i \in 1 .. Len(asked) : asked[i] = listing[i]
      BY <2>1, TakeProperties
    <2> HIDE DEF asked
    <2>3. {i \in DOMAIN asked :
             /\ Usable(asked[i])
             /\ instrument \in asked[i].names \cup {NoInstrument}} = DOMAIN asked
      BY <1>1, <2>1, <2>2
    <2>4. Kept(asked, {i \in DOMAIN asked :
                         /\ Usable(asked[i])
                         /\ instrument \in asked[i].names \cup {NoInstrument}})
            = asked
      BY <2>2, <2>3, KeptAll
    <2>5. ImslpSearch(listing, instrument, m) = Take(r, m)
      BY <2>4 DEF ImslpSearch, asked, a, R
    <2>6. r = Take(all, a)
      <3>1. /\ IsSeq(Take(all, a))
            /\ Len(Take(all, a)) = Len(asked)
            /\ \A i \in 1 .. Len(asked) : Take(all, a)[i] = all[i]
        BY <1>2, <2>1, <2>2, TakeProperties
      <3>2. Len(asked) \in Nat /\ Len(asked) <= Len(listing)
        BY <1>1, <2>1, <2>2
      <3>3. r = [i \in 1 .. Len(asked) |-> r[i]]
            /\ \A i \in 1 .. Len(asked) : r[i] = R(asked[i])
        BY <2>2
      <3> HIDE DEF r
      <3>4. IsSeq(r) /\ Len(r) = Len(asked)
        BY <3>2, <3>3, FunctionIsSeq
      <3>5. ASSUME NEW i \in 1 .. Len(asked) PROVE r[i] = Take(all, a)[i]
        <4>1. i \in 1 .. Len(listing)
          BY <1>1, <3>2
        <4>2. r[i] = R(asked[i]) /\ asked[i] = listing[i]
          BY <2>2, <3>3
        <4>3. Take(all, a)[i] = R(listing[i])
          BY <1>3, <3>1, <4>1
        <4> QED BY <4>2, <4>3
      <3> QED BY <3>1, <3>4, <3>5, SeqEquality
    <2> QED BY <1>2, <2>1, <2>5, <2>6, TakeOfTake
  <1> QED BY <1>2, <1>4, TakeOfTake

\* A merged list holds results of its groups.
LEMMA MergedProperties ==
  ASSUME NEW groups, IsSeq(groups), \A g \in DOMAIN groups : IsSeq(groups[g]),
         NEW f
  PROVE  /\ IsSeq(Merged(groups, f))
         /\ \A n \in DOMAIN Merged(groups, f) :
              \E g \in DOMAIN groups : \E i \in DOMAIN groups[g] :
                Merged(groups, f)[n] = groups[g][i]
  <1> DEFINE P == {x \in Firsts(groups) : PassesPostHoc(At(groups, x), f)}
  <1>1. Finite(P)
    <2>1. Finite(Positions(groups))
      BY PositionsAreFinite
    <2> QED BY <2>1, SubsetIsFinite DEF Firsts
  <1>2. P \subseteq Positions(groups)
    BY DEF Firsts
  <1> HIDE DEF P
  <1>3. /\ IsSeq(Gather(groups, P))
        /\ \A n \in DOMAIN Gather(groups, P) :
             \E x \in P : Gather(groups, P)[n] = At(groups, x)
    BY <1>1, GatherProperties
  <1>4. \A x \in P : /\ x[1] \in DOMAIN groups /\ x[2] \in DOMAIN groups[x[1]]
                     /\ At(groups, x) = groups[x[1]][x[2]]
    BY <1>2, PositionsAre DEF At
  <1>5. Merged(groups, f) = Gather(groups, P)
    BY DEF Merged, P
  <1> QED BY <1>3, <1>4, <1>5

==============================================================================
