---------------------------- MODULE ListingsProofs ----------------------------
(***************************************************************************)
(* What the operators on listings return.  Gather, of which the others are *)
(* made, enumerates a finite set of positions by rank: ranks are one to    *)
(* one and onto the numbers up to the set's size.                          *)
(***************************************************************************)
EXTENDS Listings, FiniteSetTheorems, SequenceTheorems, WellFoundedInduction, TLAPS

-----------------------------------------------------------------------------
(* Numbers *)

\* Induction, with the property as a set: the theorems of NaturalsInduction take
\* it as an operator, which the provers cannot instantiate.
LEMMA SetInduction ==
  ASSUME NEW S, 0 \in S, \A n \in Nat : n \in S => n + 1 \in S
  PROVE  Nat \subseteq S
  <1> DEFINE T == Nat \ S
             R == OpToRel(<, Nat)
  <1>1. IsWellFoundedOn(R, Nat)
    BY NatLessThanWellFounded
  <1>2. R = {ss \in Nat \X Nat : ss[1] < ss[2]}
    BY DEF OpToRel
  <1>3. T \subseteq Nat
    OBVIOUS
  <1> HIDE DEF R
  <1>4. SUFFICES ASSUME T # {} PROVE FALSE
    OBVIOUS
  <1> HIDE DEF T
  <1>5. PICK x \in T : \A y \in T : <<y, x>> \notin R
    BY <1>1, <1>3, <1>4, WFMin
  <1>6. x \in Nat /\ x \notin S /\ x # 0
    BY DEF T
  <1>7. x - 1 \in Nat /\ (x - 1) + 1 = x /\ x - 1 < x
    BY <1>6
  <1>8. x - 1 \in T
    BY <1>6, <1>7 DEF T
  <1>9. <<x - 1, x>> \in R
    BY <1>2, <1>6, <1>7
  <1> QED BY <1>5, <1>8, <1>9

\* A set of numbers has a least one.
LEMMA LeastNumber ==
  ASSUME NEW S \in SUBSET Nat, S # {}
  PROVE  \E i \in S : \A j \in S : i <= j
  <1> DEFINE R == OpToRel(<, Nat)
  <1>1. IsWellFoundedOn(R, Nat)
    BY NatLessThanWellFounded
  <1>2. R = {ss \in Nat \X Nat : ss[1] < ss[2]}
    BY DEF OpToRel
  <1> HIDE DEF R
  <1>3. PICK x \in S : \A y \in S : <<y, x>> \notin R
    BY <1>1, WFMin
  <1>4. \A y \in S : y \in Nat
    OBVIOUS
  <1>5. ASSUME NEW y \in S PROVE x <= y
    <2>1. ~(y < x)
      BY <1>2, <1>3, <1>4
    <2> QED BY <1>4, <2>1
  <1> QED BY <1>5

-----------------------------------------------------------------------------
(* Sequences *)

\* A function on 1 .. n is a sequence of length n.
LEMMA FunctionIsSeq ==
  ASSUME NEW s, NEW n \in Nat, s = [i \in 1 .. n |-> s[i]]
  PROVE  IsSeq(s) /\ Len(s) = n /\ DOMAIN s = 1 .. n
  BY DEF IsSeq

LEMMA SeqIsFunction ==
  ASSUME NEW s, IsSeq(s)
  PROVE  Len(s) \in Nat /\ DOMAIN s = 1 .. Len(s)
         /\ s = [i \in 1 .. Len(s) |-> s[i]]
  BY DEF IsSeq

\* Sequences of the same length with the same entries are equal.
LEMMA SeqEquality ==
  ASSUME NEW s, NEW t, IsSeq(s), IsSeq(t), Len(s) = Len(t),
         \A i \in 1 .. Len(s) : s[i] = t[i]
  PROVE  s = t
  BY SeqIsFunction

LEMMA EmptySequence ==
  /\ IsSeq(<< >>) /\ Len(<< >>) = 0
  /\ \A s : DOMAIN s = {} /\ s = [i \in DOMAIN s |-> s[i]] => s = << >>
  <1>1. IsSeq(<< >>) /\ Len(<< >>) = 0
    BY DEF IsSeq
  <1>2. ASSUME NEW s, DOMAIN s = {}, s = [i \in DOMAIN s |-> s[i]]
        PROVE  s = << >>
    <2>1. s = [i \in 1 .. 0 |-> s[i]]
      BY <1>2
    <2>2. IsSeq(s) /\ Len(s) = 0
      BY <2>1, FunctionIsSeq
    <2> QED BY <1>1, <2>2, SeqEquality
  <1> QED BY <1>1, <1>2

\* A sequence cut to a limit.
LEMMA TakeProperties ==
  ASSUME NEW s, IsSeq(s), NEW n \in Nat
  PROVE  /\ IsSeq(Take(s, n))
         /\ Len(Take(s, n)) = IF n < Len(s) THEN n ELSE Len(s)
         /\ DOMAIN Take(s, n) = 1 .. Len(Take(s, n))
         /\ \A i \in 1 .. Len(Take(s, n)) : Take(s, n)[i] = s[i]
  <1> DEFINE m == IF n < Len(s) THEN n ELSE Len(s)
  <1>1. m \in Nat /\ Len(s) \in Nat /\ DOMAIN s = 1 .. Len(s)
    BY SeqIsFunction
  <1>2. Take(s, n) = [i \in 1 .. m |-> s[i]]
    BY <1>1 DEF Take
  <1> QED BY <1>1, <1>2, FunctionIsSeq

LEMMA TakeOfTake ==
  ASSUME NEW s, IsSeq(s), NEW n \in Nat, NEW m \in Nat, m <= n
  PROVE  Take(Take(s, n), m) = Take(s, m)
  <1>1. Len(s) \in Nat
    BY SeqIsFunction
  <1>2. /\ IsSeq(Take(s, n)) /\ IsSeq(Take(s, m))
        /\ Len(Take(s, n)) = IF n < Len(s) THEN n ELSE Len(s)
        /\ Len(Take(s, m)) = IF m < Len(s) THEN m ELSE Len(s)
        /\ \A i \in 1 .. Len(Take(s, n)) : Take(s, n)[i] = s[i]
        /\ \A i \in 1 .. Len(Take(s, m)) : Take(s, m)[i] = s[i]
    BY TakeProperties
  <1>3. /\ IsSeq(Take(Take(s, n), m))
        /\ Len(Take(Take(s, n), m))
             = IF m < Len(Take(s, n)) THEN m ELSE Len(Take(s, n))
        /\ \A i \in 1 .. Len(Take(Take(s, n), m)) :
             Take(Take(s, n), m)[i] = Take(s, n)[i]
    BY <1>2, TakeProperties
  <1>4. Len(Take(Take(s, n), m)) = Len(Take(s, m))
        /\ Len(Take(s, m)) <= Len(Take(s, n))
    BY <1>1, <1>2, <1>3
  <1>5. \A i \in 1 .. Len(Take(s, m)) : Take(Take(s, n), m)[i] = Take(s, m)[i]
    BY <1>1, <1>2, <1>3, <1>4
  <1> QED BY <1>2, <1>3, <1>4, <1>5, SeqEquality

LEMMA TakeAll ==
  ASSUME NEW s, IsSeq(s), NEW n \in Nat, Len(s) <= n
  PROVE  Take(s, n) = s
  BY SeqIsFunction, TakeProperties, SeqEquality

LEMMA Concatenation ==
  ASSUME NEW s, NEW t, IsSeq(s), IsSeq(t)
  PROVE  s \o t = [i \in 1 .. Len(s) + Len(t) |->
                     IF i <= Len(s) THEN s[i] ELSE t[i - Len(s)]]
  <1> DEFINE S == {s[i] : i \in DOMAIN s} \cup {t[i] : i \in DOMAIN t}
  <1>1. s \in Seq(S) /\ t \in Seq(S)
    BY DEF IsSeq
  <1> HIDE DEF S
  <1>2. /\ s \o t \in Seq(S)
        /\ Len(s \o t) = Len(s) + Len(t)
        /\ \A i \in 1 .. Len(s) + Len(t) :
             (s \o t)[i] = IF i <= Len(s) THEN s[i] ELSE t[i - Len(s)]
    BY <1>1, ConcatProperties
  <1>3. ASSUME NEW u \in Seq(S) PROVE u = [i \in 1 .. Len(u) |-> u[i]]
    OBVIOUS
  <1>4. s \o t = [i \in 1 .. Len(s \o t) |-> (s \o t)[i]]
    BY ONLY <1>2, <1>3, Zenon
  <1> QED BY <1>2, <1>4

\* The beginning of a sequence, followed by what a longer beginning has past it.
LEMMA TakeThenRest ==
  ASSUME NEW s, IsSeq(s), NEW m \in Nat, NEW n \in Nat, m <= n
  PROVE  Take(s, m) \o SubSeq(Take(s, n), m + 1, Len(Take(s, n))) = Take(s, n)
  <1> DEFINE t == Take(s, n)
             b == Take(s, m)
             r == SubSeq(t, m + 1, Len(t))
  <1>1. Len(s) \in Nat
    BY SeqIsFunction
  <1>2. /\ IsSeq(t) /\ IsSeq(b)
        /\ Len(t) = IF n < Len(s) THEN n ELSE Len(s)
        /\ Len(b) = IF m < Len(s) THEN m ELSE Len(s)
        /\ \A i \in 1 .. Len(t) : t[i] = s[i]
        /\ \A i \in 1 .. Len(b) : b[i] = s[i]
    BY TakeProperties
  <1>3. Len(t) \in Nat /\ Len(b) \in Nat /\ Len(b) <= Len(t)
        /\ DOMAIN t = 1 .. Len(t) /\ DOMAIN b = 1 .. Len(b)
        /\ t = [i \in 1 .. Len(t) |-> t[i]] /\ b = [i \in 1 .. Len(b) |-> b[i]]
    BY <1>1, <1>2, SeqIsFunction
  <1>4. r = [i \in 1 .. Len(t) - Len(b) |-> t[Len(b) + i]]
    <2> HIDE DEF t, b
    <2>1. CASE m < Len(s)
      BY <1>1, <1>2, <1>3, <2>1
    <2>2. CASE ~(m < Len(s))
      <3>1. Len(t) - Len(b) = 0 /\ Len(t) < m + 1
        BY <1>1, <1>2, <2>2
      <3> QED BY <1>3, <3>1
    <2> QED BY <2>1, <2>2
  <1>5. b \o r = [i \in 1 .. Len(t) |-> t[i]]
    <2> HIDE DEF t, b, r
    <2>1. IsSeq(r) /\ Len(r) = Len(t) - Len(b)
          /\ \A i \in 1 .. Len(r) : r[i] = t[Len(b) + i]
      <3>1. Len(t) - Len(b) \in Nat
        BY <1>3
      <3>2. r = [i \in 1 .. Len(t) - Len(b) |-> r[i]]
        BY <1>4
      <3>3. IsSeq(r) /\ Len(r) = Len(t) - Len(b)
            /\ DOMAIN r = 1 .. Len(t) - Len(b)
        BY <3>1, <3>2, FunctionIsSeq
      <3> QED BY <1>4, <3>1, <3>3
    <2>2. b \o r = [i \in 1 .. Len(b) + Len(r) |->
                      IF i <= Len(b) THEN b[i] ELSE r[i - Len(b)]]
      BY <1>2, <2>1, Concatenation
    <2>3. Len(b) + Len(r) = Len(t)
      BY <1>3, <2>1
    <2>4. ASSUME NEW i \in 1 .. Len(t)
          PROVE  (IF i <= Len(b) THEN b[i] ELSE r[i - Len(b)]) = t[i]
      <3>1. CASE i <= Len(b)
        BY <1>2, <1>3, <3>1
      <3>2. CASE ~(i <= Len(b))
        <4>1. i - Len(b) \in 1 .. Len(r) /\ Len(b) + (i - Len(b)) = i
          BY <1>3, <2>1, <3>2
        <4> QED BY <2>1, <3>2, <4>1
      <3> QED BY <3>1, <3>2
    <2> QED BY <2>2, <2>3, <2>4
  <1> QED BY <1>3, <1>5

-----------------------------------------------------------------------------
(* Ranks *)

Rank(P, x) == Cardinality(Upto(P, x))

Finite(P) == P \in SUBSET (Nat \X Nat) /\ IsFiniteSet(P)

\* The order of the positions is total.
LEMMA BeforeIsTotal ==
  ASSUME NEW x \in Nat \X Nat, NEW y \in Nat \X Nat
  PROVE  /\ x = y \/ Before(x, y) \/ Before(y, x)
         /\ ~(Before(x, y) /\ Before(y, x)) /\ ~Before(x, x)
         /\ \A z \in Nat \X Nat : Before(x, y) /\ Before(y, z) => Before(x, z)
  BY DEF Before

LEMMA RankBounds ==
  ASSUME NEW P, Finite(P), NEW x \in P
  PROVE  /\ Cardinality(P) \in Nat
         /\ Rank(P, x) \in 1 .. Cardinality(P)
         /\ IsFiniteSet(Upto(P, x)) /\ x \in Upto(P, x)
  <1>1. Upto(P, x) \in SUBSET P /\ x \in Upto(P, x)
    BY BeforeIsTotal DEF Upto, Finite
  <1>2. IsFiniteSet(Upto(P, x)) /\ Cardinality(Upto(P, x)) <= Cardinality(P)
    BY <1>1, FS_Subset DEF Finite
  <1>3. Cardinality(P) \in Nat /\ Cardinality(Upto(P, x)) \in Nat
    BY <1>2, FS_CardinalityType DEF Finite
  <1>4. Cardinality(Upto(P, x)) # 0
    BY <1>1, <1>2, FS_EmptySet
  <1> QED BY <1>1, <1>2, <1>3, <1>4 DEF Rank

\* A later position has a larger rank.
LEMMA RankGrows ==
  ASSUME NEW P, Finite(P), NEW x \in P, NEW y \in P, Before(x, y)
  PROVE  Rank(P, x) < Rank(P, y)
  <1>1. P \subseteq Nat \X Nat
    BY DEF Finite
  <1>2. Upto(P, x) \in SUBSET (Upto(P, y) \ {y})
    BY <1>1, BeforeIsTotal DEF Upto
  <1>3. IsFiniteSet(Upto(P, y)) /\ y \in Upto(P, y) /\ Rank(P, y) \in Nat
        /\ Rank(P, x) \in Nat
    BY RankBounds
  <1>4. IsFiniteSet(Upto(P, y) \ {y})
        /\ Cardinality(Upto(P, y) \ {y}) = Rank(P, y) - 1
    BY <1>3, FS_RemoveElement DEF Rank
  <1>5. Rank(P, x) <= Cardinality(Upto(P, y) \ {y})
    BY <1>2, <1>4, FS_Subset DEF Rank
  <1> QED BY <1>3, <1>4, <1>5

LEMMA RankIsInjective ==
  ASSUME NEW P, Finite(P), NEW x \in P, NEW y \in P, Rank(P, x) = Rank(P, y)
  PROVE  x = y
  <1>1. x \in Nat \X Nat /\ y \in Nat \X Nat
    BY DEF Finite
  <1>2. Rank(P, x) \in Nat /\ Rank(P, y) \in Nat
    BY RankBounds
  <1>3. ~Before(x, y) /\ ~Before(y, x)
    BY <1>2, RankGrows
  <1> QED BY <1>1, <1>3, BeforeIsTotal

\* Every number up to the size of P is the rank of one of its positions.
LEMMA RankIsOnto ==
  ASSUME NEW P, Finite(P), NEW n \in 1 .. Cardinality(P)
  PROVE  \E x \in P : Rank(P, x) = n
  <1> DEFINE r == [x \in P |-> Rank(P, x)]
             N == 1 .. Cardinality(P)
  <1>1. Cardinality(P) \in Nat
    BY FS_CardinalityType DEF Finite
  <1>2. IsFiniteSet(N) /\ Cardinality(N) = Cardinality(P)
    BY <1>1, FS_Interval
  <1>3. r \in Injection(P, N)
    BY RankBounds, RankIsInjective DEF Injection, IsInjective
  <1>4. r \in Surjection(P, N)
    BY <1>2, <1>3, FS_Injection
  <1> QED BY <1>4 DEF Surjection

LEMMA GatherProperties ==
  ASSUME NEW groups, NEW P, Finite(P)
  PROVE  /\ IsSeq(Gather(groups, P))
         /\ Len(Gather(groups, P)) = Cardinality(P)
         /\ DOMAIN Gather(groups, P) = 1 .. Cardinality(P)
         /\ Cardinality(P) \in Nat
         /\ \A n \in 1 .. Cardinality(P) :
              \E x \in P : /\ Rank(P, x) = n
                           /\ Gather(groups, P)[n] = At(groups, x)
  <1>1. Cardinality(P) \in Nat
    BY FS_CardinalityType DEF Finite
  <1>2. Gather(groups, P) = [n \in 1 .. Cardinality(P) |-> Gather(groups, P)[n]]
    BY DEF Gather
  <1>3. ASSUME NEW n \in 1 .. Cardinality(P)
        PROVE  \E x \in P : /\ Rank(P, x) = n
                            /\ Gather(groups, P)[n] = At(groups, x)
    <2> DEFINE x == CHOOSE x \in P : Cardinality(Upto(P, x)) = n
    <2>1. \E z \in P : Cardinality(Upto(P, z)) = n
      BY RankIsOnto DEF Rank
    <2>2. x \in P /\ Rank(P, x) = n
      BY <2>1 DEF Rank
    <2>3. Gather(groups, P)[n] = At(groups, x)
      BY DEF Gather
    <2> QED BY <2>2, <2>3
  <1> QED BY <1>1, <1>2, <1>3, FunctionIsSeq

\* The positions of sequences are finitely many.
LEMMA PositionsAreFinite ==
  ASSUME NEW groups, IsSeq(groups), \A g \in DOMAIN groups : IsSeq(groups[g])
  PROVE  Finite(Positions(groups))
  <1> DEFINE S == {{g} \X DOMAIN groups[g] : g \in DOMAIN groups}
             f == [g \in DOMAIN groups |-> {g} \X DOMAIN groups[g]]
  <1>1. Len(groups) \in Nat /\ DOMAIN groups = 1 .. Len(groups)
    BY SeqIsFunction
  <1>2. \A g \in DOMAIN groups : /\ Len(groups[g]) \in Nat
                                 /\ DOMAIN groups[g] = 1 .. Len(groups[g])
    BY SeqIsFunction
  <1>3. IsFiniteSet(DOMAIN groups)
    BY <1>1, FS_Interval
  <1>4. IsFiniteSet(S)
    <2>1. f \in Surjection(DOMAIN groups, S)
      BY DEF Surjection
    <2> QED BY <1>3, <2>1, FS_Surjection
  <1>5. ASSUME NEW T \in S PROVE IsFiniteSet(T)
    <2>1. PICK g \in DOMAIN groups : T = {g} \X DOMAIN groups[g]
      OBVIOUS
    <2>2. IsFiniteSet(DOMAIN groups[g]) /\ IsFiniteSet({g})
      <3>1. 1 \in Int /\ Len(groups[g]) \in Int
        BY <1>2
      <3>2. IsFiniteSet(1 .. Len(groups[g]))
        BY <3>1, FS_Interval
      <3> QED BY <1>2, <3>2, FS_Singleton, Zenon
    <2> QED BY <2>1, <2>2, FS_Product
  <1>6. IsFiniteSet(UNION S)
    BY <1>4, <1>5, FS_UNION
  <1>7. UNION S \subseteq Nat \X Nat
    BY <1>1, <1>2
  <1> QED BY <1>6, <1>7 DEF Positions, Finite

LEMMA PositionsAre ==
  ASSUME NEW groups, IsSeq(groups), \A g \in DOMAIN groups : IsSeq(groups[g]),
         NEW x
  PROVE  x \in Positions(groups) <=>
           /\ x = <<x[1], x[2]>>
           /\ x[1] \in DOMAIN groups /\ x[2] \in DOMAIN groups[x[1]]
  BY DEF Positions

LEMMA SubsetIsFinite ==
  ASSUME NEW P, Finite(P), NEW Q \in SUBSET P
  PROVE  Finite(Q)
  BY FS_Subset DEF Finite

-----------------------------------------------------------------------------
(* The entries that are kept *)

\* A list that is filtered: entry n comes from the index f[n].
LEMMA KeptProperties ==
  ASSUME NEW s, IsSeq(s), NEW I \in SUBSET DOMAIN s
  PROVE  /\ IsSeq(Kept(s, I))
         /\ \E f \in [DOMAIN Kept(s, I) -> I] :
              /\ \A n \in DOMAIN Kept(s, I) : Kept(s, I)[n] = s[f[n]]
              /\ \A n, m \in DOMAIN Kept(s, I) : f[n] = f[m] => n = m
  <1> DEFINE P == {1} \X I
             k == Kept(s, I)
  <1>1. Len(s) \in Nat /\ DOMAIN s = 1 .. Len(s)
    BY SeqIsFunction
  <1>2. Finite(P)
    <2>1. IsFiniteSet(I)
      <3>1. IsFiniteSet(1 .. Len(s))
        BY <1>1, FS_Interval
      <3> QED BY <1>1, <3>1, FS_Subset
    <2>2. IsFiniteSet(P)
      BY <2>1, FS_Singleton, FS_Product
    <2> QED BY <1>1, <2>2 DEF Finite
  <1> HIDE DEF P
  <1>3. k = Gather(<<s>>, P)
    BY DEF Kept, P
  <1> HIDE DEF k
  <1>4. /\ IsSeq(k) /\ DOMAIN k = 1 .. Cardinality(P)
        /\ \A n \in DOMAIN k : \E x \in P : /\ Rank(P, x) = n
                                            /\ k[n] = At(<<s>>, x)
    BY <1>2, <1>3, GatherProperties
  <1>5. \A n \in DOMAIN k : \E i \in I : Rank(P, <<1, i>>) = n /\ k[n] = s[i]
    <2> SUFFICES ASSUME NEW n \in DOMAIN k
                 PROVE  \E i \in I : Rank(P, <<1, i>>) = n /\ k[n] = s[i]
      OBVIOUS
    <2>1. PICK x \in P : Rank(P, x) = n /\ k[n] = At(<<s>>, x)
      BY <1>4
    <2>2. x = <<1, x[2]>> /\ x[2] \in I
      BY DEF P
    <2>3. At(<<s>>, x) = s[x[2]]
      BY <2>2 DEF At
    <2> QED BY <2>1, <2>2, <2>3, Zenon
  <1> DEFINE f == [n \in DOMAIN k |-> CHOOSE i \in I : /\ Rank(P, <<1, i>>) = n
                                                       /\ k[n] = s[i]]
  <1>6. \A n \in DOMAIN k : /\ f[n] \in I /\ Rank(P, <<1, f[n]>>) = n
                            /\ k[n] = s[f[n]]
    BY <1>5
  <1>7. f \in [DOMAIN k -> I]
    BY <1>6
  <1> HIDE DEF f
  <1>8. /\ \A n \in DOMAIN k : k[n] = s[f[n]]
        /\ \A n, m \in DOMAIN k : f[n] = f[m] => n = m
    BY <1>6
  <1> QED BY <1>4, <1>7, <1>8 DEF k

\* A filter that rejects nothing.
LEMMA KeptAll ==
  ASSUME NEW s, IsSeq(s)
  PROVE  Kept(s, DOMAIN s) = s
  <1> DEFINE P == {1} \X DOMAIN s
             k == Gather(<<s>>, P)
  <1>1. Len(s) \in Nat /\ DOMAIN s = 1 .. Len(s)
    BY SeqIsFunction
  <1>2. ASSUME NEW n \in 0 .. Len(s)
        PROVE  /\ IsFiniteSet({1} \X (1 .. n))
               /\ Cardinality({1} \X (1 .. n)) = n
    <2>1. IsFiniteSet(1 .. n) /\ Cardinality(1 .. n) = n
      BY <1>1, FS_Interval
    <2>2. IsFiniteSet({1}) /\ Cardinality({1}) = 1
      BY FS_Singleton
    <2>3. /\ IsFiniteSet({1} \X (1 .. n))
          /\ Cardinality({1} \X (1 .. n)) = Cardinality({1}) * Cardinality(1 .. n)
      BY <2>1, <2>2, FS_Product
    <2> QED BY <1>1, <2>1, <2>2, <2>3
  <1>3. Finite(P) /\ Cardinality(P) = Len(s)
    <2>1. Len(s) \in 0 .. Len(s) /\ P = {1} \X (1 .. Len(s))
      BY <1>1
    <2>2. IsFiniteSet(P) /\ Cardinality(P) = Len(s)
      <3> HIDE DEF P
      <3> QED BY <1>2, <2>1
    <2>3. P \in SUBSET (Nat \X Nat)
      BY <1>1
    <2> QED BY <2>2, <2>3 DEF Finite
  <1>4. \A x \in P : x = <<1, x[2]>> /\ x[2] \in 1 .. Len(s)
                     /\ At(<<s>>, x) = s[x[2]]
    BY <1>1 DEF At
  <1>5. ASSUME NEW x \in P PROVE Rank(P, x) = x[2]
    <2>1. Upto(P, x) = {1} \X (1 .. x[2])
      BY <1>1, <1>4 DEF Upto, Before
    <2>2. x[2] \in 0 .. Len(s)
      BY <1>1, <1>4
    <2>3. Cardinality({1} \X (1 .. x[2])) = x[2]
      BY <1>2, <2>2
    <2> QED BY <2>1, <2>3 DEF Rank
  <1> HIDE DEF P
  <1>6. /\ IsSeq(k) /\ Len(k) = Len(s) /\ DOMAIN k = 1 .. Len(s)
        /\ \A n \in DOMAIN k : \E x \in P : Rank(P, x) = n /\ k[n] = At(<<s>>, x)
    <2>1. Cardinality(P) \in Nat
      BY <1>1, <1>3
    <2> QED BY <1>1, <1>3, <2>1, GatherProperties, SeqIsFunction
  <1> HIDE DEF k
  <1>7. \A n \in 1 .. Len(k) : k[n] = s[n]
    BY <1>4, <1>5, <1>6
  <1> QED BY <1>6, <1>7, SeqEquality DEF Kept, k, P

==============================================================================
