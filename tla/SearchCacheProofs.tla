-------------------------- MODULE SearchCacheProofs --------------------------
(***************************************************************************)
(* The invariants of SearchCache, for every set of searches and calls,     *)
(* every TTL and every clock bound.                                        *)
(*                                                                         *)
(* None of the invariants that the runs check is inductive by itself: that *)
(* an answer is recent depends on what a task carries between two awaits,  *)
(* and that on when it got it.  IInv adds those facts.                     *)
(***************************************************************************)
EXTENDS SearchCache, SequenceTheorems, TLAPS

-----------------------------------------------------------------------------
\* Two searches never share a row of the durable table.  l2_key joins the
\* fields from the left, the way format! writes them.  The proof groups the
\* same text from the right, as Join(source, Join(limit, Join(instrument,
\* query))), and reads one field back at a time: a text that holds no separator
\* ends at the first one.

\* Concatenation under a name of its own, so that the provers treat it as a
\* function they know only the cited facts of.
Cat(s, t) == s \o t

\* The text t, a separator, and the text rest.
Join(t, rest) == Cat(Cat(t, <<Sep>>), rest)

\* The elements of a concatenation, counted from each of its parts.
LEMMA CatElements ==
  ASSUME NEW s \in Seq(Char), NEW t \in Seq(Char)
  PROVE  /\ Cat(s, t) \in Seq(Char)
         /\ Len(Cat(s, t)) = Len(s) + Len(t)
         /\ \A i \in 1..Len(s) : Cat(s, t)[i] = s[i]
         /\ \A j \in 1..Len(t) : Cat(s, t)[Len(s) + j] = t[j]
<1>1. Len(s) \in Nat /\ Len(t) \in Nat
  OBVIOUS
<1>2. \A i \in 1..Len(s) + Len(t) :
        (s \o t)[i] = IF i <= Len(s) THEN s[i] ELSE t[i - Len(s)]
  BY ConcatProperties
<1>3. ASSUME NEW j \in 1..Len(t) PROVE (s \o t)[Len(s) + j] = t[j]
  <2>1. Len(s) + j \in 1..Len(s) + Len(t) /\ ~(Len(s) + j <= Len(s))
        /\ (Len(s) + j) - Len(s) = j
    BY <1>1
  <2> QED BY <1>2, <2>1
<1> QED BY <1>1, <1>2, <1>3, ConcatProperties DEF Cat

\* The characters of a join: those of the front, the separator, and those of
\* the rest.
LEMMA JoinElements ==
  ASSUME Sep \in Char, NEW t \in PlainText, NEW r \in Seq(Char)
  PROVE  /\ t \in Seq(Char)
         /\ Join(t, r) \in Seq(Char)
         /\ Len(Join(t, r)) = Len(t) + 1 + Len(r)
         /\ \A i \in 1..Len(t) : Join(t, r)[i] = t[i]
         /\ Join(t, r)[Len(t) + 1] = Sep
         /\ \A j \in 1..Len(r) : Join(t, r)[Len(t) + 1 + j] = r[j]
<1>1. t \in Seq(Char)
  BY SeqMonotonic DEF PlainText
<1>2. <<Sep>> \in Seq(Char) /\ Len(<<Sep>>) = 1 /\ <<Sep>>[1] = Sep
  OBVIOUS
<1> DEFINE p == <<Sep>>
           x == Cat(t, p)
<1>7. p \in Seq(Char) /\ Len(p) = 1 /\ p[1] = Sep
  BY <1>2
<1> HIDE DEF p
<1>3. /\ x \in Seq(Char)
      /\ Len(x) = Len(t) + 1
      /\ \A i \in 1..Len(t) : x[i] = t[i]
      /\ x[Len(t) + 1] = Sep
  <2>1. /\ x \in Seq(Char)
        /\ Len(x) = Len(t) + Len(p)
        /\ \A i \in 1..Len(t) : x[i] = t[i]
        /\ \A j \in 1..Len(p) : x[Len(t) + j] = p[j]
    BY <1>1, <1>7, CatElements
  <2>2. 1 \in 1..Len(p)
    BY <1>7
  <2> HIDE DEF x
  <2> QED BY <1>7, <2>1, <2>2
<1>4. Join(t, r) = Cat(x, r)
  BY DEF Join, p
<1> HIDE DEF x
<1>5. /\ Cat(x, r) \in Seq(Char)
      /\ Len(Cat(x, r)) = Len(x) + Len(r)
      /\ \A i \in 1..Len(x) : Cat(x, r)[i] = x[i]
      /\ \A j \in 1..Len(r) : Cat(x, r)[Len(x) + j] = r[j]
  BY <1>3, CatElements
<1>6. Len(t) \in Nat /\ Len(r) \in Nat
  BY <1>1
<1> QED BY <1>1, <1>3, <1>4, <1>5, <1>6

\* A plain text in front of a separator is never shorter than another one in
\* front of a separator of the same text.
LEMMA FrontNotShorter ==
  ASSUME Sep \in Char,
         NEW a \in PlainText, NEW b \in PlainText,
         NEW r \in Seq(Char), NEW s \in Seq(Char),
         Join(a, r) = Join(b, s)
  PROVE  ~(Len(a) < Len(b))
<1>1. SUFFICES ASSUME Len(a) < Len(b) PROVE FALSE
  OBVIOUS
<1>2. Len(a) \in Nat /\ Len(b) \in Nat
  BY DEF PlainText
<1>3. Len(a) + 1 \in 1..Len(b)
  BY <1>1, <1>2
<1>4. b[Len(a) + 1] \in Char \ {Sep}
  BY <1>3, ElementOfSeq DEF PlainText
<1>5. Join(b, s)[Len(a) + 1] = b[Len(a) + 1]
  BY <1>3, JoinElements
<1>6. Join(a, r)[Len(a) + 1] = Sep
  BY JoinElements
<1> QED BY <1>4, <1>5, <1>6

\* A plain text in front of a separator can be read back, and so can the rest.
LEMMA SplitAtSeparator ==
  ASSUME Sep \in Char,
         NEW a \in PlainText, NEW b \in PlainText,
         NEW r \in Seq(Char), NEW s \in Seq(Char),
         Join(a, r) = Join(b, s)
  PROVE  a = b /\ r = s
<1>1. Len(a) \in Nat /\ Len(b) \in Nat /\ Len(r) \in Nat /\ Len(s) \in Nat
  BY DEF PlainText
<1>2. ~(Len(a) < Len(b))
  BY FrontNotShorter
<1>3. ~(Len(b) < Len(a))
  BY FrontNotShorter
<1>4. Len(a) = Len(b)
  BY <1>1, <1>2, <1>3
<1>5. /\ \A i \in 1..Len(a) : Join(a, r)[i] = a[i]
      /\ \A j \in 1..Len(r) : Join(a, r)[Len(a) + 1 + j] = r[j]
      /\ Len(Join(a, r)) = Len(a) + 1 + Len(r)
  BY JoinElements
<1>6. /\ \A i \in 1..Len(b) : Join(b, s)[i] = b[i]
      /\ \A j \in 1..Len(s) : Join(b, s)[Len(b) + 1 + j] = s[j]
      /\ Len(Join(b, s)) = Len(b) + 1 + Len(s)
  BY JoinElements
<1>7. Len(r) = Len(s)
  BY <1>1, <1>4, <1>5, <1>6
<1>8. a = b
  <2>1. \A i \in 1..Len(a) : a[i] = b[i]
    BY <1>4, <1>5, <1>6
  <2>2. a \in Seq(Char) /\ b \in Seq(Char)
    BY JoinElements
  <2> QED BY <1>4, <2>1, <2>2, SeqEqual
<1>9. r = s
  <2>1. \A j \in 1..Len(r) : r[j] = s[j]
    BY <1>4, <1>5, <1>6, <1>7
  <2> QED BY <1>7, <2>1, SeqEqual
<1> QED BY <1>8, <1>9

\* Concatenation associates.
LEMMA CatAssociative ==
  ASSUME NEW s \in Seq(Char), NEW t \in Seq(Char), NEW u \in Seq(Char)
  PROVE  Cat(Cat(s, t), u) = Cat(s, Cat(t, u))
BY ConcatAssociative DEF Cat

\* The texts of a key joined from the left and from the right are the same.
LEMMA JoinFromRight ==
  ASSUME Sep \in Char,
         NEW a \in PlainText, NEW b \in PlainText, NEW c \in PlainText,
         NEW q \in Seq(Char)
  PROVE  Cat(Cat(Cat(Cat(Cat(Cat(a, <<Sep>>), b), <<Sep>>), c), <<Sep>>), q)
           = Join(a, Join(b, Join(c, q)))
<1> DEFINE p == <<Sep>>
<1>1. /\ a \in Seq(Char) /\ b \in Seq(Char) /\ c \in Seq(Char)
      /\ p \in Seq(Char)
  BY JoinElements
<1>3. Join(a, Join(b, Join(c, q)))
        = Cat(Cat(a, p), Cat(Cat(b, p), Cat(Cat(c, p), q)))
  BY DEF Join
<1> HIDE DEF p
<1>4. \A s, t \in Seq(Char) : Cat(s, t) \in Seq(Char)
  BY CatElements
<1> DEFINE ap == Cat(a, p)
           bp == Cat(b, p)
           cp == Cat(c, p)
           cq == Cat(cp, q)
<1>5. ap \in Seq(Char) /\ bp \in Seq(Char) /\ cp \in Seq(Char)
  BY <1>1, <1>4
<1>6. cq \in Seq(Char) /\ Cat(ap, bp) \in Seq(Char)
  BY <1>4, <1>5
<1>7. Cat(Cat(ap, b), p) = Cat(ap, bp)
  BY <1>1, <1>5, CatAssociative
<1>8. Cat(Cat(Cat(ap, bp), c), p) = Cat(Cat(ap, bp), cp)
  BY <1>1, <1>6, CatAssociative
<1>9. Cat(Cat(Cat(ap, bp), cp), q) = Cat(Cat(ap, bp), cq)
  BY <1>5, <1>6, CatAssociative
<1>10. Cat(Cat(ap, bp), cq) = Cat(ap, Cat(bp, cq))
  BY <1>5, <1>6, CatAssociative
<1> QED BY <1>3, <1>7, <1>8, <1>9, <1>10 DEF p

\* The instrument of a key can be read back from its text: None is the only
\* one whose text is empty.
LEMMA InstrumentTextInjective ==
  ASSUME NEW i \in Instruments \cup {NoInstrument},
         NEW j \in Instruments \cup {NoInstrument}
  PROVE  /\ InstrumentText(i) \in PlainText
         /\ InstrumentText(i) = InstrumentText(j) => i = j
<1>1. << >> \in PlainText
  BY DEF PlainText
<1> QED BY <1>1, KeyAssumption DEF InstrumentText

\* CacheKey::l2_key "must distinguish every field that Hash/Eq distinguishes"
\* (src/cache.rs): two different searches never have the same primary key.
\* This holds for every query, those that contain the separator included,
\* because the query is the last field and no other field can hold it.
THEOREM L2KeyInjective ==
  ASSUME NEW k \in Key, NEW l \in Key, L2Key(k) = L2Key(l)
  PROVE  k = l
<1>1. /\ Sep \in Char
      /\ k.source \in PlainText /\ l.source \in PlainText
      /\ Decimal[k.limit] \in PlainText /\ Decimal[l.limit] \in PlainText
      /\ k.query \in Seq(Char) /\ l.query \in Seq(Char)
  BY KeyAssumption DEF Key
<1>2. /\ InstrumentText(k.instrument) \in PlainText
      /\ InstrumentText(l.instrument) \in PlainText
  BY InstrumentTextInjective DEF Key
<1> DEFINE tk == Join(InstrumentText(k.instrument), k.query)
           tl == Join(InstrumentText(l.instrument), l.query)
           rk == Join(Decimal[k.limit], tk)
           rl == Join(Decimal[l.limit], tl)
<1>3. tk \in Seq(Char) /\ tl \in Seq(Char)
  BY <1>1, <1>2, JoinElements
<1>4. Join(k.source, rk) = Join(l.source, rl)
  <2>1. L2Key(k) = Join(k.source, rk)
    <3>1. L2Key(k)
            = Cat(Cat(Cat(Cat(Cat(Cat(k.source, <<Sep>>), Decimal[k.limit]),
                <<Sep>>), InstrumentText(k.instrument)), <<Sep>>), k.query)
      BY DEF L2Key, Cat
    <3> QED BY <1>1, <1>2, <3>1, JoinFromRight
  <2>2. L2Key(l) = Join(l.source, rl)
    <3>1. L2Key(l)
            = Cat(Cat(Cat(Cat(Cat(Cat(l.source, <<Sep>>), Decimal[l.limit]),
                <<Sep>>), InstrumentText(l.instrument)), <<Sep>>), l.query)
      BY DEF L2Key, Cat
    <3> QED BY <1>1, <1>2, <3>1, JoinFromRight
  <2> QED BY <2>1, <2>2
<1> HIDE DEF tk, tl
<1>5. rk \in Seq(Char) /\ rl \in Seq(Char)
  BY <1>1, <1>3, JoinElements
<1> HIDE DEF rk, rl
<1>6. k.source = l.source /\ rk = rl
  BY <1>1, <1>4, <1>5, SplitAtSeparator
<1>7. Decimal[k.limit] = Decimal[l.limit] /\ tk = tl
  BY <1>1, <1>3, <1>6, SplitAtSeparator DEF rk, rl
<1>8. /\ InstrumentText(k.instrument) = InstrumentText(l.instrument)
      /\ k.query = l.query
  BY <1>1, <1>2, <1>7, SplitAtSeparator DEF tk, tl
<1>9. k.limit = l.limit
  BY <1>7, KeyAssumption DEF Key
<1>10. k.instrument = l.instrument
  BY <1>8, InstrumentTextInjective DEF Key
<1> QED BY <1>6, <1>8, <1>9, <1>10 DEF Key

-----------------------------------------------------------------------------
\* Facts about the constants.

LEMMA TtlBounds ==
  ASSUME NEW k
  PROVE  Ttl(k) \in Nat /\ Ttl(k) >= 1 /\ Ttl(k) >= DbLag
BY TtlAssumption, CacheAssumption DEF Ttl

LEMMA RowKeyType == ASSUME NEW k \in Keys PROVE L2Key(k) \in RowKeys
BY DEF RowKeys

\* Two searches have two rows.
LEMMA RowKeyInjective ==
  ASSUME NEW k \in Keys, NEW j \in Keys, L2Key(k) = L2Key(j)
  PROVE  k = j
BY L2KeyInjective, CacheAssumption

-----------------------------------------------------------------------------
\* The inductive invariant.

\* What a running call carries: the row it has read or is about to write, the
\* outcome it is about to publish or to return.
Carries(t) ==
  /\ task[t].pc # "idle" => task[t].key \in Keys
  /\ task[t].pc \in {"judge", "write"} =>
       task[t].row \in Row /\ RowBound(task[t].row, task[t].key)
  /\ task[t].pc = "write" => now <= task[t].row.val.at + DbLag
  /\ task[t].pc \in {"publish", "woken"} =>
       task[t].out \in Outcome /\ OutcomeBound(task[t].out, task[t].key)
  /\ task[t].pc = "publish" => task[t].out.ok
  /\ task[t].pc \in {"publish", "woken"} =>
       IF task[t].out.ok THEN now <= task[t].out.at + DbLag
                         ELSE task[t].out.at = now
  /\ task[t].kind = "orphan" => task[t].pc \in {"sweep", "write"}

CallInv == \A t \in Task : Carries(t)

\* The waiter map and the leaders agree.
FlightInv ==
  /\ SingleFlight
  /\ \A k \in Keys : flight[k] # None =>
       /\ flight[k] \in Task
       /\ Leads(flight[k])
       /\ KeyOf(flight[k]) = k
  /\ \A t \in Task : At(t, "wait") => flight[KeyOf(t)] # None

AnswerInv == AnswerIsForKey /\ AnswerIsRecent

IInv == TypeOK /\ CallInv /\ FlightInv /\ TierBound /\ AnswerInv

USE CacheAssumption DEF At, KeyOf, Goto, Done, Return, NoReply

LEMMA InitIInv == Init => IInv
<1>1. SUFFICES ASSUME Init PROVE IInv
  OBVIOUS
<1>2. TypeOK
  BY <1>1 DEF Init, TypeOK, TaskState, Idle, Pcs, Kinds
<1>3. CallInv
  BY <1>1 DEF Init, CallInv, Carries, Idle
<1>4. FlightInv
  BY <1>1 DEF Init, FlightInv, SingleFlight, Leads, LeaderPcs, Idle
<1>5. TierBound
  BY <1>1, RowKeyType DEF Init, TierBound
<1>6. AnswerInv
  BY <1>1 DEF Init, AnswerInv, AnswerIsForKey, AnswerIsRecent
<1> QED BY <1>2, <1>3, <1>4, <1>5, <1>6 DEF IInv

-----------------------------------------------------------------------------
\* One lemma per action, one step per conjunct of the invariant.

\* What a landing leaves behind: the leader is done, its followers are woken
\* with the outcome, and no other task changes.
LEMMA LandedTasks ==
  ASSUME TypeOK, NEW t \in Task, NEW k \in Keys, NEW v \in Outcome,
         Landed(t, k, v)
  PROVE  /\ task' \in [Task -> TaskState]
         /\ task'[t] = Idle
         /\ \A u \in Task \ {t} :
              IF At(u, "wait") /\ KeyOf(u) = k
                THEN /\ task'[u].pc = "woken" /\ task'[u].out = v
                     /\ task'[u].key = task[u].key
                     /\ task'[u].kind = task[u].kind
                     /\ task'[u].row = task[u].row
                ELSE task'[u] = task[u]
         /\ flight' = [flight EXCEPT ![k] = None]
         /\ flight' \in [Keys -> Task \cup {None}]
<1>1. task \in [Task -> TaskState] /\ flight \in [Keys -> Task \cup {None}]
  BY DEF TypeOK
<1>2. ASSUME NEW u \in Task
      PROVE  /\ [task[u] EXCEPT !.pc = "woken", !.out = v] \in TaskState
             /\ [task[u] EXCEPT !.pc = "woken", !.out = v].pc = "woken"
             /\ [task[u] EXCEPT !.pc = "woken", !.out = v].out = v
             /\ [task[u] EXCEPT !.pc = "woken", !.out = v].key = task[u].key
             /\ [task[u] EXCEPT !.pc = "woken", !.out = v].kind = task[u].kind
             /\ [task[u] EXCEPT !.pc = "woken", !.out = v].row = task[u].row
  BY <1>1 DEF TaskState, Pcs
<1>3. Idle \in TaskState
  BY DEF Idle, TaskState, Pcs, Kinds
<1>4. task' \in [Task -> TaskState]
  BY <1>1, <1>2, <1>3 DEF Landed
<1>5. task'[t] = Idle
  BY DEF Landed
<1>6. ASSUME NEW u \in Task \ {t}
      PROVE  IF At(u, "wait") /\ KeyOf(u) = k
               THEN task'[u] = [task[u] EXCEPT !.pc = "woken", !.out = v]
               ELSE task'[u] = task[u]
  BY DEF Landed
<1> QED BY <1>1, <1>2, <1>4, <1>5, <1>6 DEF Landed

LEMMA StartIInv ==
  ASSUME IInv, NEW t \in Task, NEW k \in Keys, NEW kind \in {"request", "detached"}, Start(t, k, kind)
  PROVE  IInv'
<1>1. TypeOK /\ CallInv /\ FlightInv /\ TierBound /\ AnswerInv
  BY DEF IInv
<1>2. TypeOK'
  BY <1>1, TtlBounds, RowKeyType
  DEF Start, Idle, TypeOK, CallInv, Carries, TaskState, Pcs, Kinds, Reply, Entry, Row, Outcome
<1>3. CallInv'
  BY <1>1, TtlBounds, RowKeyType
  DEF Start, Idle, TypeOK, CallInv, Carries, TaskState, TierBound, RowBound, OutcomeBound, Row, Outcome
<1>4. FlightInv'
  BY <1>1
  DEF Start, Idle, TypeOK, CallInv, Carries, TaskState, FlightInv, SingleFlight, Leads, LeaderPcs
<1>5. TierBound'
  BY <1>1, TtlBounds, RowKeyType, RowKeyInjective
  DEF Start, Idle, TypeOK, CallInv, Carries, TaskState, TierBound, RowBound, OutcomeBound, Entry, Row, Outcome
<1>6. AnswerInv'
  BY <1>1, TtlBounds
  DEF Start, Idle, TypeOK, CallInv, Carries, TaskState, TierBound, RowBound, OutcomeBound, AnswerInv, AnswerIsForKey, AnswerIsRecent, Entry, Row, Outcome
<1> QED BY <1>2, <1>3, <1>4, <1>5, <1>6 DEF IInv

LEMMA L1HitIInv ==
  ASSUME IInv, NEW t \in Task, L1Hit(t)
  PROVE  IInv'
<1>1. TypeOK /\ CallInv /\ FlightInv /\ TierBound /\ AnswerInv
  BY DEF IInv
<1>2. TypeOK'
  BY <1>1, TtlBounds, RowKeyType
  DEF L1Hit, Idle, TypeOK, CallInv, Carries, TaskState, Pcs, Kinds, Reply, Entry, Row, Outcome
<1>3. CallInv'
  BY <1>1, TtlBounds, RowKeyType
  DEF L1Hit, Idle, TypeOK, CallInv, Carries, TaskState, TierBound, RowBound, OutcomeBound, Row, Outcome
<1>4. FlightInv'
  BY <1>1
  DEF L1Hit, Idle, TypeOK, CallInv, Carries, TaskState, FlightInv, SingleFlight, Leads, LeaderPcs
<1>5. TierBound'
  BY <1>1, TtlBounds, RowKeyType, RowKeyInjective
  DEF L1Hit, Idle, TypeOK, CallInv, Carries, TaskState, TierBound, RowBound, OutcomeBound, Entry, Row, Outcome
<1>6. AnswerInv'
  BY <1>1, TtlBounds
  DEF L1Hit, Idle, TypeOK, CallInv, Carries, TaskState, TierBound, RowBound, OutcomeBound, AnswerInv, AnswerIsForKey, AnswerIsRecent, Entry, Row, Outcome
<1> QED BY <1>2, <1>3, <1>4, <1>5, <1>6 DEF IInv

LEMMA L1MissIInv ==
  ASSUME IInv, NEW t \in Task, L1Miss(t)
  PROVE  IInv'
<1>1. TypeOK /\ CallInv /\ FlightInv /\ TierBound /\ AnswerInv
  BY DEF IInv
<1>2. TypeOK'
  BY <1>1, TtlBounds, RowKeyType
  DEF L1Miss, TypeOK, CallInv, Carries, TaskState, Pcs, Kinds, Reply, Entry, Row, Outcome
<1>3. CallInv'
  BY <1>1, TtlBounds, RowKeyType
  DEF L1Miss, TypeOK, CallInv, Carries, TaskState, TierBound, RowBound, OutcomeBound, Row, Outcome
<1>4. FlightInv'
  BY <1>1
  DEF L1Miss, TypeOK, CallInv, Carries, TaskState, FlightInv, SingleFlight, Leads, LeaderPcs
<1>5. TierBound'
  BY <1>1, TtlBounds, RowKeyType, RowKeyInjective
  DEF L1Miss, TypeOK, CallInv, Carries, TaskState, TierBound, RowBound, OutcomeBound, Entry, Row, Outcome
<1>6. AnswerInv'
  BY <1>1, TtlBounds
  DEF L1Miss, TypeOK, CallInv, Carries, TaskState, TierBound, RowBound, OutcomeBound, AnswerInv, AnswerIsForKey, AnswerIsRecent, Entry, Row, Outcome
<1> QED BY <1>2, <1>3, <1>4, <1>5, <1>6 DEF IInv

LEMMA SelectRowIInv ==
  ASSUME IInv, NEW t \in Task, SelectRow(t)
  PROVE  IInv'
<1>1. TypeOK /\ CallInv /\ FlightInv /\ TierBound /\ AnswerInv
  BY DEF IInv
<1>2. TypeOK'
  <2>1. /\ task[t] \in TaskState /\ task[t].pc # "idle"
        /\ KeyOf(t) \in Keys
    BY <1>1 DEF SelectRow, TypeOK, CallInv, Carries
  <2>2. [task[t] EXCEPT !.pc = "judge", !.row = l2[L2Key(KeyOf(t))]] \in TaskState
    BY <1>1, <2>1, TtlBounds, RowKeyType
    DEF SelectRow, TypeOK, CallInv, Carries, TaskState, Pcs, Kinds, Reply, Entry, Row, Outcome
  <2>3. task' \in [Task -> TaskState]
    BY <1>1, <2>1, <2>2 DEF SelectRow, TypeOK
  <2>4. /\ now' \in Nat
        /\ l1' \in [Keys -> Entry \cup {None}]
        /\ l2' \in [RowKeys -> Row \cup {None}]
        /\ flight' \in [Keys -> Task \cup {None}]
        /\ reply' \in Reply \cup {None}
    BY <1>1, <2>1, RowKeyType
    DEF SelectRow, TypeOK, CallInv, Carries, TaskState, Pcs, Kinds, Reply, Entry, Row, Outcome
  <2> QED BY <2>3, <2>4 DEF TypeOK
<1>3. CallInv'
  BY <1>1, TtlBounds, RowKeyType
  DEF SelectRow, TypeOK, CallInv, Carries, TaskState, TierBound, RowBound, OutcomeBound, Row, Outcome
<1>4. FlightInv'
  BY <1>1
  DEF SelectRow, TypeOK, CallInv, Carries, TaskState, FlightInv, SingleFlight, Leads, LeaderPcs
<1>5. TierBound'
  BY <1>1, TtlBounds, RowKeyType, RowKeyInjective
  DEF SelectRow, TypeOK, CallInv, Carries, TaskState, TierBound, RowBound, OutcomeBound, Entry, Row, Outcome
<1>6. AnswerInv'
  BY <1>1, TtlBounds
  DEF SelectRow, TypeOK, CallInv, Carries, TaskState, TierBound, RowBound, OutcomeBound, AnswerInv, AnswerIsForKey, AnswerIsRecent, Entry, Row, Outcome
<1> QED BY <1>2, <1>3, <1>4, <1>5, <1>6 DEF IInv

LEMMA SelectMissIInv ==
  ASSUME IInv, NEW t \in Task, SelectMiss(t)
  PROVE  IInv'
<1>1. TypeOK /\ CallInv /\ FlightInv /\ TierBound /\ AnswerInv
  BY DEF IInv
<1>2. TypeOK'
  BY <1>1, TtlBounds, RowKeyType
  DEF SelectMiss, TypeOK, CallInv, Carries, TaskState, Pcs, Kinds, Reply, Entry, Row, Outcome
<1>3. CallInv'
  BY <1>1, TtlBounds, RowKeyType
  DEF SelectMiss, TypeOK, CallInv, Carries, TaskState, TierBound, RowBound, OutcomeBound, Row, Outcome
<1>4. FlightInv'
  BY <1>1
  DEF SelectMiss, TypeOK, CallInv, Carries, TaskState, FlightInv, SingleFlight, Leads, LeaderPcs
<1>5. TierBound'
  BY <1>1, TtlBounds, RowKeyType, RowKeyInjective
  DEF SelectMiss, TypeOK, CallInv, Carries, TaskState, TierBound, RowBound, OutcomeBound, Entry, Row, Outcome
<1>6. AnswerInv'
  BY <1>1, TtlBounds
  DEF SelectMiss, TypeOK, CallInv, Carries, TaskState, TierBound, RowBound, OutcomeBound, AnswerInv, AnswerIsForKey, AnswerIsRecent, Entry, Row, Outcome
<1> QED BY <1>2, <1>3, <1>4, <1>5, <1>6 DEF IInv

LEMMA JudgeUnusableIInv ==
  ASSUME IInv, NEW t \in Task, JudgeUnusable(t)
  PROVE  IInv'
<1>1. TypeOK /\ CallInv /\ FlightInv /\ TierBound /\ AnswerInv
  BY DEF IInv
<1>2. TypeOK'
  <2>1. /\ task[t] \in TaskState /\ task[t].pc # "idle"
        /\ KeyOf(t) \in Keys
    BY <1>1 DEF JudgeUnusable, TypeOK, CallInv, Carries
  <2>2. [task[t] EXCEPT !.pc = "sweep", !.row = None] \in TaskState
    BY <1>1, <2>1, TtlBounds, RowKeyType
    DEF JudgeUnusable, TypeOK, CallInv, Carries, TaskState, Pcs, Kinds, Reply, Entry, Row, Outcome
  <2>3. task' \in [Task -> TaskState]
    BY <1>1, <2>1, <2>2 DEF JudgeUnusable, TypeOK
  <2>4. /\ now' \in Nat
        /\ l1' \in [Keys -> Entry \cup {None}]
        /\ l2' \in [RowKeys -> Row \cup {None}]
        /\ flight' \in [Keys -> Task \cup {None}]
        /\ reply' \in Reply \cup {None}
    BY <1>1, <2>1, RowKeyType
    DEF JudgeUnusable, TypeOK, CallInv, Carries, TaskState, Pcs, Kinds, Reply, Entry, Row, Outcome
  <2> QED BY <2>3, <2>4 DEF TypeOK
<1>3. CallInv'
  BY <1>1, TtlBounds, RowKeyType
  DEF JudgeUnusable, TypeOK, CallInv, Carries, TaskState, TierBound, RowBound, OutcomeBound, Row, Outcome
<1>4. FlightInv'
  BY <1>1
  DEF JudgeUnusable, TypeOK, CallInv, Carries, TaskState, FlightInv, SingleFlight, Leads, LeaderPcs
<1>5. TierBound'
  BY <1>1, TtlBounds, RowKeyType, RowKeyInjective
  DEF JudgeUnusable, TypeOK, CallInv, Carries, TaskState, TierBound, RowBound, OutcomeBound, Entry, Row, Outcome
<1>6. AnswerInv'
  BY <1>1, TtlBounds
  DEF JudgeUnusable, TypeOK, CallInv, Carries, TaskState, TierBound, RowBound, OutcomeBound, AnswerInv, AnswerIsForKey, AnswerIsRecent, Entry, Row, Outcome
<1> QED BY <1>2, <1>3, <1>4, <1>5, <1>6 DEF IInv

LEMMA ServeFreshIInv ==
  ASSUME IInv, NEW t \in Task, ServeFresh(t)
  PROVE  IInv'
<1>1. TypeOK /\ CallInv /\ FlightInv /\ TierBound /\ AnswerInv
  BY DEF IInv
<1>2. TypeOK'
  BY <1>1, TtlBounds, RowKeyType
  DEF ServeFresh, Idle, Inserted, Fresh, Unusable, TypeOK, CallInv, Carries, TaskState, Pcs, Kinds, Reply, Entry, Row, Outcome
<1>3. CallInv'
  BY <1>1, TtlBounds, RowKeyType
  DEF ServeFresh, Idle, Inserted, Fresh, Unusable, TypeOK, CallInv, Carries, TaskState, TierBound, RowBound, OutcomeBound, Row, Outcome
<1>4. FlightInv'
  BY <1>1
  DEF ServeFresh, Idle, Inserted, Fresh, Unusable, TypeOK, CallInv, Carries, TaskState, FlightInv, SingleFlight, Leads, LeaderPcs
<1>5. TierBound'
  BY <1>1, TtlBounds, RowKeyType, RowKeyInjective
  DEF ServeFresh, Idle, Inserted, Fresh, Unusable, TypeOK, CallInv, Carries, TaskState, TierBound, RowBound, OutcomeBound, Entry, Row, Outcome
<1>6. AnswerInv'
  BY <1>1, TtlBounds
  DEF ServeFresh, Idle, Inserted, Fresh, Unusable, TypeOK, CallInv, Carries, TaskState, TierBound, RowBound, OutcomeBound, AnswerInv, AnswerIsForKey, AnswerIsRecent, Entry, Row, Outcome
<1> QED BY <1>2, <1>3, <1>4, <1>5, <1>6 DEF IInv

LEMMA ServeStaleIInv ==
  ASSUME IInv, NEW t \in Task, ServeStale(t)
  PROVE  IInv'
<1>1. TypeOK /\ CallInv /\ FlightInv /\ TierBound /\ AnswerInv
  BY DEF IInv
<1>2. TypeOK'
  <2>1. /\ task[t] \in TaskState /\ task[t].pc # "idle"
        /\ KeyOf(t) \in Keys
    BY <1>1 DEF ServeStale, TypeOK, CallInv, Carries
  <2>2. [task[t] EXCEPT !.pc = "join", !.kind = "detached", !.row = None] \in TaskState
    BY <1>1, <2>1, TtlBounds, RowKeyType
    DEF ServeStale, TypeOK, CallInv, Carries, TaskState, Pcs, Kinds, Reply, Entry, Row, Outcome
  <2>3. task' \in [Task -> TaskState]
    BY <1>1, <2>1, <2>2 DEF ServeStale, TypeOK
  <2>4. /\ now' \in Nat
        /\ l1' \in [Keys -> Entry \cup {None}]
        /\ l2' \in [RowKeys -> Row \cup {None}]
        /\ flight' \in [Keys -> Task \cup {None}]
        /\ reply' \in Reply \cup {None}
    BY <1>1, <2>1, RowKeyType
    DEF ServeStale, TypeOK, CallInv, Carries, TaskState, Pcs, Kinds, Reply, Entry, Row, Outcome
  <2> QED BY <2>3, <2>4 DEF TypeOK
<1>3. CallInv'
  BY <1>1, TtlBounds, RowKeyType
  DEF ServeStale, Stale, Unusable, TypeOK, CallInv, Carries, TaskState, TierBound, RowBound, OutcomeBound, Row, Outcome
<1>4. FlightInv'
  BY <1>1
  DEF ServeStale, Stale, Unusable, TypeOK, CallInv, Carries, TaskState, FlightInv, SingleFlight, Leads, LeaderPcs
<1>5. TierBound'
  BY <1>1, TtlBounds, RowKeyType, RowKeyInjective
  DEF ServeStale, Stale, Unusable, TypeOK, CallInv, Carries, TaskState, TierBound, RowBound, OutcomeBound, Entry, Row, Outcome
<1>6. AnswerInv'
  BY <1>1, TtlBounds
  DEF ServeStale, Stale, Unusable, TypeOK, CallInv, Carries, TaskState, TierBound, RowBound, OutcomeBound, AnswerInv, AnswerIsForKey, AnswerIsRecent, Entry, Row, Outcome
<1> QED BY <1>2, <1>3, <1>4, <1>5, <1>6 DEF IInv

LEMMA SweepIInv ==
  ASSUME IInv, NEW t \in Task, Sweep(t)
  PROVE  IInv'
<1>1. TypeOK /\ CallInv /\ FlightInv /\ TierBound /\ AnswerInv
  BY DEF IInv
<1>2. TypeOK'
  BY <1>1, TtlBounds, RowKeyType
  DEF Sweep, Idle, TypeOK, CallInv, Carries, TaskState, Pcs, Kinds, Reply, Entry, Row, Outcome
<1>3. CallInv'
  BY <1>1, TtlBounds, RowKeyType
  DEF Sweep, Idle, TypeOK, CallInv, Carries, TaskState, TierBound, RowBound, OutcomeBound, Row, Outcome
<1>4. FlightInv'
  BY <1>1
  DEF Sweep, Idle, TypeOK, CallInv, Carries, TaskState, FlightInv, SingleFlight, Leads, LeaderPcs
<1>5. TierBound'
  BY <1>1, TtlBounds, RowKeyType, RowKeyInjective
  DEF Sweep, Idle, TypeOK, CallInv, Carries, TaskState, TierBound, RowBound, OutcomeBound, Entry, Row, Outcome
<1>6. AnswerInv'
  BY <1>1, TtlBounds
  DEF Sweep, Idle, TypeOK, CallInv, Carries, TaskState, TierBound, RowBound, OutcomeBound, AnswerInv, AnswerIsForKey, AnswerIsRecent, Entry, Row, Outcome
<1> QED BY <1>2, <1>3, <1>4, <1>5, <1>6 DEF IInv

LEMMA JoinHitIInv ==
  ASSUME IInv, NEW t \in Task, JoinHit(t)
  PROVE  IInv'
<1>1. TypeOK /\ CallInv /\ FlightInv /\ TierBound /\ AnswerInv
  BY DEF IInv
<1>2. TypeOK'
  BY <1>1, TtlBounds, RowKeyType
  DEF JoinHit, Idle, TypeOK, CallInv, Carries, TaskState, Pcs, Kinds, Reply, Entry, Row, Outcome
<1>3. CallInv'
  BY <1>1, TtlBounds, RowKeyType
  DEF JoinHit, Idle, TypeOK, CallInv, Carries, TaskState, TierBound, RowBound, OutcomeBound, Row, Outcome
<1>4. FlightInv'
  BY <1>1
  DEF JoinHit, Idle, TypeOK, CallInv, Carries, TaskState, FlightInv, SingleFlight, Leads, LeaderPcs
<1>5. TierBound'
  BY <1>1, TtlBounds, RowKeyType, RowKeyInjective
  DEF JoinHit, Idle, TypeOK, CallInv, Carries, TaskState, TierBound, RowBound, OutcomeBound, Entry, Row, Outcome
<1>6. AnswerInv'
  BY <1>1, TtlBounds
  DEF JoinHit, Idle, TypeOK, CallInv, Carries, TaskState, TierBound, RowBound, OutcomeBound, AnswerInv, AnswerIsForKey, AnswerIsRecent, Entry, Row, Outcome
<1> QED BY <1>2, <1>3, <1>4, <1>5, <1>6 DEF IInv

LEMMA JoinWaitIInv ==
  ASSUME IInv, NEW t \in Task, JoinWait(t)
  PROVE  IInv'
<1>1. TypeOK /\ CallInv /\ FlightInv /\ TierBound /\ AnswerInv
  BY DEF IInv
<1>2. TypeOK'
  BY <1>1, TtlBounds, RowKeyType
  DEF JoinWait, TypeOK, CallInv, Carries, TaskState, Pcs, Kinds, Reply, Entry, Row, Outcome
<1>3. CallInv'
  BY <1>1, TtlBounds, RowKeyType
  DEF JoinWait, TypeOK, CallInv, Carries, TaskState, TierBound, RowBound, OutcomeBound, Row, Outcome
<1>4. FlightInv'
  BY <1>1
  DEF JoinWait, TypeOK, CallInv, Carries, TaskState, FlightInv, SingleFlight, Leads, LeaderPcs
<1>5. TierBound'
  BY <1>1, TtlBounds, RowKeyType, RowKeyInjective
  DEF JoinWait, TypeOK, CallInv, Carries, TaskState, TierBound, RowBound, OutcomeBound, Entry, Row, Outcome
<1>6. AnswerInv'
  BY <1>1, TtlBounds
  DEF JoinWait, TypeOK, CallInv, Carries, TaskState, TierBound, RowBound, OutcomeBound, AnswerInv, AnswerIsForKey, AnswerIsRecent, Entry, Row, Outcome
<1> QED BY <1>2, <1>3, <1>4, <1>5, <1>6 DEF IInv

LEMMA JoinLeadIInv ==
  ASSUME IInv, NEW t \in Task, JoinLead(t)
  PROVE  IInv'
<1>1. TypeOK /\ CallInv /\ FlightInv /\ TierBound /\ AnswerInv
  BY DEF IInv
<1>2. TypeOK'
  <2>1. /\ task[t] \in TaskState /\ task[t].pc # "idle"
        /\ KeyOf(t) \in Keys
    BY <1>1 DEF JoinLead, TypeOK, CallInv, Carries
  <2>2. [task[t] EXCEPT !.pc = "fetch"] \in TaskState
    BY <1>1, <2>1, TtlBounds, RowKeyType
    DEF JoinLead, TypeOK, CallInv, Carries, TaskState, Pcs, Kinds, Reply, Entry, Row, Outcome
  <2>3. task' \in [Task -> TaskState]
    BY <1>1, <2>1, <2>2 DEF JoinLead, TypeOK
  <2>4. /\ now' \in Nat
        /\ l1' \in [Keys -> Entry \cup {None}]
        /\ l2' \in [RowKeys -> Row \cup {None}]
        /\ flight' \in [Keys -> Task \cup {None}]
        /\ reply' \in Reply \cup {None}
    BY <1>1, <2>1, RowKeyType
    DEF JoinLead, TypeOK, CallInv, Carries, TaskState, Pcs, Kinds, Reply, Entry, Row, Outcome
  <2> QED BY <2>3, <2>4 DEF TypeOK
<1>3. CallInv'
  BY <1>1, TtlBounds, RowKeyType
  DEF JoinLead, TypeOK, CallInv, Carries, TaskState, TierBound, RowBound, OutcomeBound, Row, Outcome
<1>4. FlightInv'
  BY <1>1
  DEF JoinLead, TypeOK, CallInv, Carries, TaskState, FlightInv, SingleFlight, Leads, LeaderPcs
<1>5. TierBound'
  BY <1>1, TtlBounds, RowKeyType, RowKeyInjective
  DEF JoinLead, TypeOK, CallInv, Carries, TaskState, TierBound, RowBound, OutcomeBound, Entry, Row, Outcome
<1>6. AnswerInv'
  BY <1>1, TtlBounds
  DEF JoinLead, TypeOK, CallInv, Carries, TaskState, TierBound, RowBound, OutcomeBound, AnswerInv, AnswerIsForKey, AnswerIsRecent, Entry, Row, Outcome
<1> QED BY <1>2, <1>3, <1>4, <1>5, <1>6 DEF IInv

LEMMA FetchOkIInv ==
  ASSUME IInv, NEW t \in Task, FetchOk(t)
  PROVE  IInv'
<1>1. TypeOK /\ CallInv /\ FlightInv /\ TierBound /\ AnswerInv
  BY DEF IInv
<1>2. TypeOK'
  <2> DEFINE v == [key |-> KeyOf(t), at |-> now, ok |-> TRUE]
             w == [val |-> v, exp |-> now + Ttl(KeyOf(t)), readable |-> TRUE]
  <2>1. task[t] \in TaskState /\ KeyOf(t) \in Keys /\ now \in Nat
    BY <1>1 DEF FetchOk, TypeOK, CallInv, Carries
  <2>2. v \in Outcome
    BY <2>1 DEF Outcome
  <2>3. w \in Row
    BY <2>1, <2>2, TtlBounds DEF Row
  <2> HIDE DEF v, w
  <2>4. [task[t] EXCEPT !.pc = "write", !.row = w] \in TaskState
    BY <2>1, <2>3 DEF TaskState, Pcs
  <2>5. [task[t] EXCEPT !.pc = "publish", !.out = v] \in TaskState
    BY <2>1, <2>2 DEF TaskState, Pcs
  <2>6. task' \in [Task -> TaskState]
    BY <1>1, <2>4, <2>5 DEF FetchOk, TypeOK, v, w
  <2> QED BY <1>1, <2>6 DEF FetchOk, TypeOK
<1>3. CallInv'
  BY <1>1, TtlBounds, RowKeyType
  DEF FetchOk, TypeOK, CallInv, Carries, TaskState, TierBound, RowBound, OutcomeBound, Row, Outcome
<1>4. FlightInv'
  BY <1>1
  DEF FetchOk, TypeOK, CallInv, Carries, TaskState, FlightInv, SingleFlight, Leads, LeaderPcs
<1>5. TierBound'
  BY <1>1, TtlBounds, RowKeyType, RowKeyInjective
  DEF FetchOk, TypeOK, CallInv, Carries, TaskState, TierBound, RowBound, OutcomeBound, Entry, Row, Outcome
<1>6. AnswerInv'
  BY <1>1, TtlBounds
  DEF FetchOk, TypeOK, CallInv, Carries, TaskState, TierBound, RowBound, OutcomeBound, AnswerInv, AnswerIsForKey, AnswerIsRecent, Entry, Row, Outcome
<1> QED BY <1>2, <1>3, <1>4, <1>5, <1>6 DEF IInv

LEMMA FetchErrIInv ==
  ASSUME IInv, NEW t \in Task, FetchErr(t)
  PROVE  IInv'
<1>1. TypeOK /\ CallInv /\ FlightInv /\ TierBound /\ AnswerInv
  BY DEF IInv
<1> DEFINE k == KeyOf(t)
           v == [key |-> KeyOf(t), at |-> now, ok |-> FALSE]
<1>7. /\ k \in Keys /\ v \in Outcome /\ OutcomeBound(v, k)
      /\ IF v.ok THEN now <= v.at + DbLag ELSE v.at = now
      /\ task[t].kind # "orphan" /\ Leads(t) /\ now \in Nat
  BY <1>1
  DEF FetchErr, TypeOK, CallInv, Carries, TaskState, Outcome, OutcomeBound, Leads, LeaderPcs
<1>8. Landed(t, k, v) /\ Return(t, v) /\ UNCHANGED <<now, l2>>
  BY DEF FetchErr
<1>9. l1' = l1
  BY DEF FetchErr
<1> HIDE DEF k, v
<1>10. /\ task' \in [Task -> TaskState]
       /\ task'[t] = Idle
       /\ \A u \in Task \ {t} :
            IF At(u, "wait") /\ KeyOf(u) = k
              THEN /\ task'[u].pc = "woken" /\ task'[u].out = v
                   /\ task'[u].key = task[u].key
                   /\ task'[u].kind = task[u].kind
                   /\ task'[u].row = task[u].row
              ELSE task'[u] = task[u]
       /\ flight' = [flight EXCEPT ![k] = None]
       /\ flight' \in [Keys -> Task \cup {None}]
  BY <1>1, <1>7, <1>8, LandedTasks
<1>2. TypeOK'
  <2>1. reply' \in Reply \cup {None}
    BY <1>7, <1>8 DEF Reply, k
  <2>2. l1' \in [Keys -> Entry \cup {None}]
    BY <1>1, <1>7, <1>9, TtlBounds DEF TypeOK, Inserted, Entry
  <2> QED BY <1>1, <1>7, <1>8, <1>10, <2>1, <2>2 DEF TypeOK
<1>3. CallInv'
  <2>1. Carries(t)'
    BY <1>10 DEF Carries, Idle
  <2>2. ASSUME NEW u \in Task \ {t} PROVE Carries(u)'
    <3>1. Carries(u)
      BY <1>1 DEF CallInv
    <3>2. CASE At(u, "wait") /\ KeyOf(u) = k
      BY <1>7, <1>8, <1>10, <3>1, <3>2 DEF Carries, OutcomeBound
    <3>3. CASE ~(At(u, "wait") /\ KeyOf(u) = k)
      BY <1>8, <1>10, <3>1, <3>3 DEF Carries, RowBound, OutcomeBound
    <3> QED BY <3>2, <3>3
  <2> QED BY <2>1, <2>2 DEF CallInv
<1>4. FlightInv'
  <2>1. flight[k] = t
    BY <1>1, <1>7 DEF FlightInv, SingleFlight, k
  <2>2. ASSUME NEW u \in Task, Leads(u)' PROVE flight'[KeyOf(u)'] = u
    <3>1. u # t /\ task'[u] = task[u] /\ Leads(u)
      BY <1>10, <2>2 DEF Leads, LeaderPcs, Idle
    <3>2. flight[KeyOf(u)] = u /\ KeyOf(u) \in Keys
      BY <1>1, <3>1 DEF FlightInv, SingleFlight, Leads, LeaderPcs, CallInv, Carries
    <3> QED BY <1>1, <1>10, <2>1, <3>1, <3>2 DEF TypeOK
  <2>3. ASSUME NEW j \in Keys, flight'[j] # None
        PROVE  /\ flight'[j] \in Task
               /\ task'[flight'[j]].pc \in LeaderPcs
               /\ task'[flight'[j]].kind # "orphan"
               /\ task'[flight'[j]].key = j
    <3>1. j # k /\ flight'[j] = flight[j]
      BY <1>1, <1>7, <1>10, <2>3 DEF TypeOK
    <3>2. flight[j] \in Task /\ Leads(flight[j]) /\ task[flight[j]].key = j
      BY <1>1, <2>3, <3>1 DEF FlightInv
    <3>3. flight[j] # t
      BY <3>1, <3>2 DEF k
    <3>4. task'[flight[j]] = task[flight[j]]
      BY <1>10, <3>2, <3>3 DEF Leads, LeaderPcs
    <3> QED BY <3>1, <3>2, <3>4 DEF Leads
  <2>4. ASSUME NEW u \in Task, task'[u].pc = "wait"
        PROVE  flight'[task'[u].key] # None
    <3>1. u # t /\ task'[u] = task[u] /\ KeyOf(u) # k
      BY <1>10, <2>4 DEF Idle
    <3>2. flight[KeyOf(u)] # None /\ KeyOf(u) \in Keys
      BY <1>1, <2>4, <3>1 DEF FlightInv, CallInv, Carries
    <3> QED BY <1>1, <1>10, <3>1, <3>2 DEF TypeOK
  <2> QED BY <2>2, <2>3, <2>4 DEF FlightInv, SingleFlight, Leads
<1>5. TierBound'
  BY <1>1, <1>7, <1>8, <1>9, TtlBounds, RowKeyType
  DEF TypeOK, TierBound, RowBound, OutcomeBound, Inserted, Entry, Row, Outcome
<1>6. AnswerInv'
  BY <1>7, <1>8, TtlBounds
  DEF AnswerInv, AnswerIsForKey, AnswerIsRecent, OutcomeBound, Outcome, k
<1> QED BY <1>2, <1>3, <1>4, <1>5, <1>6 DEF IInv

LEMMA WriteRowIInv ==
  ASSUME IInv, NEW t \in Task, WriteRow(t)
  PROVE  IInv'
<1>1. TypeOK /\ CallInv /\ FlightInv /\ TierBound /\ AnswerInv
  BY DEF IInv
<1>2. TypeOK'
  <2>1. /\ task[t] \in TaskState /\ task[t].pc # "idle"
        /\ KeyOf(t) \in Keys
    BY <1>1 DEF WriteRow, TypeOK, CallInv, Carries, Idle
  <2>2. task'[t] \in TaskState
    BY <1>1, <2>1, TtlBounds, RowKeyType
    DEF WriteRow, TypeOK, CallInv, Carries, TaskState, Pcs, Kinds, Reply, Entry, Row, Outcome, Idle
  <2>3. task' \in [Task -> TaskState]
    BY <1>1, <2>1, <2>2 DEF WriteRow, TypeOK, Idle
  <2>4. /\ now' \in Nat
        /\ l1' \in [Keys -> Entry \cup {None}]
        /\ l2' \in [RowKeys -> Row \cup {None}]
        /\ flight' \in [Keys -> Task \cup {None}]
        /\ reply' \in Reply \cup {None}
    BY <1>1, <2>1, RowKeyType
    DEF WriteRow, TypeOK, CallInv, Carries, TaskState, Pcs, Kinds, Reply, Entry, Row, Outcome, Idle
  <2> QED BY <2>3, <2>4 DEF TypeOK
<1>3. CallInv'
  BY <1>1, TtlBounds, RowKeyType
  DEF WriteRow, Idle, TypeOK, CallInv, Carries, TaskState, TierBound, RowBound, OutcomeBound, Row, Outcome
<1>4. FlightInv'
  BY <1>1
  DEF WriteRow, Idle, TypeOK, CallInv, Carries, TaskState, FlightInv, SingleFlight, Leads, LeaderPcs
<1>5. TierBound'
  BY <1>1, TtlBounds, RowKeyType, RowKeyInjective
  DEF WriteRow, Idle, TypeOK, CallInv, Carries, TaskState, TierBound, RowBound, OutcomeBound, Entry, Row, Outcome
<1>6. AnswerInv'
  BY <1>1, TtlBounds
  DEF WriteRow, Idle, TypeOK, CallInv, Carries, TaskState, TierBound, RowBound, OutcomeBound, AnswerInv, AnswerIsForKey, AnswerIsRecent, Entry, Row, Outcome
<1> QED BY <1>2, <1>3, <1>4, <1>5, <1>6 DEF IInv

LEMMA PublishIInv ==
  ASSUME IInv, NEW t \in Task, Publish(t)
  PROVE  IInv'
<1>1. TypeOK /\ CallInv /\ FlightInv /\ TierBound /\ AnswerInv
  BY DEF IInv
<1> DEFINE k == KeyOf(t)
           v == task[t].out
<1>7. /\ k \in Keys /\ v \in Outcome /\ OutcomeBound(v, k)
      /\ IF v.ok THEN now <= v.at + DbLag ELSE v.at = now
      /\ task[t].kind # "orphan" /\ Leads(t) /\ now \in Nat
  BY <1>1
  DEF Publish, TypeOK, CallInv, Carries, TaskState, Outcome, OutcomeBound, Leads, LeaderPcs
<1>8. Landed(t, k, v) /\ Return(t, v) /\ UNCHANGED <<now, l2>>
  BY DEF Publish
<1>9. l1' = Inserted(k, v) /\ v.ok
  BY <1>1 DEF Publish, CallInv, Carries
<1> HIDE DEF k, v
<1>10. /\ task' \in [Task -> TaskState]
       /\ task'[t] = Idle
       /\ \A u \in Task \ {t} :
            IF At(u, "wait") /\ KeyOf(u) = k
              THEN /\ task'[u].pc = "woken" /\ task'[u].out = v
                   /\ task'[u].key = task[u].key
                   /\ task'[u].kind = task[u].kind
                   /\ task'[u].row = task[u].row
              ELSE task'[u] = task[u]
       /\ flight' = [flight EXCEPT ![k] = None]
       /\ flight' \in [Keys -> Task \cup {None}]
  BY <1>1, <1>7, <1>8, LandedTasks
<1>2. TypeOK'
  <2>1. reply' \in Reply \cup {None}
    BY <1>7, <1>8 DEF Reply, k
  <2>2. l1' \in [Keys -> Entry \cup {None}]
    BY <1>1, <1>7, <1>9, TtlBounds DEF TypeOK, Inserted, Entry
  <2> QED BY <1>1, <1>7, <1>8, <1>10, <2>1, <2>2 DEF TypeOK
<1>3. CallInv'
  <2>1. Carries(t)'
    BY <1>10 DEF Carries, Idle
  <2>2. ASSUME NEW u \in Task \ {t} PROVE Carries(u)'
    <3>1. Carries(u)
      BY <1>1 DEF CallInv
    <3>2. CASE At(u, "wait") /\ KeyOf(u) = k
      BY <1>7, <1>8, <1>10, <3>1, <3>2 DEF Carries, OutcomeBound
    <3>3. CASE ~(At(u, "wait") /\ KeyOf(u) = k)
      BY <1>8, <1>10, <3>1, <3>3 DEF Carries, RowBound, OutcomeBound
    <3> QED BY <3>2, <3>3
  <2> QED BY <2>1, <2>2 DEF CallInv
<1>4. FlightInv'
  <2>1. flight[k] = t
    BY <1>1, <1>7 DEF FlightInv, SingleFlight, k
  <2>2. ASSUME NEW u \in Task, Leads(u)' PROVE flight'[KeyOf(u)'] = u
    <3>1. u # t /\ task'[u] = task[u] /\ Leads(u)
      BY <1>10, <2>2 DEF Leads, LeaderPcs, Idle
    <3>2. flight[KeyOf(u)] = u /\ KeyOf(u) \in Keys
      BY <1>1, <3>1 DEF FlightInv, SingleFlight, Leads, LeaderPcs, CallInv, Carries
    <3> QED BY <1>1, <1>10, <2>1, <3>1, <3>2 DEF TypeOK
  <2>3. ASSUME NEW j \in Keys, flight'[j] # None
        PROVE  /\ flight'[j] \in Task
               /\ task'[flight'[j]].pc \in LeaderPcs
               /\ task'[flight'[j]].kind # "orphan"
               /\ task'[flight'[j]].key = j
    <3>1. j # k /\ flight'[j] = flight[j]
      BY <1>1, <1>7, <1>10, <2>3 DEF TypeOK
    <3>2. flight[j] \in Task /\ Leads(flight[j]) /\ task[flight[j]].key = j
      BY <1>1, <2>3, <3>1 DEF FlightInv
    <3>3. flight[j] # t
      BY <3>1, <3>2 DEF k
    <3>4. task'[flight[j]] = task[flight[j]]
      BY <1>10, <3>2, <3>3 DEF Leads, LeaderPcs
    <3> QED BY <3>1, <3>2, <3>4 DEF Leads
  <2>4. ASSUME NEW u \in Task, task'[u].pc = "wait"
        PROVE  flight'[task'[u].key] # None
    <3>1. u # t /\ task'[u] = task[u] /\ KeyOf(u) # k
      BY <1>10, <2>4 DEF Idle
    <3>2. flight[KeyOf(u)] # None /\ KeyOf(u) \in Keys
      BY <1>1, <2>4, <3>1 DEF FlightInv, CallInv, Carries
    <3> QED BY <1>1, <1>10, <3>1, <3>2 DEF TypeOK
  <2> QED BY <2>2, <2>3, <2>4 DEF FlightInv, SingleFlight, Leads
<1>5. TierBound'
  BY <1>1, <1>7, <1>8, <1>9, TtlBounds, RowKeyType
  DEF TypeOK, TierBound, RowBound, OutcomeBound, Inserted, Entry, Row, Outcome
<1>6. AnswerInv'
  BY <1>7, <1>8, TtlBounds
  DEF AnswerInv, AnswerIsForKey, AnswerIsRecent, OutcomeBound, Outcome, k
<1> QED BY <1>2, <1>3, <1>4, <1>5, <1>6 DEF IInv

LEMMA WakeIInv ==
  ASSUME IInv, NEW t \in Task, Wake(t)
  PROVE  IInv'
<1>1. TypeOK /\ CallInv /\ FlightInv /\ TierBound /\ AnswerInv
  BY DEF IInv
<1>2. TypeOK'
  BY <1>1, TtlBounds, RowKeyType
  DEF Wake, Idle, TypeOK, CallInv, Carries, TaskState, Pcs, Kinds, Reply, Entry, Row, Outcome
<1>3. CallInv'
  BY <1>1, TtlBounds, RowKeyType
  DEF Wake, Idle, TypeOK, CallInv, Carries, TaskState, TierBound, RowBound, OutcomeBound, Row, Outcome
<1>4. FlightInv'
  BY <1>1
  DEF Wake, Idle, TypeOK, CallInv, Carries, TaskState, FlightInv, SingleFlight, Leads, LeaderPcs
<1>5. TierBound'
  BY <1>1, TtlBounds, RowKeyType, RowKeyInjective
  DEF Wake, Idle, TypeOK, CallInv, Carries, TaskState, TierBound, RowBound, OutcomeBound, Entry, Row, Outcome
<1>6. AnswerInv'
  BY <1>1, TtlBounds
  DEF Wake, Idle, TypeOK, CallInv, Carries, TaskState, TierBound, RowBound, OutcomeBound, AnswerInv, AnswerIsForKey, AnswerIsRecent, Entry, Row, Outcome
<1> QED BY <1>2, <1>3, <1>4, <1>5, <1>6 DEF IInv

LEMMA CancelIInv ==
  ASSUME IInv, NEW t \in Task, Cancel(t)
  PROVE  IInv'
<1>1. TypeOK /\ CallInv /\ FlightInv /\ TierBound /\ AnswerInv
  BY DEF IInv
<1>2. TypeOK'
  BY <1>1, TtlBounds, RowKeyType
  DEF Cancel, Idle, Leads, LeaderPcs, TypeOK, CallInv, Carries, TaskState, Pcs, Kinds, Reply, Entry, Row, Outcome
<1>3. CallInv'
  BY <1>1, TtlBounds, RowKeyType
  DEF Cancel, Idle, Leads, LeaderPcs, TypeOK, CallInv, Carries, TaskState, TierBound, RowBound, OutcomeBound, Row, Outcome
<1>4. FlightInv'
  BY <1>1
  DEF Cancel, Idle, Leads, LeaderPcs, TypeOK, CallInv, Carries, TaskState, FlightInv, SingleFlight
<1>5. TierBound'
  BY <1>1, TtlBounds, RowKeyType, RowKeyInjective
  DEF Cancel, Idle, Leads, LeaderPcs, TypeOK, CallInv, Carries, TaskState, TierBound, RowBound, OutcomeBound, Entry, Row, Outcome
<1>6. AnswerInv'
  BY <1>1, TtlBounds
  DEF Cancel, Idle, Leads, LeaderPcs, TypeOK, CallInv, Carries, TaskState, TierBound, RowBound, OutcomeBound, AnswerInv, AnswerIsForKey, AnswerIsRecent, Entry, Row, Outcome
<1> QED BY <1>2, <1>3, <1>4, <1>5, <1>6 DEF IInv

LEMMA EvictIInv ==
  ASSUME IInv, NEW k \in Keys, Evict(k)
  PROVE  IInv'
<1>1. TypeOK /\ CallInv /\ FlightInv /\ TierBound /\ AnswerInv
  BY DEF IInv
<1>2. TypeOK'
  BY <1>1, TtlBounds, RowKeyType
  DEF Evict, TypeOK, CallInv, Carries, TaskState, Pcs, Kinds, Reply, Entry, Row, Outcome
<1>3. CallInv'
  BY <1>1, TtlBounds, RowKeyType
  DEF Evict, TypeOK, CallInv, Carries, TaskState, TierBound, RowBound, OutcomeBound, Row, Outcome
<1>4. FlightInv'
  BY <1>1
  DEF Evict, TypeOK, CallInv, Carries, TaskState, FlightInv, SingleFlight, Leads, LeaderPcs
<1>5. TierBound'
  BY <1>1, TtlBounds, RowKeyType, RowKeyInjective
  DEF Evict, TypeOK, CallInv, Carries, TaskState, TierBound, RowBound, OutcomeBound, Entry, Row, Outcome
<1>6. AnswerInv'
  BY <1>1, TtlBounds
  DEF Evict, TypeOK, CallInv, Carries, TaskState, TierBound, RowBound, OutcomeBound, AnswerInv, AnswerIsForKey, AnswerIsRecent, Entry, Row, Outcome
<1> QED BY <1>2, <1>3, <1>4, <1>5, <1>6 DEF IInv

LEMMA RestartIInv ==
  ASSUME IInv, Restart
  PROVE  IInv'
<1>1. TypeOK /\ CallInv /\ FlightInv /\ TierBound /\ AnswerInv
  BY DEF IInv
<1>2. TypeOK'
  <2>1. Idle \in TaskState
    BY DEF Idle, TaskState, Pcs, Kinds
  <2>2. PICK drifted \in SUBSET RowKeys :
          l2' = [x \in RowKeys |->
                   IF x \in drifted /\ l2[x] # None
                     THEN [l2[x] EXCEPT !.readable = FALSE] ELSE l2[x]]
    BY DEF Restart
  <2>3. ASSUME NEW x \in RowKeys, l2[x] # None
        PROVE  [l2[x] EXCEPT !.readable = FALSE] \in Row
    BY <1>1, <2>3 DEF TypeOK, Row
  <2>4. l2' \in [RowKeys -> Row \cup {None}]
    BY <1>1, <2>2, <2>3 DEF TypeOK
  <2> QED BY <1>1, <2>1, <2>4 DEF Restart, TypeOK
<1>3. CallInv'
  BY <1>1, TtlBounds, RowKeyType
  DEF Restart, Idle, TypeOK, CallInv, Carries, TaskState, TierBound, RowBound, OutcomeBound, Row, Outcome
<1>4. FlightInv'
  BY <1>1
  DEF Restart, Idle, TypeOK, CallInv, Carries, TaskState, FlightInv, SingleFlight, Leads, LeaderPcs
<1>5. TierBound'
  BY <1>1, TtlBounds, RowKeyType, RowKeyInjective
  DEF Restart, Idle, TypeOK, CallInv, Carries, TaskState, TierBound, RowBound, OutcomeBound, Entry, Row, Outcome
<1>6. AnswerInv'
  BY <1>1, TtlBounds
  DEF Restart, Idle, TypeOK, CallInv, Carries, TaskState, TierBound, RowBound, OutcomeBound, AnswerInv, AnswerIsForKey, AnswerIsRecent, Entry, Row, Outcome
<1> QED BY <1>2, <1>3, <1>4, <1>5, <1>6 DEF IInv

LEMMA TickIInv ==
  ASSUME IInv, Tick
  PROVE  IInv'
<1>1. TypeOK /\ CallInv /\ FlightInv /\ TierBound /\ AnswerInv
  BY DEF IInv
<1>2. TypeOK'
  BY <1>1, TtlBounds, RowKeyType
  DEF Tick, LocalPcs, TypeOK, CallInv, Carries, TaskState, Pcs, Kinds, Reply, Entry, Row, Outcome
<1>3. CallInv'
  BY <1>1, TtlBounds, RowKeyType
  DEF Tick, LocalPcs, TypeOK, CallInv, Carries, TaskState, TierBound, RowBound, OutcomeBound, Row, Outcome
<1>4. FlightInv'
  BY <1>1
  DEF Tick, LocalPcs, TypeOK, CallInv, Carries, TaskState, FlightInv, SingleFlight, Leads, LeaderPcs
<1>5. TierBound'
  BY <1>1, TtlBounds, RowKeyType, RowKeyInjective
  DEF Tick, LocalPcs, TypeOK, CallInv, Carries, TaskState, TierBound, RowBound, OutcomeBound, Entry, Row, Outcome
<1>6. AnswerInv'
  BY <1>1, TtlBounds
  DEF Tick, LocalPcs, TypeOK, CallInv, Carries, TaskState, TierBound, RowBound, OutcomeBound, AnswerInv, AnswerIsForKey, AnswerIsRecent, Entry, Row, Outcome
<1> QED BY <1>2, <1>3, <1>4, <1>5, <1>6 DEF IInv

-----------------------------------------------------------------------------
\* The invariant of the specification, and what follows from it.

LEMMA NextIInv == IInv /\ [Next]_vars => IInv'
<1>1. SUFFICES ASSUME IInv, [Next]_vars PROVE IInv'
  OBVIOUS
<1>2. CASE UNCHANGED vars
  BY <1>1, <1>2
  DEF vars, IInv, TypeOK, CallInv, Carries, FlightInv, SingleFlight, Leads,
    TierBound, RowBound, OutcomeBound, AnswerInv, AnswerIsForKey, AnswerIsRecent
<1>3. ASSUME NEW t \in Task, Step(t) PROVE IInv'
  BY <1>1, <1>3, L1HitIInv, L1MissIInv, SelectRowIInv, SelectMissIInv,
    JudgeUnusableIInv, ServeFreshIInv, ServeStaleIInv, SweepIInv, JoinHitIInv,
    JoinWaitIInv, JoinLeadIInv, FetchOkIInv, FetchErrIInv, WriteRowIInv,
    PublishIInv, WakeIInv
  DEF Step, Lookup, Select, Judge, TryGetWith, Fetched
<1>4. CASE Next
  BY <1>1, <1>3, <1>4, StartIInv, CancelIInv, EvictIInv, RestartIInv, TickIInv
  DEF Next
<1> QED BY <1>1, <1>2, <1>4

\* Every reachable state of cached_search and its tiers satisfies the inductive
\* invariant: what tasks carry, who flies what, how old what is.
THEOREM Invariance == Spec => []IInv
BY InitIInv, NextIInv, PTL DEF Spec

\* Every variable keeps its type.
THEOREM TypeCorrect == Spec => []TypeOK
<1>1. IInv => TypeOK
  BY DEF IInv
<1> QED BY Invariance, <1>1, PTL

\* No request is ever answered with the results of another search, whatever the
\* query, the filter and the limit: cached_search with CacheKey and l2_key.
THEOREM AnswersAreForKey == Spec => []AnswerIsForKey
<1>1. IInv => AnswerIsForKey
  BY DEF IInv, AnswerInv
<1> QED BY Invariance, <1>1, PTL

\* No request ever gets results older than two TTLs, or an error that is not of
\* this instant, through any combination of L1, L2, stale serving, re-warming,
\* waiting and restarting.
THEOREM AnswersAreRecent == Spec => []AnswerIsRecent
<1>1. IInv => AnswerIsRecent
  BY DEF IInv, AnswerInv
<1> QED BY Invariance, <1>1, PTL

\* At most one task per key is between the start of the upstream search and the
\* L1 insert: fetch_single_flight.
THEOREM OneFlightPerKey == Spec => []SingleFlight
<1>1. IInv => SingleFlight
  BY DEF IInv, FlightInv
<1> QED BY Invariance, <1>1, PTL

\* A waiting follower always has a leader that is still at work on its key, through
\* failures, disconnects and restarts: it is never left behind by try_get_with.
THEOREM NoFollowerLeftBehind == Spec => []FollowersHaveLeader
<1>1. IInv => FollowersHaveLeader
  BY DEF IInv, FlightInv, CallInv, Carries, FollowersHaveLeader
<1> QED BY Invariance, <1>1, PTL

\* What the tiers hold stays within the age bounds that the answers rest on.
THEOREM TiersAreBounded == Spec => []TierBound
<1>1. IInv => TierBound
  BY DEF IInv
<1> QED BY Invariance, <1>1, PTL

-----------------------------------------------------------------------------
(* SearchCache implements ReadThrough: whatever the tiers and the running calls *)
(* do, each of their steps brings in at most what upstream says of one key now, *)
(* and answers, if at all, for that key and in time.                            *)

\* What a step must do to be one of ReadThrough's that leave the clock alone: it
\* brings in at most what upstream says of k now, and answers, if at all, for k,
\* out of what was held or has just been brought in.
Serves(k) ==
  /\ UNCHANGED now
  /\ Held' \subseteq Held \cup Promise!Upstream(k)
  /\ \/ reply' = None
     \/ reply'.key = k /\ reply'.out \in Held \cup Promise!Upstream(k)

LEMMA ServesImplements ==
  ASSUME IInv', NEW k \in Keys, Serves(k)
  PROVE  Promise!Next
<1>1. CASE reply' = None
  BY <1>1 DEF Serves, Promise!Next, Promise!Move
<1>2. CASE reply' # None
  <2>1. reply' \in Reply /\ reply'.key = k
    BY <1>2 DEF Serves, IInv, TypeOK
  <2> DEFINE v == reply'.out
             t == reply'.task
  <2>2. /\ v \in Held \cup Promise!Upstream(k)
        /\ v.key = k
        /\ now - v.at <= IF v.ok THEN [j \in Keys |-> 2 * Ttl(j)][k] ELSE 0
    BY <1>2, <2>1
    DEF Serves, IInv, TypeOK, AnswerInv, AnswerIsForKey, AnswerIsRecent, Reply, Outcome
  <2>3. t \in Task /\ reply' = [task |-> t, key |-> k, out |-> v]
    BY <2>1 DEF Reply
  <2>4. Promise!Answer(t, k)
    BY <2>2, <2>3 DEF Serves, Promise!Answer
  <2> QED BY <2>3, <2>4 DEF Promise!Next
<1> QED BY <1>1, <1>2

\* The places an outcome can be in, now and after a step.
Within(S) ==
  /\ \A k \in Keys : l1[k] # None => l1[k].val \in S
  /\ \A x \in RowKeys : l2[x] # None => l2[x].val \in S
  /\ \A u \in Task : task[u].pc \in {"judge", "write"} => task[u].row.val \in S
  /\ \A u \in Task : task[u].pc \in {"publish", "woken"} => task[u].out \in S

NextWithin(S) ==
  /\ \A k \in Keys : l1'[k] # None => l1'[k].val \in S
  /\ \A x \in RowKeys : l2'[x] # None => l2'[x].val \in S
  /\ \A u \in Task : task'[u].pc \in {"judge", "write"} => task'[u].row.val \in S
  /\ \A u \in Task : task'[u].pc \in {"publish", "woken"} => task'[u].out \in S

LEMMA HeldIsWithin == ASSUME NEW S, Held \subseteq S PROVE Within(S)
BY DEF Held, Within

LEMMA NextHeldIsWithin == ASSUME NEW S, NextWithin(S) PROVE Held' \subseteq S
BY DEF Held, NextWithin

-----------------------------------------------------------------------------
\* One lemma per action of a call.

USE DEF At, KeyOf, Goto, Done, Return, NoReply

LEMMA L1HitServes ==
  ASSUME IInv, NEW t \in Task, L1Hit(t)
  PROVE  KeyOf(t) \in Keys /\ Serves(KeyOf(t))
<1> DEFINE S == Held \cup Promise!Upstream(KeyOf(t))
<1>1. TypeOK /\ Carries(t)
  BY DEF IInv, CallInv
<1>2. KeyOf(t) \in Keys
  BY <1>1 DEF L1Hit, Carries
<1>3. Within(S)
  BY HeldIsWithin
<1>4. NextWithin(S)
  BY <1>1, <1>2, <1>3, RowKeyType DEF L1Hit, TypeOK, Within, NextWithin, Idle
<1>5. reply' = None \/ (reply'.key = KeyOf(t) /\ reply'.out \in S)
  BY <1>1, <1>2, <1>3 DEF L1Hit, Within
<1> QED BY <1>2, <1>4, <1>5, NextHeldIsWithin DEF L1Hit, Serves

LEMMA L1MissServes ==
  ASSUME IInv, NEW t \in Task, L1Miss(t)
  PROVE  KeyOf(t) \in Keys /\ Serves(KeyOf(t))
<1> DEFINE S == Held \cup Promise!Upstream(KeyOf(t))
<1>1. TypeOK /\ Carries(t)
  BY DEF IInv, CallInv
<1>2. KeyOf(t) \in Keys
  BY <1>1 DEF L1Miss, Carries
<1>3. Within(S)
  BY HeldIsWithin
<1>4. NextWithin(S)
  BY <1>1, <1>2, <1>3, RowKeyType DEF L1Miss, TypeOK, Within, NextWithin
<1>5. reply' = None \/ (reply'.key = KeyOf(t) /\ reply'.out \in S)
  BY <1>1, <1>2, <1>3 DEF L1Miss, Within
<1> QED BY <1>2, <1>4, <1>5, NextHeldIsWithin DEF L1Miss, Serves

LEMMA SelectRowServes ==
  ASSUME IInv, NEW t \in Task, SelectRow(t)
  PROVE  KeyOf(t) \in Keys /\ Serves(KeyOf(t))
<1> DEFINE S == Held \cup Promise!Upstream(KeyOf(t))
<1>1. TypeOK /\ Carries(t)
  BY DEF IInv, CallInv
<1>2. KeyOf(t) \in Keys
  BY <1>1 DEF SelectRow, Carries
<1>3. Within(S)
  BY HeldIsWithin
<1>4. NextWithin(S)
  BY <1>1, <1>2, <1>3, RowKeyType DEF SelectRow, TypeOK, Within, NextWithin
<1>5. reply' = None \/ (reply'.key = KeyOf(t) /\ reply'.out \in S)
  BY <1>1, <1>2, <1>3 DEF SelectRow, Within
<1> QED BY <1>2, <1>4, <1>5, NextHeldIsWithin DEF SelectRow, Serves

LEMMA SelectMissServes ==
  ASSUME IInv, NEW t \in Task, SelectMiss(t)
  PROVE  KeyOf(t) \in Keys /\ Serves(KeyOf(t))
<1> DEFINE S == Held \cup Promise!Upstream(KeyOf(t))
<1>1. TypeOK /\ Carries(t)
  BY DEF IInv, CallInv
<1>2. KeyOf(t) \in Keys
  BY <1>1 DEF SelectMiss, Carries
<1>3. Within(S)
  BY HeldIsWithin
<1>4. NextWithin(S)
  BY <1>1, <1>2, <1>3, RowKeyType DEF SelectMiss, TypeOK, Within, NextWithin
<1>5. reply' = None \/ (reply'.key = KeyOf(t) /\ reply'.out \in S)
  BY <1>1, <1>2, <1>3 DEF SelectMiss, Within
<1> QED BY <1>2, <1>4, <1>5, NextHeldIsWithin DEF SelectMiss, Serves

LEMMA JudgeUnusableServes ==
  ASSUME IInv, NEW t \in Task, JudgeUnusable(t)
  PROVE  KeyOf(t) \in Keys /\ Serves(KeyOf(t))
<1> DEFINE S == Held \cup Promise!Upstream(KeyOf(t))
<1>1. TypeOK /\ Carries(t)
  BY DEF IInv, CallInv
<1>2. KeyOf(t) \in Keys
  BY <1>1 DEF JudgeUnusable, Carries
<1>3. Within(S)
  BY HeldIsWithin
<1>4. NextWithin(S)
  BY <1>1, <1>2, <1>3, RowKeyType DEF JudgeUnusable, TypeOK, Within, NextWithin
<1>5. reply' = None \/ (reply'.key = KeyOf(t) /\ reply'.out \in S)
  BY <1>1, <1>2, <1>3 DEF JudgeUnusable, Within
<1> QED BY <1>2, <1>4, <1>5, NextHeldIsWithin DEF JudgeUnusable, Serves

LEMMA ServeFreshServes ==
  ASSUME IInv, NEW t \in Task, ServeFresh(t)
  PROVE  KeyOf(t) \in Keys /\ Serves(KeyOf(t))
<1> DEFINE S == Held \cup Promise!Upstream(KeyOf(t))
<1>1. TypeOK /\ Carries(t)
  BY DEF IInv, CallInv
<1>2. KeyOf(t) \in Keys
  BY <1>1 DEF ServeFresh, Carries
<1>3. Within(S)
  BY HeldIsWithin
<1>4. NextWithin(S)
  BY <1>1, <1>2, <1>3, RowKeyType DEF ServeFresh, TypeOK, Within, NextWithin, Idle, Inserted
<1>5. reply' = None \/ (reply'.key = KeyOf(t) /\ reply'.out \in S)
  BY <1>1, <1>2, <1>3 DEF ServeFresh, Within
<1> QED BY <1>2, <1>4, <1>5, NextHeldIsWithin DEF ServeFresh, Serves

LEMMA ServeStaleServes ==
  ASSUME IInv, NEW t \in Task, ServeStale(t)
  PROVE  KeyOf(t) \in Keys /\ Serves(KeyOf(t))
<1> DEFINE S == Held \cup Promise!Upstream(KeyOf(t))
<1>1. TypeOK /\ Carries(t)
  BY DEF IInv, CallInv
<1>2. KeyOf(t) \in Keys
  BY <1>1 DEF ServeStale, Carries
<1>3. Within(S)
  BY HeldIsWithin
<1>4. NextWithin(S)
  BY <1>1, <1>2, <1>3, RowKeyType DEF ServeStale, TypeOK, Within, NextWithin
<1>5. reply' = None \/ (reply'.key = KeyOf(t) /\ reply'.out \in S)
  BY <1>1, <1>2, <1>3 DEF ServeStale, Within
<1> QED BY <1>2, <1>4, <1>5, NextHeldIsWithin DEF ServeStale, Serves

LEMMA SweepServes ==
  ASSUME IInv, NEW t \in Task, Sweep(t)
  PROVE  KeyOf(t) \in Keys /\ Serves(KeyOf(t))
<1> DEFINE S == Held \cup Promise!Upstream(KeyOf(t))
<1>1. TypeOK /\ Carries(t)
  BY DEF IInv, CallInv
<1>2. KeyOf(t) \in Keys
  BY <1>1 DEF Sweep, Carries
<1>3. Within(S)
  BY HeldIsWithin
<1>4. NextWithin(S)
  <2>1. \A k \in Keys : l1'[k] # None => l1'[k].val \in S
    BY <1>3 DEF Sweep, Within
  <2>2. \A x \in RowKeys : l2'[x] # None => l2'[x].val \in S
    BY <1>1, <1>2, <1>3, RowKeyType DEF Sweep, TypeOK, Within
  <2>3. \A u \in Task \ {t} : task'[u] = task[u]
    BY <1>1 DEF Sweep, TypeOK
  <2>4. task'[t].pc \in {"idle", "join"}
    BY <1>1 DEF Sweep, TypeOK, TaskState, Idle
  <2> QED BY <1>3, <2>1, <2>2, <2>3, <2>4 DEF Within, NextWithin
<1>5. reply' = None \/ (reply'.key = KeyOf(t) /\ reply'.out \in S)
  BY <1>1, <1>2, <1>3 DEF Sweep, Within
<1> QED BY <1>2, <1>4, <1>5, NextHeldIsWithin DEF Sweep, Serves

LEMMA JoinHitServes ==
  ASSUME IInv, NEW t \in Task, JoinHit(t)
  PROVE  KeyOf(t) \in Keys /\ Serves(KeyOf(t))
<1> DEFINE S == Held \cup Promise!Upstream(KeyOf(t))
<1>1. TypeOK /\ Carries(t)
  BY DEF IInv, CallInv
<1>2. KeyOf(t) \in Keys
  BY <1>1 DEF JoinHit, Carries
<1>3. Within(S)
  BY HeldIsWithin
<1>4. NextWithin(S)
  BY <1>1, <1>2, <1>3, RowKeyType DEF JoinHit, TypeOK, Within, NextWithin, Idle
<1>5. reply' = None \/ (reply'.key = KeyOf(t) /\ reply'.out \in S)
  BY <1>1, <1>2, <1>3 DEF JoinHit, Within
<1> QED BY <1>2, <1>4, <1>5, NextHeldIsWithin DEF JoinHit, Serves

LEMMA JoinWaitServes ==
  ASSUME IInv, NEW t \in Task, JoinWait(t)
  PROVE  KeyOf(t) \in Keys /\ Serves(KeyOf(t))
<1> DEFINE S == Held \cup Promise!Upstream(KeyOf(t))
<1>1. TypeOK /\ Carries(t)
  BY DEF IInv, CallInv
<1>2. KeyOf(t) \in Keys
  BY <1>1 DEF JoinWait, Carries
<1>3. Within(S)
  BY HeldIsWithin
<1>4. NextWithin(S)
  BY <1>1, <1>2, <1>3, RowKeyType DEF JoinWait, TypeOK, Within, NextWithin
<1>5. reply' = None \/ (reply'.key = KeyOf(t) /\ reply'.out \in S)
  BY <1>1, <1>2, <1>3 DEF JoinWait, Within
<1> QED BY <1>2, <1>4, <1>5, NextHeldIsWithin DEF JoinWait, Serves

LEMMA JoinLeadServes ==
  ASSUME IInv, NEW t \in Task, JoinLead(t)
  PROVE  KeyOf(t) \in Keys /\ Serves(KeyOf(t))
<1> DEFINE S == Held \cup Promise!Upstream(KeyOf(t))
<1>1. TypeOK /\ Carries(t)
  BY DEF IInv, CallInv
<1>2. KeyOf(t) \in Keys
  BY <1>1 DEF JoinLead, Carries
<1>3. Within(S)
  BY HeldIsWithin
<1>4. NextWithin(S)
  BY <1>1, <1>2, <1>3, RowKeyType DEF JoinLead, TypeOK, Within, NextWithin
<1>5. reply' = None \/ (reply'.key = KeyOf(t) /\ reply'.out \in S)
  BY <1>1, <1>2, <1>3 DEF JoinLead, Within
<1> QED BY <1>2, <1>4, <1>5, NextHeldIsWithin DEF JoinLead, Serves

LEMMA FetchOkServes ==
  ASSUME IInv, NEW t \in Task, FetchOk(t)
  PROVE  KeyOf(t) \in Keys /\ Serves(KeyOf(t))
<1> DEFINE S == Held \cup Promise!Upstream(KeyOf(t))
<1>1. TypeOK /\ Carries(t)
  BY DEF IInv, CallInv
<1>2. KeyOf(t) \in Keys
  BY <1>1 DEF FetchOk, Carries
<1>3. Within(S)
  BY HeldIsWithin
<1>4. NextWithin(S)
  <2> DEFINE v == [key |-> KeyOf(t), at |-> now, ok |-> TRUE]
  <2>1. v \in S
    BY DEF Promise!Upstream
  <2>2. l1' = l1 /\ l2' = l2
    BY DEF FetchOk
  <2>3. \A u \in Task \ {t} : task'[u] = task[u]
    BY <1>1 DEF FetchOk, TypeOK
  <2>4. \/ task'[t].pc = "write" /\ task'[t].row.val = v
        \/ task'[t].pc = "publish" /\ task'[t].out = v
    BY <1>1 DEF FetchOk, TypeOK, TaskState
  <2> HIDE DEF v, S
  <2> QED BY <1>3, <2>1, <2>2, <2>3, <2>4 DEF Within, NextWithin
<1>5. reply' = None \/ (reply'.key = KeyOf(t) /\ reply'.out \in S)
  BY <1>1, <1>2, <1>3 DEF FetchOk, Within
<1> QED BY <1>2, <1>4, <1>5, NextHeldIsWithin DEF FetchOk, Serves

LEMMA FetchErrServes ==
  ASSUME IInv, NEW t \in Task, FetchErr(t)
  PROVE  KeyOf(t) \in Keys /\ Serves(KeyOf(t))
<1> DEFINE S == Held \cup Promise!Upstream(KeyOf(t))
           v == [key |-> KeyOf(t), at |-> now, ok |-> FALSE]
<1>1. TypeOK /\ Carries(t)
  BY DEF IInv, CallInv
<1>2. KeyOf(t) \in Keys
  BY <1>1 DEF FetchErr, Carries
<1>3. Within(S)
  BY HeldIsWithin
<1>4. v \in Outcome /\ v \in S
  BY <1>1, <1>2 DEF TypeOK, Outcome, Promise!Upstream
<1>5. Landed(t, KeyOf(t), v) /\ Return(t, v) /\ UNCHANGED <<now, l2>>
  BY DEF FetchErr
<1>6. \A k \in Keys : l1'[k] # None => l1'[k].val \in S
  BY <1>3 DEF FetchErr, Within
<1> HIDE DEF v
<1>7. \A u \in Task :
        task'[u] = Idle \/ (task'[u].pc = "woken" /\ task'[u].out = v)
          \/ task'[u] = task[u]
  BY <1>1, <1>2, <1>4, <1>5, LandedTasks
<1> HIDE DEF S
<1>8. NextWithin(S)
  BY <1>3, <1>4, <1>5, <1>6, <1>7 DEF Within, NextWithin, Idle
<1>9. reply' = None \/ (reply'.key = KeyOf(t) /\ reply'.out \in S)
  BY <1>4, <1>5
<1> QED BY <1>2, <1>5, <1>8, <1>9, NextHeldIsWithin DEF S, Serves

LEMMA WriteRowServes ==
  ASSUME IInv, NEW t \in Task, WriteRow(t)
  PROVE  KeyOf(t) \in Keys /\ Serves(KeyOf(t))
<1> DEFINE S == Held \cup Promise!Upstream(KeyOf(t))
<1>1. TypeOK /\ Carries(t)
  BY DEF IInv, CallInv
<1>2. KeyOf(t) \in Keys
  BY <1>1 DEF WriteRow, Carries
<1>3. Within(S)
  BY HeldIsWithin
<1>4. NextWithin(S)
  BY <1>1, <1>2, <1>3, RowKeyType DEF WriteRow, TypeOK, Within, NextWithin, Idle
<1>5. reply' = None \/ (reply'.key = KeyOf(t) /\ reply'.out \in S)
  BY <1>1, <1>2, <1>3 DEF WriteRow, Within
<1> QED BY <1>2, <1>4, <1>5, NextHeldIsWithin DEF WriteRow, Serves

LEMMA PublishServes ==
  ASSUME IInv, NEW t \in Task, Publish(t)
  PROVE  KeyOf(t) \in Keys /\ Serves(KeyOf(t))
<1> DEFINE S == Held \cup Promise!Upstream(KeyOf(t))
           v == task[t].out
<1>1. TypeOK /\ Carries(t)
  BY DEF IInv, CallInv
<1>2. KeyOf(t) \in Keys
  BY <1>1 DEF Publish, Carries
<1>3. Within(S)
  BY HeldIsWithin
<1>4. v \in Outcome /\ v \in S
  BY <1>1, <1>3 DEF Publish, Carries, Within
<1>5. Landed(t, KeyOf(t), v) /\ Return(t, v) /\ UNCHANGED <<now, l2>>
  BY DEF Publish
<1>6. \A k \in Keys : l1'[k] # None => l1'[k].val \in S
  BY <1>1, <1>2, <1>3, <1>4 DEF Publish, TypeOK, Inserted, Within
<1> HIDE DEF v
<1>7. \A u \in Task :
        task'[u] = Idle \/ (task'[u].pc = "woken" /\ task'[u].out = v)
          \/ task'[u] = task[u]
  BY <1>1, <1>2, <1>4, <1>5, LandedTasks
<1> HIDE DEF S
<1>8. NextWithin(S)
  BY <1>3, <1>4, <1>5, <1>6, <1>7 DEF Within, NextWithin, Idle
<1>9. reply' = None \/ (reply'.key = KeyOf(t) /\ reply'.out \in S)
  BY <1>4, <1>5
<1> QED BY <1>2, <1>5, <1>8, <1>9, NextHeldIsWithin DEF S, Serves

LEMMA WakeServes ==
  ASSUME IInv, NEW t \in Task, Wake(t)
  PROVE  KeyOf(t) \in Keys /\ Serves(KeyOf(t))
<1> DEFINE S == Held \cup Promise!Upstream(KeyOf(t))
<1>1. TypeOK /\ Carries(t)
  BY DEF IInv, CallInv
<1>2. KeyOf(t) \in Keys
  BY <1>1 DEF Wake, Carries
<1>3. Within(S)
  BY HeldIsWithin
<1>4. NextWithin(S)
  BY <1>1, <1>2, <1>3, RowKeyType DEF Wake, TypeOK, Within, NextWithin, Idle
<1>5. reply' = None \/ (reply'.key = KeyOf(t) /\ reply'.out \in S)
  BY <1>1, <1>2, <1>3 DEF Wake, Within
<1> QED BY <1>2, <1>4, <1>5, NextHeldIsWithin DEF Wake, Serves

LEMMA CancelServes ==
  ASSUME IInv, NEW t \in Task, Cancel(t)
  PROVE  KeyOf(t) \in Keys /\ Serves(KeyOf(t))
<1> DEFINE S == Held \cup Promise!Upstream(KeyOf(t))
<1>1. TypeOK /\ Carries(t)
  BY DEF IInv, CallInv
<1>2. KeyOf(t) \in Keys
  BY <1>1 DEF Cancel, Carries
<1>3. Within(S)
  BY HeldIsWithin
<1>4. NextWithin(S)
  <2>1. l1' = l1 /\ l2' = l2
    BY DEF Cancel
  <2>2. ASSUME NEW u \in Task, task'[u].pc \in {"judge", "write", "publish", "woken"}
        PROVE  /\ task'[u].pc = task[u].pc
               /\ task'[u].row = task[u].row
               /\ task'[u].out = task[u].out
    BY <1>1, <2>2 DEF Cancel, TypeOK, TaskState, Idle
  <2> QED BY <1>3, <2>1, <2>2 DEF Within, NextWithin
<1>5. reply' = None \/ (reply'.key = KeyOf(t) /\ reply'.out \in S)
  BY <1>1, <1>2, <1>3 DEF Cancel, Within
<1> QED BY <1>2, <1>4, <1>5, NextHeldIsWithin DEF Cancel, Serves

-----------------------------------------------------------------------------
\* The steps of the environment only lose what is held.

LEMMA StartLoses ==
  ASSUME IInv, NEW t \in Task, NEW k \in Keys,
         NEW kind \in {"request", "detached"}, Start(t, k, kind)
  PROVE  Held' \subseteq Held
<1>1. TypeOK /\ Within(Held)
  BY HeldIsWithin DEF IInv
<1>2. NextWithin(Held)
  BY <1>1 DEF Start, TypeOK, Within, NextWithin, Idle
<1> QED BY <1>2, NextHeldIsWithin

LEMMA EvictLoses ==
  ASSUME IInv, NEW k \in Keys, Evict(k)
  PROVE  Held' \subseteq Held
<1>1. TypeOK /\ Within(Held)
  BY HeldIsWithin DEF IInv
<1>2. NextWithin(Held)
  BY <1>1 DEF Evict, TypeOK, Within, NextWithin
<1> QED BY <1>2, NextHeldIsWithin

LEMMA RestartLoses ==
  ASSUME IInv, Restart
  PROVE  Held' \subseteq Held
<1>1. TypeOK /\ Within(Held)
  BY HeldIsWithin DEF IInv
<1>2. ASSUME NEW x \in RowKeys, l2'[x] # None
      PROVE  l2[x] # None /\ l2'[x].val = l2[x].val
  BY <1>1, <1>2 DEF Restart, TypeOK, Row
<1>3. NextWithin(Held)
  BY <1>1, <1>2 DEF Restart, Within, NextWithin, Idle
<1> QED BY <1>3, NextHeldIsWithin

LEMMA TickLoses ==
  ASSUME IInv, Tick
  PROVE  Held' \subseteq Held
<1>1. TypeOK /\ Within(Held)
  BY HeldIsWithin DEF IInv
<1>2. NextWithin(Held)
  BY <1>1 DEF Tick, Within, NextWithin
<1> QED BY <1>2, NextHeldIsWithin

-----------------------------------------------------------------------------
LEMMA InitImplements == Init => Promise!Init
<1>1. SUFFICES ASSUME Init PROVE Promise!Init
  OBVIOUS
<1>2. Held = {}
  BY <1>1 DEF Init, Held, Idle
<1> QED BY <1>1, <1>2 DEF Init, Promise!Init

LEMMA NextImplements ==
  ASSUME IInv, IInv', [Next]_vars
  PROVE  [Promise!Next]_(Promise!vars)
<1>1. CASE UNCHANGED vars
  BY <1>1 DEF vars, Promise!vars, Held
<1>2. ASSUME NEW t \in Task, Step(t) \/ Cancel(t) PROVE Promise!Next
  <2>1. KeyOf(t) \in Keys /\ Serves(KeyOf(t))
    BY <1>2, L1HitServes, L1MissServes, SelectRowServes, SelectMissServes,
      JudgeUnusableServes, ServeFreshServes, ServeStaleServes, SweepServes,
      JoinHitServes, JoinWaitServes, JoinLeadServes, FetchOkServes,
      FetchErrServes, WriteRowServes, PublishServes, WakeServes, CancelServes
    DEF Step, Lookup, Select, Judge, TryGetWith, Fetched
  <2> QED BY <2>1, ServesImplements
<1>3. ASSUME NEW t \in Task, NEW k \in Keys,
             NEW kind \in {"request", "detached"}, Start(t, k, kind)
      PROVE  Promise!Next
  BY <1>3, StartLoses DEF Start, Promise!Next, Promise!Move
<1>4. ASSUME NEW k \in Keys, Evict(k) PROVE Promise!Next
  BY <1>4, EvictLoses DEF Evict, Promise!Next, Promise!Move
<1>5. CASE Restart
  BY <1>5, RestartLoses DEF Restart, Promise!Next, Promise!Move
<1>6. CASE Tick
  BY <1>6, TickLoses DEF Tick, Promise!Next, Promise!Pass
<1> QED BY <1>1, <1>2, <1>3, <1>4, <1>5, <1>6 DEF Next

\* The search cache keeps the promise of ReadThrough: every answer of
\* cached_search is an outcome that upstream gave for the very search that was
\* asked, at most two TTLs ago, and an error is never kept.
THEOREM Implements == Spec => KeepsPromise
<1> QED BY InitImplements, NextImplements, Invariance, PTL
        DEF Spec, KeepsPromise, Promise!Spec

==============================================================================
