------------------------------- MODULE CacheKey -------------------------------
(***************************************************************************)
(* The key of a cached search (src/cache.rs, CacheKey): its four fields,   *)
(* the text it becomes as primary key of the durable table, and the time   *)
(* to live of what is cached under it.                                     *)
(*                                                                         *)
(* A text is a sequence of characters.  The number and the instrument of a *)
(* key become text through Decimal and Slug.                               *)
(***************************************************************************)
EXTENDS Naturals, Sequences

CONSTANTS
  Char,          \* the characters a text may hold
  Sep,           \* U+001F, the character l2_key puts between the fields
  Sources,       \* source ids (texts)
  MuseScore,     \* the source id "musescore"
  Queries,       \* query texts; a user may type any character, Sep included
  Limits,        \* per-source result limits
  Decimal,       \* Decimal[n]: the text of the limit n
  Instruments,   \* instrument filters
  NoInstrument,  \* no instrument filter (None)
  Slug,          \* Slug[i]: the text of instrument i
  ShortTtl,      \* CACHE_TTL_SECS, in ticks
  LongTtl        \* MUSESCORE_CACHE_TTL_SECS, in ticks

PlainText == Seq(Char \ {Sep})

ASSUME KeyAssumption ==
  /\ Sep \in Char
  /\ Sources \subseteq PlainText
  /\ Queries \subseteq Seq(Char)
  /\ Decimal \in [Limits -> PlainText]
  /\ \A m, n \in Limits : Decimal[m] = Decimal[n] => m = n
  /\ NoInstrument \notin Instruments
  /\ Slug \in [Instruments -> PlainText]
  /\ \A i, j \in Instruments : Slug[i] = Slug[j] => i = j
  /\ \A i \in Instruments : Slug[i] # << >>

ASSUME TtlAssumption ==
  /\ ShortTtl \in Nat \ {0}
  /\ LongTtl \in Nat
  /\ ShortTtl <= LongTtl

Key == [source     : Sources,
        query      : Queries,
        limit      : Limits,
        instrument : Instruments \cup {NoInstrument}]

\* Option<Instrument> as text: no filter is the empty text.
InstrumentText(i) == IF i = NoInstrument THEN << >> ELSE Slug[i]

\* (Mutant of L2Key) Without an instrument filter its field is left out.
L2KeySkippingField(k) ==
  k.source \o <<Sep>> \o Decimal[k.limit] \o <<Sep>>
    \o (IF k.instrument = NoInstrument THEN << >>
        ELSE Slug[k.instrument] \o <<Sep>>)
    \o k.query

\* The primary key of a search in the durable table.
L2Key(k) ==
  k.source \o <<Sep>> \o Decimal[k.limit] \o <<Sep>>
    \o InstrumentText(k.instrument) \o <<Sep>> \o k.query

Ttl(k) == IF k.source = MuseScore THEN LongTtl ELSE ShortTtl

==============================================================================
