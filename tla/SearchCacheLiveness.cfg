CONSTANTS
  None = None  NoInstrument = NoInstrument
  t1 = t1 t2 = t2 t3 = t3
  Char <- MCChar  Sep = "|"  Sources <- MCSources  MuseScore <- MCMuseScore
  Queries <- MCQueries  Limits = {20, 40}  Decimal <- MCDecimal
  Instruments = {"piano"}  Slug <- MCSlug
  ShortTtl = 1  LongTtl = 1
  Keys <- CollidingKeys
  Task = {t1, t2}
  L2Enabled = TRUE
  DbLag = 0
  MaxTime = 1
SPECIFICATION FairSpec
INVARIANT AnswerIsForKey
PROPERTY CallsEnd
