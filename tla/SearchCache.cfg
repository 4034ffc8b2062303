CONSTANTS
  None = None  NoInstrument = NoInstrument
  t1 = t1 t2 = t2 t3 = t3
  Char <- MCChar  Sep = "|"  Sources <- MCSources  MuseScore <- MCMuseScore
  Queries <- MCQueries  Limits = {20, 40}  Decimal <- MCDecimal
  Instruments = {"piano"}  Slug <- MCSlug
  ShortTtl = 1  LongTtl = 2
  Keys <- OneKey
  Task = {t1, t2, t3}
  L2Enabled = TRUE
  DbLag = 1
  MaxTime = 5
SPECIFICATION Spec
INVARIANTS TypeOK AnswerIsRecent SingleFlight FollowersHaveLeader TierBound
PROPERTY KeepsPromise
SYMMETRY Symmetry
