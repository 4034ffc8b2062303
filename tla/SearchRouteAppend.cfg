CONSTANTS
  NoInstrument = NoInstrument  Guitar = "guitar"
  Waiting = Waiting  Failed = Failed
  Query = "en"  Variants <- MCVariants
  PageSize = 2  MaxPage = 3
  Visits <- MixedVisits
  Faults = 0
SPECIFICATION Spec
INVARIANT ShownOnce
