CONSTANTS
  NoInstrument = NoInstrument  Guitar = "guitar"
  Waiting = Waiting  Failed = Failed
  Query = "en"  Variants <- MCVariants
  PageSize = 2  MaxPage = 3
  Visits <- MCVisits
  Faults = 2
SPECIFICATION Spec
INVARIANTS TypeOK AppendsContinue LastPageIsLast OneSolvePerSearch SelectedOnly
