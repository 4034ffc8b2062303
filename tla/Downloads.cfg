CONSTANTS
  None = None
  t1 = t1  t2 = t2
  Task = {t1, t2}
  Crowds <- MCCrowds
  FsFaults = TRUE
  QueueBound = 2
  Deploys <- MCDeploys  SaltIn <- MCSaltIn  Fallback = "fallback"  Pages = 3  Concurrency = 2
  Names = {"__", "Nocturne"}  AddBound = 2
SPECIFICATION FairSpec
INVARIANTS TypeOK SaltFromOwnPage
  WholeScore RowsHaveTheirFile
PROPERTY DownloadsEnd
