CONSTANTS
  None = None  Warmer = Warmer  Refresher = Refresher
  r1 = r1 r2 = r2
  Request = {r1, r2}
  PoolSize = 1
  Refreshing = TRUE
  FsFaults = TRUE
  Disconnects = TRUE
SPECIFICATION FairSpec
PROPERTY TasksEnd
