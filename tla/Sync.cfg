SPECIFICATION FairSpec
CONSTANTS
  Threads = {t1, t2}
  Rows = {r1, r2}
  Seeded = {r1}
  Tracked <- TwoFields
  Values = {old, new}
  Old = old
  None = None
  RowsOf <- OneForAll
  MaxWrites = 2
  MaxFaults = 1
INVARIANT TypeOK
INVARIANT OnlyOvertakenStale
INVARIANT NothingForgotten
INVARIANT RemoteWasLocal
PROPERTY FirstFieldArrives
