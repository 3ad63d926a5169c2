SPECIFICATION Spec
CONSTANTS
  Threads = {t1}
  Rows = {r1}
  Seeded = {r1}
  Tracked <- TwoFields
  Values = {old, new}
  Old = old
  None = None
  RowsOf <- OneForAll
  MaxWrites = 1
  MaxFaults = 1
PROPERTY SuccessMeansSynced
