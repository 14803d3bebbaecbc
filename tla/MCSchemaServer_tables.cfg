SPECIFICATION FairSpec
CONSTANTS
  u = u
  p = p
  q = q
  Boot = Boot
  NoTable = NoTable
  NoHeap = NoHeap
  NoStats <- MCNoStats
  c1 = c1
  s1 = s1
  i1 = i1
  Creator = {c1}
  Seeder = {s1}
  Inserter = {i1}
  Selector = {}
  Lister = {}
  Name <- MCName
  SeedSeq <- MCSeedSeq
  CreateNames <- MCAll
  SeedRows = 2
  InsertRows = 2
INVARIANT TypeOK
INVARIANT NoNilHeap
INVARIANT AckedInsertsStay
INVARIANT StatsNeverAhead
INVARIANT SeedRestores
PROPERTY UserTablesStay
PROPERTY EveryRequestReplied
PROPERTY RegisteredGetsHeap
\* once every request is answered the server only waits
CHECK_DEADLOCK FALSE
