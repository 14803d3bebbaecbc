SPECIFICATION Spec
CONSTANTS
  u = u
  p = p
  q = q
  Boot = Boot
  NoTable = NoTable
  NoHeap = NoHeap
  NoStats <- MCNoStats
  c1 = c1
  s1 = s1
  s2 = s2
  Creator = {c1}
  Seeder = {s1, s2}
  Inserter = {}
  Selector = {}
  Lister = {}
  Name <- MCName
  SeedSeq <- MCSeedSeq
  CreateNames <- MCAll
  SeedRows = 1
  InsertRows = 2
PROPERTY RollbackSparesOtherTables
\* once every request is answered the server only waits
CHECK_DEADLOCK FALSE
