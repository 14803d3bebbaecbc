SPECIFICATION Spec
CONSTANTS
  u = u
  p = p
  q = q
  Boot = Boot
  NoTable = NoTable
  NoHeap = NoHeap
  NoStats <- MCNoStats
  c1 = c1
  c2 = c2
  q1 = q1
  l1 = l1
  i1 = i1
  Creator = {c1, c2}
  Seeder = {}
  Inserter = {i1}
  Selector = {q1}
  Lister = {l1}
  Name <- MCAll
  SeedSeq <- MCOneSeed
  CreateNames <- MCAll
  SeedRows = 1
  InsertRows = 1
INVARIANT UserTablesAgree
INVARIANT UserRowsFit
INVARIANT OneCreateWins
INVARIANT UserCreateNeverRollsBack
INVARIANT StatementsSeeAckedTables
INVARIANT ListingsShowAckedTables
SYMMETRY Symmetry
\* once every request is answered the server only waits
CHECK_DEADLOCK FALSE
