SPECIFICATION FairSpec
CONSTANTS
  a = a
  b = b
  m = m
  s1 = s1
  s2 = s2
  s3 = s3
  NoOne = NoOne
  Stmt = {s1, s2, s3}
  Lock <- MCLock
  Rank <- MCRank
  Shape <- MCOrdered
  MaxRows = 2
INVARIANT LockInv
INVARIANT SomeoneRuns
PROPERTY StatementsEnd
\* statements that have ended take no step
CHECK_DEADLOCK FALSE
