SPECIFICATION FairSpec
CONSTANTS
  a = a
  b = b
  m = m
  s1 = s1
  s2 = s2
  NoOne = NoOne
  Stmt = {s1, s2}
  Lock <- MCLock
  Rank <- MCRank
  Shape <- MCSelf
  MaxRows = 2
PROPERTY StatementsEnd
\* statements that have ended take no step
CHECK_DEADLOCK FALSE
