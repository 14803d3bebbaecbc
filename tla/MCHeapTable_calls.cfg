SPECIFICATION FairSpec
CONSTANTS
  a = a
  b = b
  c1 = c1
  c2 = c2
  c3 = c3
  Client = {c1, c2, c3}
  NoCall = NoCall
  NoOne = NoOne
  Value <- MCValue
  Calls <- MCCalls
  InitialRows <- MCInitialRows
INVARIANT CompactionSound
PROPERTY MethodsAreAtomic
PROPERTY CallsReturn
\* a table whose callers are all done stays as it is
CHECK_DEADLOCK FALSE
