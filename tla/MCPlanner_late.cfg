SPECIFICATION Spec
CONSTANTS
  MaxInt = 3
  Columns <- MCColumns
  Contents <- MCContents
  Evaluated <- MCEvaluated
  Printed <- MCPrinted
  Queries <- MCLateTrue
  MaxRounds = 4
  MaxJoinRelations = 3
  SettledAfter = 2
INVARIANT AnswersAlike
\* an optimised plan stays as it is
CHECK_DEADLOCK FALSE
