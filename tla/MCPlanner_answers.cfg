SPECIFICATION Spec
CONSTANTS
  MaxInt = 3
  Columns <- MCColumns
  Contents <- MCContents
  Evaluated <- MCEvaluated
  Printed <- MCPrinted
  Queries <- MCQueries
  MaxRounds = 4
  MaxJoinRelations = 3
  SettledAfter = 2
INVARIANT AnswersAlike
INVARIANT AnswersMeanTheQuery
INVARIANT ColumnsStay
INVARIANT FiltersSunk
PROPERTY ConditionsKept
PROPERTY Settles
PROPERTY PlanningEnds
\* an optimised plan stays as it is
CHECK_DEADLOCK FALSE
