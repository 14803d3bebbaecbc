SPECIFICATION Spec
CONSTANTS
  MaxInt = 100
  Columns <- MCColumns
  Contents <- MCContents
  Evaluated <- MCEvaluated
  Printed <- MCPrinted
  s1 = s1
  s2 = s2
  s3 = s3
  Stmt = {s1, s2, s3}
  Scenarios <- MCScenarios
  Hurried = {s1}
INVARIANT AnswersMeanThePlan
INVARIANT NothingLeftOpen
INVARIANT RowsAligned
PROPERTY LifeCycle
PROPERTY StatementsEnd
