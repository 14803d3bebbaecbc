SPECIFICATION Spec
CONSTANTS
  one = one
  two = two
  Null = Null
  NoCondition = NoCondition
  LeftColumns = {"id"}
  RightColumns = {"id", "customer"}
  Value <- MCValue
  Text <- MCText
  Holds <- MCHolds
  Joins <- MCAllJoins
  HashJoins <- MCHashJoins
  MergeJoins <- MCMergeJoins
INVARIANT ChildrenReleased
INVARIANT MergeUndoesOpen
PROPERTY IsJoinCursor
PROPERTY LoopsEnd
\* a join that is closed, or whose Open failed, stays as it is
CHECK_DEADLOCK FALSE
