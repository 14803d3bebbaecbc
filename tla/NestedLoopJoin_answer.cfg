\* Both children of up to two rows; every join type, condition and fault.
SPECIFICATION Spec
CONSTANTS
  Types = {"inner", "left", "right", "cross", "full"}
  LeftSizes = {0, 1, 2}
  RightSizes = {0, 1, 2}
INVARIANT NLInv
INVARIANT ChildrenReleased
PROPERTY IsJoinCursor
PROPERTY NextReturns
\* a join that is closed, or whose Open failed, stays as it is
CHECK_DEADLOCK FALSE
