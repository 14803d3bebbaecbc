------------------------------ MODULE HashJoin ------------------------------
(***************************************************************************)
(* operators/hash_join.go: the build loop of Open (lines 48-68), one turn  *)
(* of the loop of Next (84-141) an action, and joinKey (145-181).  The     *)
(* hash key of a value is its display string.                              *)
(***************************************************************************)
EXTENDS KeyedJoin

VARIABLES built,        \* how many right rows the build loop has read
          hashTable,    \* the right rows by key
          currentLeft,  \* how many left rows have been fetched; the last is current
          probeQueue    \* matches of the current row still to return

vars == <<opened, closes, join, pc, built, hashTable, currentLeft, probeQueue,
          delivered, returned>>

Key == {Text[v] : v \in Value} \union {"true", "false", "NULL", "cross"}

NullKey == [kind |-> "null"]
BadKey == [kind |-> "error"]
UseKey(k) == [kind |-> "key", key |-> k]

Display(v) == IF v = Null THEN "NULL" ELSE IF v \in Value THEN Text[v] ELSE v

JoinKey(row, side) ==
  LET v == SideValue(row, side)
  IN IF v = Unfound THEN BadKey
     ELSE IF v = Null /\ ByEquality THEN NullKey
     ELSE UseKey(Display(v))

LeftKey(i) == JoinKey(join.left[i], "left")
RightKey(k) == JoinKey(join.right[k], "right")

-----------------------------------------------------------------------------

Init ==
  /\ KeyedInit
  /\ built = 0 /\ hashTable = [k \in Key |-> <<>>]
  /\ currentLeft = 0 /\ probeQueue = <<>>

Open ==
  /\ OpenChildren
  /\ UNCHANGED <<built, hashTable, currentLeft, probeQueue>>

\* A turn of the build loop; line 62 returns with both children open.
BuildRow ==
  /\ pc = "build" /\ built < Len(join.right)
  /\ built' = built + 1
  /\ LET key == RightKey(built + 1)
     IN \/ key = BadKey /\ pc' = "refused" /\ UNCHANGED hashTable
        \/ key = NullKey /\ UNCHANGED <<pc, hashTable>>
        \/ /\ key.kind = "key"
           /\ hashTable' = [hashTable EXCEPT ![key.key] = Append(@, built + 1)]
           /\ UNCHANGED pc
  /\ UNCHANGED <<children, join, currentLeft, probeQueue, answers>>

\* Mutant: the right child is left open.
BuildEndOpen ==
  /\ pc = "build" /\ built = Len(join.right)
  /\ pc' = IF join.rightFault = "next" THEN "refused" ELSE "ready"
  /\ UNCHANGED <<children, join, built, hashTable, currentLeft, probeQueue, answers>>

\* Line 53 closes the left child only.
BuildEnd ==
  /\ pc = "build" /\ built = Len(join.right)
  /\ \/ /\ join.rightFault = "next"
        /\ closes' = Closed({"left"}) /\ pc' = "refused"
     \/ /\ join.rightFault # "next"
        /\ closes' = Closed({"right"}) /\ pc' = "ready"
  /\ UNCHANGED <<opened, join, built, hashTable, currentLeft, probeQueue, answers>>

NextCall ==
  /\ Call
  /\ UNCHANGED <<built, hashTable, currentLeft, probeQueue>>

EmitQueued ==
  /\ probeQueue # <<>>
  /\ Return(<<currentLeft, Head(probeQueue)>>)
  /\ probeQueue' = Tail(probeQueue)
  /\ UNCHANGED currentLeft

LeftEnds ==
  /\ probeQueue = <<>> /\ currentLeft = Len(join.left)
  /\ Leave(IF join.leftFault = "next" THEN "failed" ELSE "eof")
  /\ UNCHANGED <<currentLeft, probeQueue>>

\* An outer row without a partner.
Alone(i) == IF join.type = "left" THEN Return(<<i, 0>>) ELSE Leave("loop")

\* Mutant: an inner row without a partner is looked at again and again.
ProbeStuck ==
  /\ probeQueue = <<>> /\ currentLeft < Len(join.left)
  /\ LET key == LeftKey(currentLeft + 1)
     IN \/ key = BadKey /\ Leave("failed") /\ UNCHANGED <<currentLeft, probeQueue>>
        \/ /\ key = NullKey \/ (key.kind = "key" /\ hashTable[key.key] = <<>>)
           /\ Alone(currentLeft + 1) /\ UNCHANGED probeQueue
           /\ currentLeft' = currentLeft + (IF join.type = "left" THEN 1 ELSE 0)
        \/ /\ key.kind = "key" /\ hashTable[key.key] # <<>>
           /\ Return(<<currentLeft + 1, Head(hashTable[key.key])>>)
           /\ currentLeft' = currentLeft + 1
           /\ probeQueue' = Tail(hashTable[key.key])

Probe ==
  /\ probeQueue = <<>> /\ currentLeft < Len(join.left)
  /\ currentLeft' = currentLeft + 1
  /\ LET key == LeftKey(currentLeft + 1)
     IN \/ key = BadKey /\ Leave("failed") /\ UNCHANGED probeQueue
        \/ key = NullKey /\ Alone(currentLeft + 1) /\ UNCHANGED probeQueue
        \/ /\ key.kind = "key" /\ hashTable[key.key] = <<>>
           /\ Alone(currentLeft + 1) /\ UNCHANGED probeQueue
        \/ /\ key.kind = "key" /\ hashTable[key.key] # <<>>
           /\ Return(<<currentLeft + 1, Head(hashTable[key.key])>>)
           /\ probeQueue' = Tail(hashTable[key.key])

Turn ==
  /\ pc = "loop"
  /\ EmitQueued \/ LeftEnds \/ Probe
  /\ UNCHANGED <<children, join, built, hashTable>>

Close ==
  /\ pc \in {"ready", "eof", "failed"}
  /\ closes' = Closed({"left"})
  /\ hashTable' = [k \in Key |-> <<>>]
  /\ pc' = "closed"
  /\ UNCHANGED <<opened, join, built, currentLeft, probeQueue, answers>>

Next == Open \/ BuildRow \/ BuildEnd \/ NextCall \/ Turn \/ Close

Spec == Init /\ [][Next]_vars /\ WF_vars(BuildRow \/ BuildEnd) /\ WF_vars(Turn)
=============================================================================
