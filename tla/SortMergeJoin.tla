--------------------------- MODULE SortMergeJoin ----------------------------
(***************************************************************************)
(* operators/sort_merge_join.go: Open reads and sorts both sides, a turn   *)
(* of the loop of Next (206-280), or of nextRightJoin (284-336), is an     *)
(* action.                                                                 *)
(***************************************************************************)
EXTENDS KeyedJoin, FiniteSetsExt

VARIABLES leftRows, rightRows,  \* the positions of the rows, sorted by key
          leftIdx, rightIdx,    \* how many of each side are behind
          group                 \* the equal keys whose pairs are being returned

places == <<leftRows, rightRows>>
vars == <<opened, closes, join, pc, leftRows, rightRows, leftIdx, rightIdx, group,
          delivered, returned>>

\* Rows whose key is NULL or cannot be evaluated get the key NULL.
TypedKey(row, side) ==
  LET v == SideValue(row, side) IN IF v = Unfound THEN Null ELSE v

LeftKey(i) == TypedKey(join.left[i], "left")
RightKey(k) == TypedKey(join.right[k], "right")

\* Compare, when it is no error; what joins without a column have, "cross",
\* and verdicts equal themselves, and "false" is before "true".
Less(a, b) == <<a, b>> \in Holds["<"] \union {<<"false", "true">>}

-----------------------------------------------------------------------------
(* sort.SliceStable: insertion sort, as it is for up to 20 elements.        *)

\* The row before which x comes to rest: x moves up while it is less than the
\* one before it, and stops at the first it is not less than.
RestsAfter(x, sorted, key) ==
  Max({0} \union {n \in DOMAIN sorted : ~Less(key[x], key[sorted[n]])})

Insert(x, sorted, key) ==
  LET n == RestsAfter(x, sorted, key)
  IN SubSeq(sorted, 1, n) \o <<x>> \o SubSeq(sorted, n + 1, Len(sorted))

SliceStable(key) ==
  LET sorted[n \in 0 .. Len(key)] == IF n = 0 THEN <<>> ELSE Insert(n, sorted[n - 1], key)
  IN sorted[Len(key)]

-----------------------------------------------------------------------------

NoGroup == [leftPos |-> 0, rightPos |-> 0, leftEnd |-> 0, rightStart |-> 0, rightEnd |-> 0]

Init ==
  /\ KeyedInit
  /\ leftRows = <<>> /\ rightRows = <<>>
  /\ leftIdx = 0 /\ rightIdx = 0 /\ group = NoGroup

Open ==
  /\ OpenChildren
  /\ UNCHANGED <<places, leftIdx, rightIdx, group>>

\* Lines 61-74; a left child that fails has both closed.
LoadLeft ==
  /\ pc = "build"
  /\ IF join.leftFault = "next"
     THEN closes' = Closed(Child) /\ pc' = "refused"
     ELSE closes' = Closed({"left"}) /\ pc' = "load"
  /\ UNCHANGED <<opened, join, places, leftIdx, rightIdx, group, answers>>

\* Mutant: the right child is not closed when it fails.
LoadRightOpen ==
  /\ pc = "load"
  /\ IF join.rightFault = "next"
     THEN /\ UNCHANGED <<closes, places>> /\ pc' = "refused"
     ELSE /\ closes' = Closed({"right"}) /\ pc' = "ready"
          /\ leftRows' = SliceStable([i \in DOMAIN join.left |-> LeftKey(i)])
          /\ rightRows' = SliceStable([k \in DOMAIN join.right |-> RightKey(k)])
  /\ UNCHANGED <<opened, join, leftIdx, rightIdx, group, answers>>

\* Lines 76-127.
LoadRight ==
  /\ pc = "load" /\ closes' = Closed({"right"})
  /\ IF join.rightFault = "next"
     THEN /\ UNCHANGED places /\ pc' = "refused"
     ELSE /\ leftRows' = SliceStable([i \in DOMAIN join.left |-> LeftKey(i)])
          /\ rightRows' = SliceStable([k \in DOMAIN join.right |-> RightKey(k)])
          /\ pc' = "ready"
  /\ UNCHANGED <<opened, join, leftIdx, rightIdx, group, answers>>

NextCall ==
  /\ Call
  /\ UNCHANGED <<places, leftIdx, rightIdx, group>>

-----------------------------------------------------------------------------
(* Next *)

LeftLeft == leftIdx < Len(leftRows)
RightLeft == rightIdx < Len(rightRows)
TopLeft == LeftKey(leftRows[leftIdx + 1])
TopRight == RightKey(rightRows[rightIdx + 1])

\* A row is passed, and returned alone if the join keeps it.
PassLeft(padded) ==
  /\ leftIdx' = leftIdx + 1
  /\ IF padded THEN Return(<<leftRows[leftIdx + 1], 0>>) ELSE Leave("loop")
  /\ UNCHANGED <<rightIdx, group>>

PassRight(padded) ==
  /\ rightIdx' = rightIdx + 1
  /\ IF padded THEN Return(<<0, rightRows[rightIdx + 1]>>) ELSE Leave("loop")
  /\ UNCHANGED <<leftIdx, group>>

InGroup == group # NoGroup

\* Mutant: the next left row of the group meets the right rows from the second on.
EmitPairOff ==
  /\ InGroup
  /\ Return(<<leftRows[group.leftPos + 1], rightRows[group.rightPos + 1]>>)
  /\ LET lastRight == group.rightPos + 1 = group.rightEnd
         lastPair == lastRight /\ group.leftPos + 1 = group.leftEnd
     IN IF lastPair
        THEN /\ leftIdx' = group.leftEnd /\ rightIdx' = group.rightEnd
             /\ group' = NoGroup
        ELSE /\ group' = IF lastRight
                         THEN [group EXCEPT !.leftPos = @ + 1]
                         ELSE [group EXCEPT !.rightPos = @ + 1]
             /\ UNCHANGED <<leftIdx, rightIdx>>

\* One pair of the group; the last one moves past the group on both sides.
EmitPair ==
  /\ InGroup
  /\ Return(<<leftRows[group.leftPos + 1], rightRows[group.rightPos + 1]>>)
  /\ LET lastRight == group.rightPos + 1 = group.rightEnd
         lastPair == lastRight /\ group.leftPos + 1 = group.leftEnd
     IN IF lastPair
        THEN /\ leftIdx' = group.leftEnd /\ rightIdx' = group.rightEnd
             /\ group' = NoGroup
        ELSE /\ group' = IF lastRight
                         THEN [group EXCEPT !.leftPos = @ + 1, !.rightPos = group.rightStart]
                         ELSE [group EXCEPT !.rightPos = @ + 1]
             /\ UNCHANGED <<leftIdx, rightIdx>>

\* The preserved side is the right one in a RIGHT JOIN, else the left one.
SideEnds ==
  LET keepsRight == join.type = "right"
  IN \/ /\ IF keepsRight THEN ~RightLeft ELSE ~LeftLeft
        /\ Leave("eof") /\ UNCHANGED <<leftIdx, rightIdx, group>>
     \/ /\ keepsRight /\ RightLeft /\ ~LeftLeft
        /\ PassRight(TRUE)
     \/ /\ ~keepsRight /\ LeftLeft /\ ~RightLeft
        /\ \/ join.type = "left" /\ PassLeft(TRUE)
           \/ join.type = "inner" /\ Leave("eof") /\ UNCHANGED <<leftIdx, rightIdx, group>>

\* Lines 253-260 and 308-316: a left row with a NULL key is passed over in an
\* outer join, too.
SkipNull ==
  \/ TopLeft = Null /\ PassLeft(FALSE)
  \/ TopLeft # Null /\ TopRight = Null /\ PassRight(join.type = "right")

Advance ==
  /\ Null \notin {TopLeft, TopRight}
  /\ \/ Less(TopLeft, TopRight) /\ PassLeft(join.type = "left")
     \/ Less(TopRight, TopLeft) /\ PassRight(join.type = "right")

KeysEqual(a, b) == a # Null /\ (a = b \/ <<a, b>> \in Holds["="])

\* How many rows are behind the end of a run of keys equal to the one at idx.
RunEnd(keys, idx) ==
  Max({n \in idx + 1 .. Len(keys) :
         \A m \in idx + 2 .. n : KeysEqual(keys[m], keys[idx + 1])})

\* Neither key is less; keys that cannot be compared are such, too.
EnterGroup ==
  /\ Null \notin {TopLeft, TopRight}
  /\ ~Less(TopLeft, TopRight) /\ ~Less(TopRight, TopLeft)
  /\ group' = [leftPos |-> leftIdx, rightPos |-> rightIdx,
               leftEnd |-> RunEnd([n \in DOMAIN leftRows |-> LeftKey(leftRows[n])], leftIdx),
               rightStart |-> rightIdx,
               rightEnd |-> RunEnd([n \in DOMAIN rightRows |-> RightKey(rightRows[n])], rightIdx)]
  /\ Leave("loop") /\ UNCHANGED <<leftIdx, rightIdx>>

Merge ==
  /\ ~InGroup
  /\ \/ SideEnds
     \/ LeftLeft /\ RightLeft /\ (SkipNull \/ Advance \/ EnterGroup)

Turn ==
  /\ pc = "loop"
  /\ EmitPair \/ Merge
  /\ UNCHANGED <<children, join, places>>

\* The children were closed by Open.
Close ==
  /\ pc \in {"ready", "eof"}
  /\ leftRows' = <<>> /\ rightRows' = <<>>
  /\ pc' = "closed"
  /\ UNCHANGED <<children, join, leftIdx, rightIdx, group, answers>>

Next == Open \/ LoadLeft \/ LoadRight \/ NextCall \/ Turn \/ Close

Spec == Init /\ [][Next]_vars /\ WF_vars(LoadLeft \/ LoadRight) /\ WF_vars(Turn)

-----------------------------------------------------------------------------
(* Properties *)

\* operators/README.md:33: when Open fails, whatever it had opened has been
\* closed, and once it has succeeded both children are closed for good.
OpenUndone == pc \in {"refused", "ready", "loop", "eof", "closed"} => ReleasedOnce
=============================================================================
