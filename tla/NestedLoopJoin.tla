--------------------------- MODULE NestedLoopJoin ---------------------------
(***************************************************************************)
(* operators/nl_join.go: the nested loop join, one action for each turn of *)
(* the loop of Next (lines 110-162) and nextRightJoin (168-241).  Rows are *)
(* numbered; a position that the code counts from 0 as the next row to     *)
(* look at is here the number of rows looked at.  emittedNull is left out: *)
(* it is set only together with dropping the row it is about.              *)
(***************************************************************************)
EXTENDS JoinInput

CONSTANTS Types,      \* the join types
          LeftSizes,  \* how many rows the left child may have
          RightSizes  \* and the right one

ASSUME NLShapeAssumption ==
  /\ Types \subseteq {"inner", "left", "right", "cross", "full"}
  /\ LeftSizes \subseteq Nat /\ RightSizes \subseteq Nat

Verdict == {"true", "false", "error"}

\* A join: what EvalExpr says of the condition for each pair of rows (NULL
\* counts as false), and where the children fail.
JoinOf(n, m) ==
  [type : Types, left : {n}, right : {m}, verdict : [(1 .. n) \X (1 .. m) -> Verdict],
   leftFault : Fault, rightFault : Fault]
Join == UNION {JoinOf(s[1], s[2]) : s \in LeftSizes \X RightSizes}

VARIABLES join, pc,
          currentLeft, leftRead, leftMatched,
          rightPos, leftPos, rightMatched, leftMatchedFull,
          rightPhase, leftPhase, leftPhasePos, leftClosed,
          delivered, returned

children == <<opened, closes>>
cursor == <<currentLeft, leftRead, leftMatched, rightPos, leftPos, rightMatched,
            leftMatchedFull, rightPhase, leftPhase, leftPhasePos>>
answers == <<delivered, returned>>
vars == <<opened, closes, join, pc, currentLeft, leftRead, leftMatched, rightPos,
          leftPos, rightMatched, leftMatchedFull, rightPhase, leftPhase,
          leftPhasePos, leftClosed, delivered, returned>>

TwoPass == join.type \in {"right", "full"}

Init ==
  /\ NoneOpened
  /\ join \in Join
  /\ pc = "new"
  /\ currentLeft = 0 /\ leftRead = 0 /\ leftMatched = FALSE
  /\ rightPos = 0 /\ leftPos = 0
  /\ rightMatched = {} /\ leftMatchedFull = {}
  /\ rightPhase = FALSE /\ leftPhase = FALSE /\ leftPhasePos = 0
  /\ leftClosed = FALSE
  /\ delivered = {} /\ returned = 0

-----------------------------------------------------------------------------
(* Open *)

LeftRefuses ==
  /\ join.leftFault = "open"
  /\ pc' = "refused"
  /\ UNCHANGED <<children, leftRead, leftClosed>>

RightRefuses ==
  /\ join.leftFault # "open" /\ join.rightFault = "open"
  /\ opened' = {"left"} /\ closes' = Closed({"left"})
  /\ pc' = "refused"
  /\ UNCHANGED <<leftRead, leftClosed>>

RightUnreadable ==
  /\ join.leftFault # "open" /\ join.rightFault = "next"
  /\ opened' = Child /\ closes' = Closed(Child)
  /\ pc' = "refused"
  /\ UNCHANGED <<leftRead, leftClosed>>

\* Line 71 returns with the left child open.
LeftUnreadable ==
  /\ TwoPass /\ join.leftFault = "next" /\ join.rightFault = "none"
  /\ opened' = Child /\ closes' = Closed({"right"})
  /\ pc' = "refused"
  /\ UNCHANGED <<leftRead, leftClosed>>

\* Mutant: leftClosed is not set when Open has closed the left child.
OpenedForgetful ==
  /\ join.rightFault = "none"
  /\ join.leftFault \in (IF TwoPass THEN {"none"} ELSE {"none", "next"})
  /\ opened' = Child
  /\ closes' = Closed(IF TwoPass THEN Child ELSE {"right"})
  /\ leftRead' = (IF TwoPass THEN join.left ELSE 0)
  /\ leftClosed' = FALSE
  /\ pc' = "ready"

Opened ==
  /\ join.rightFault = "none"
  /\ join.leftFault \in (IF TwoPass THEN {"none"} ELSE {"none", "next"})
  /\ opened' = Child
  /\ closes' = Closed(IF TwoPass THEN Child ELSE {"right"})
  /\ leftRead' = (IF TwoPass THEN join.left ELSE 0)
  /\ leftClosed' = TwoPass
  /\ pc' = "ready"

Open ==
  /\ pc = "new"
  /\ LeftRefuses \/ RightRefuses \/ RightUnreadable \/ LeftUnreadable \/ Opened
  /\ UNCHANGED <<join, currentLeft, leftMatched, rightPos, leftPos, rightMatched,
                 leftMatchedFull, rightPhase, leftPhase, leftPhasePos, answers>>

-----------------------------------------------------------------------------
(* Next: Call enters it, Return, EndOfInput and Fail leave it. *)

Call ==
  /\ pc = "ready" /\ pc' = "loop"
  /\ UNCHANGED <<children, join, cursor, leftClosed, answers>>

Return(row) ==
  /\ delivered' = delivered \union {row}
  /\ returned' = returned + 1
  /\ pc' = "ready"

Continue == pc' = "loop" /\ UNCHANGED answers
Fail == pc' = "failed" /\ UNCHANGED answers
EndOfInput == pc' = "eof" /\ UNCHANGED answers

\* Mutant: leftMatched keeps what it was for the row before.
FetchLeftStale ==
  /\ currentLeft = 0
  /\ UNCHANGED leftMatched
  /\ \/ /\ leftRead < join.left
        /\ leftRead' = leftRead + 1 /\ currentLeft' = leftRead + 1
        /\ rightPos' = 0
        /\ Continue
     \/ /\ leftRead = join.left
        /\ IF join.leftFault = "next" THEN Fail ELSE EndOfInput
        /\ UNCHANGED <<leftRead, currentLeft, rightPos>>

FetchLeft ==
  /\ currentLeft = 0
  /\ \/ /\ leftRead < join.left
        /\ leftRead' = leftRead + 1 /\ currentLeft' = leftRead + 1
        /\ rightPos' = 0 /\ leftMatched' = FALSE
        /\ Continue
     \/ /\ leftRead = join.left
        /\ IF join.leftFault = "next" THEN Fail ELSE EndOfInput
        /\ UNCHANGED <<leftRead, currentLeft, rightPos, leftMatched>>

\* Mutant: a row that is through is not dropped.
RightExhaustedKept ==
  /\ currentLeft # 0 /\ rightPos = join.right
  /\ IF join.type = "left" /\ ~leftMatched
     THEN Return(<<currentLeft, 0>>) /\ currentLeft' = 0
     ELSE Continue /\ UNCHANGED currentLeft
  /\ UNCHANGED <<leftRead, rightPos, leftMatched>>

RightExhausted ==
  /\ currentLeft # 0 /\ rightPos = join.right
  /\ currentLeft' = 0
  /\ IF join.type = "left" /\ ~leftMatched
     THEN Return(<<currentLeft, 0>>)
     ELSE Continue
  /\ UNCHANGED <<leftRead, rightPos, leftMatched>>

\* What the caller sees of the pair <<i, k>>; found says what a match changes.
Judge(i, k, found, lost) ==
  \/ join.verdict[<<i, k>>] = "error" /\ Fail /\ lost
  \/ join.verdict[<<i, k>>] = "false" /\ Continue /\ lost
  \/ join.verdict[<<i, k>>] = "true" /\ Return(<<i, k>>) /\ found

TryRight ==
  /\ currentLeft # 0 /\ rightPos < join.right
  /\ rightPos' = rightPos + 1
  /\ Judge(currentLeft, rightPos + 1, leftMatched' = TRUE, leftMatched' = leftMatched)
  /\ UNCHANGED <<leftRead, currentLeft>>

OnePassTurn ==
  /\ ~TwoPass
  /\ FetchLeft \/ RightExhausted \/ TryRight
  /\ UNCHANGED <<leftPos, rightMatched, leftMatchedFull, rightPhase, leftPhase, leftPhasePos>>

UnmatchedLeft ==
  /\ leftPhase
  /\ \/ /\ leftPhasePos < join.left
        /\ leftPhasePos' = leftPhasePos + 1
        /\ IF leftPhasePos + 1 \in leftMatchedFull
           THEN Continue ELSE Return(<<leftPhasePos + 1, 0>>)
     \/ leftPhasePos = join.left /\ EndOfInput /\ UNCHANGED leftPhasePos
  /\ UNCHANGED <<rightPos, leftPos, rightMatched, leftMatchedFull, rightPhase, leftPhase>>

UnmatchedRight ==
  /\ rightPhase /\ ~leftPhase
  /\ \/ /\ rightPos < join.right
        /\ rightPos' = rightPos + 1
        /\ IF rightPos + 1 \in rightMatched
           THEN Continue ELSE Return(<<0, rightPos + 1>>)
        /\ UNCHANGED <<leftPhase, leftPhasePos>>
     \/ /\ rightPos = join.right
        /\ IF join.type = "full"
           THEN leftPhase' = TRUE /\ leftPhasePos' = 0 /\ Continue
           ELSE EndOfInput /\ UNCHANGED <<leftPhase, leftPhasePos>>
        /\ UNCHANGED rightPos
  /\ UNCHANGED <<leftPos, rightMatched, leftMatchedFull, rightPhase>>

Matching == ~rightPhase /\ ~leftPhase

\* Mutant: phase 2 starts where phase 1 ended.
RightRowsDoneKept ==
  /\ Matching /\ rightPos = join.right
  /\ rightPhase' = TRUE
  /\ Continue
  /\ UNCHANGED <<rightPos, leftPos, rightMatched, leftMatchedFull, leftPhase, leftPhasePos>>

RightRowsDone ==
  /\ Matching /\ rightPos = join.right
  /\ rightPhase' = TRUE /\ rightPos' = 0
  /\ Continue
  /\ UNCHANGED <<leftPos, rightMatched, leftMatchedFull, leftPhase, leftPhasePos>>

NextRightRow ==
  /\ Matching /\ rightPos < join.right /\ leftPos = join.left
  /\ rightPos' = rightPos + 1 /\ leftPos' = 0
  /\ Continue
  /\ UNCHANGED <<rightMatched, leftMatchedFull, rightPhase, leftPhase, leftPhasePos>>

Matched(i, k) ==
  /\ rightMatched' = rightMatched \union {k}
  /\ leftMatchedFull' = (IF join.type = "full" THEN leftMatchedFull \union {i}
                                               ELSE leftMatchedFull)

TryLeft ==
  /\ Matching /\ rightPos < join.right /\ leftPos < join.left
  /\ leftPos' = leftPos + 1
  /\ Judge(leftPos + 1, rightPos + 1, Matched(leftPos + 1, rightPos + 1),
           UNCHANGED <<rightMatched, leftMatchedFull>>)
  /\ UNCHANGED <<rightPos, rightPhase, leftPhase, leftPhasePos>>

TwoPassTurn ==
  /\ TwoPass
  /\ UnmatchedLeft \/ UnmatchedRight \/ RightRowsDone \/ NextRightRow \/ TryLeft
  /\ UNCHANGED <<currentLeft, leftRead, leftMatched>>

Turn ==
  /\ pc = "loop"
  /\ OnePassTurn \/ TwoPassTurn
  /\ UNCHANGED <<children, join, leftClosed>>

Close ==
  /\ pc \in {"ready", "eof", "failed"}
  /\ closes' = (IF leftClosed THEN closes ELSE Closed({"left"}))
  /\ pc' = "closed"
  /\ UNCHANGED <<opened, join, cursor, leftClosed, answers>>

Next == Open \/ Call \/ Turn \/ Close

\* The turns of a Next under way follow each other; the caller owes nothing.
Spec == Init /\ [][Next]_vars /\ WF_vars(Turn)

-----------------------------------------------------------------------------
(* Properties *)

\* The join its caller asked for.
Asked ==
  [type |-> join.type, left |-> join.left, right |-> join.right,
   match |-> {p \in (1 .. join.left) \X (1 .. join.right) : join.verdict[p] = "true"},
   risky |-> \/ join.leftFault # "none" \/ join.rightFault # "none"
             \/ \E p \in (1 .. join.left) \X (1 .. join.right) : join.verdict[p] = "error"]

Cursor == INSTANCE JoinCursor WITH
            join <- Asked, stage <- IF pc = "loop" \/ pc = "ready" THEN "open" ELSE pc

\* nl_join.go:10-11: the five joins return each row of their answer exactly
\* once, however the match loop and the two padding phases follow each other.
IsJoinCursor == Cursor!Spec

Bit(b) == IF b THEN 1 ELSE 0

ChildrenOK == opened \subseteq Child /\ closes \in [Child -> Nat]
JoinOK ==
  /\ join \in Join
  /\ pc \in {"new", "ready", "loop", "eof", "failed", "refused", "closed"}
PositionsOK ==
  /\ leftRead \in 0 .. join.left /\ currentLeft \in {0, leftRead}
  /\ pc = "new" => currentLeft = 0
  /\ rightPos \in 0 .. join.right /\ leftPos \in 0 .. join.left
  /\ leftPhasePos \in 0 .. join.left
FlagsOK ==
  /\ leftMatched \in BOOLEAN /\ rightPhase \in BOOLEAN
  /\ leftPhase \in BOOLEAN /\ leftClosed \in BOOLEAN

TypeOK == ChildrenOK /\ JoinOK /\ PositionsOK /\ FlagsOK

\* The pairs the condition has been evaluated for.
Scanned ==
  {p \in (1 .. join.left) \X (1 .. join.right) :
     IF TwoPass
     THEN \/ rightPhase \/ leftPhase \/ p[2] <= rightPos
          \/ p[2] = rightPos + 1 /\ p[1] <= leftPos
     ELSE \/ p[1] < leftRead
          \/ p[1] = leftRead /\ (currentLeft = 0 \/ p[2] <= rightPos)}

Found == {p \in Scanned : join.verdict[p] = "true"}

LeftFinished ==
  IF TwoPass THEN {i \in 1 .. join.left : leftPhase /\ i <= leftPhasePos}
  ELSE {i \in 1 .. join.left : i < leftRead \/ (i = leftRead /\ currentLeft = 0)}

RightFinished ==
  {k \in 1 .. join.right : leftPhase \/ (rightPhase /\ k <= rightPos)}

PaddedLeft ==
  {i \in LeftFinished : Cursor!KeepsLeft(join.type) /\ i \in Cursor!LeftAlone(Asked)}
PaddedRight ==
  {k \in RightFinished : Cursor!KeepsRight(join.type) /\ k \in Cursor!RightAlone(Asked)}

DeliveredExact == delivered = Cursor!Rows(Found, PaddedLeft, PaddedRight)

MarksExact ==
  /\ currentLeft # 0 => (leftMatched <=> \E k \in 1 .. rightPos : <<leftRead, k>> \in Found)
  /\ TwoPass => /\ rightMatched = {k \in 1 .. join.right : \E i \in 1 .. join.left : <<i, k>> \in Found}
                /\ leftMatchedFull = {i \in 1 .. join.left : /\ join.type = "full"
                                                            /\ \E k \in 1 .. join.right : <<i, k>> \in Found}

PhasesOrdered ==
  /\ TwoPass => currentLeft = 0
  /\ leftPhase => join.type = "full" /\ rightPhase /\ rightPos = join.right
  /\ rightPhase => TwoPass

\* What has been returned is what the loops have gone through, and the match
\* marks say which rows have found a partner so far.
NLInv == DeliveredExact /\ MarksExact /\ PhasesOrdered

\* operators/README.md:24: once the join is closed its children have been
\* closed exactly once, although three methods share the work.
ChildrenReleased == pc = "closed" => ReleasedOnce

\* nl_join.go:116,169: the loops of Next reach a row, EOF or an error.
NextReturns == pc = "loop" ~> pc # "loop"
=============================================================================
