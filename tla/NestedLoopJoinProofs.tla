------------------------ MODULE NestedLoopJoinProofs ------------------------
(***************************************************************************)
(* The nested loop join returns each row of its answer exactly once, for   *)
(* every number of rows and every condition: it implements JoinCursor.     *)
(***************************************************************************)
EXTENDS NestedLoopJoin, TLAPS

Pairs == (1 .. join.left) \X (1 .. join.right)

LEMMA JoinFacts ==
  ASSUME join \in Join
  PROVE  /\ join.type \in {"inner", "left", "right", "cross", "full"}
         /\ join.left \in Nat /\ join.right \in Nat
         /\ join.verdict \in [Pairs -> Verdict]
         /\ join.leftFault \in Fault /\ join.rightFault \in Fault
<1>0. PICK s \in LeftSizes \X RightSizes : join \in JoinOf(s[1], s[2])
  BY Zenon DEF Join
<1> DEFINE n == s[1] m == s[2]
<1>1. join \in JoinOf(n, m) /\ n \in LeftSizes /\ m \in RightSizes
  BY <1>0
<1> HIDE DEF n, m
<1>2. /\ join.left = n /\ join.right = m
      /\ join.leftFault \in Fault /\ join.rightFault \in Fault
      /\ join.type \in Types
  BY <1>1 DEF JoinOf
<1>3. join.verdict \in [(1 .. n) \X (1 .. m) -> Verdict]
  BY <1>1 DEF JoinOf
<1>4. join.verdict \in [Pairs -> Verdict]
  BY <1>2, <1>3, Zenon DEF Pairs
<1> QED
  BY <1>1, <1>2, <1>4, NLShapeAssumption

LEMMA TypeInit == Init => TypeOK
<1> SUFFICES ASSUME Init PROVE TypeOK
  OBVIOUS
<1>1. join.left \in Nat /\ join.right \in Nat
  BY JoinFacts DEF Init
<1>2. PositionsOK
  BY <1>1 DEF Init, PositionsOK
<1>3. ChildrenOK
  BY DEF Init, ChildrenOK, NoneOpened, Child
<1>4. JoinOK
  BY DEF Init, JoinOK
<1>5. FlagsOK
  BY Zenon DEF Init, FlagsOK
<1> QED
  BY <1>2, <1>3, <1>4, <1>5 DEF TypeOK

LEMMA TypeOpen == TypeOK /\ Open => TypeOK'
<1> SUFFICES ASSUME TypeOK, Open PROVE TypeOK'
  OBVIOUS
<1>1. join.left \in Nat /\ join.right \in Nat /\ join' = join
  BY JoinFacts DEF TypeOK, JoinOK, Open
<1>2. \A cs : Closed(cs) \in [Child -> Nat]
  BY DEF TypeOK, ChildrenOK, Closed
<1>3. ChildrenOK'
  BY <1>2 DEF TypeOK, ChildrenOK, Open, LeftRefuses, RightRefuses, RightUnreadable,
              LeftUnreadable, Opened, children, Child
<1>4. currentLeft = 0 /\ currentLeft' = 0 /\ rightPos' = rightPos /\ leftPos' = leftPos
      /\ leftPhasePos' = leftPhasePos
  BY DEF TypeOK, PositionsOK, Open
<1>5. leftRead' \in 0 .. join.left
  BY <1>1 DEF TypeOK, PositionsOK, Open, LeftRefuses, RightRefuses, RightUnreadable,
              LeftUnreadable, Opened
<1>6. PositionsOK'
  BY <1>1, <1>4, <1>5 DEF TypeOK, PositionsOK
<1>7. JoinOK'
  BY <1>1 DEF TypeOK, JoinOK, Open, LeftRefuses, RightRefuses, RightUnreadable,
              LeftUnreadable, Opened
<1>8. leftClosed' \in BOOLEAN
  <2>1. CASE Opened
    <3>1. leftClosed' = TwoPass
      BY <2>1, Zenon DEF Opened
    <3>2. TwoPass \in BOOLEAN
      BY SMT DEF TwoPass
    <3> QED
      BY <3>1, <3>2, Zenon
  <2>2. CASE ~Opened
    <3>1. leftClosed' = leftClosed
      BY <2>2, Zenon DEF Open, LeftRefuses, RightRefuses, RightUnreadable, LeftUnreadable
    <3> QED
      BY <3>1, Zenon DEF TypeOK, FlagsOK
  <2> QED
    BY <2>1, <2>2
<1>9. FlagsOK'
  BY <1>8, Zenon DEF TypeOK, FlagsOK, Open
<1> QED
  BY <1>3, <1>6, <1>7, <1>9 DEF TypeOK

\* A turn changes neither the children nor the join.
LEMMA TypeTurn == TypeOK /\ Turn => TypeOK'
<1> SUFFICES ASSUME TypeOK, Turn PROVE TypeOK'
  OBVIOUS
<1>1. /\ join.left \in Nat /\ join.right \in Nat /\ join' = join
      /\ children' = children /\ leftClosed' = leftClosed
  BY JoinFacts DEF TypeOK, JoinOK, Turn
<1>2. ChildrenOK'
  BY <1>1 DEF TypeOK, ChildrenOK, children
<1>3. pc' \in {"ready", "loop", "eof", "failed"}
  BY DEF Turn, OnePassTurn, TwoPassTurn, FetchLeft, RightExhausted, TryRight, UnmatchedLeft,
         UnmatchedRight, RightRowsDone, NextRightRow, TryLeft, Judge, Return, Continue,
         Fail, EndOfInput
<1>4. JoinOK'
  BY <1>1, <1>3 DEF TypeOK, JoinOK
<1>5. CASE OnePassTurn
  <2>1. PositionsOK'
    <3>1. CASE FetchLeft
      BY <1>1, <1>3, <1>5, <3>1 DEF TypeOK, PositionsOK, OnePassTurn, FetchLeft
    <3>2. CASE RightExhausted
      BY <1>1, <1>3, <1>5, <3>2 DEF TypeOK, PositionsOK, OnePassTurn, RightExhausted
    <3>3. CASE TryRight
      BY <1>1, <1>3, <1>5, <3>3 DEF TypeOK, PositionsOK, OnePassTurn, TryRight
    <3> QED
      BY <1>5, <3>1, <3>2, <3>3 DEF OnePassTurn
  <2>2. leftMatched' \in BOOLEAN
    BY <1>5, Zenon DEF TypeOK, FlagsOK, OnePassTurn, FetchLeft, RightExhausted, TryRight, Judge
  <2>3. FlagsOK'
    BY <1>1, <1>5, <2>2, Zenon DEF TypeOK, FlagsOK, OnePassTurn
  <2> QED
    BY <1>2, <1>4, <2>1, <2>3 DEF TypeOK
<1>6. CASE TwoPassTurn
  <2>1. PositionsOK'
    <3>1. CASE UnmatchedLeft
      BY <1>1, <1>3, <1>6, <3>1 DEF TypeOK, PositionsOK, TwoPassTurn, UnmatchedLeft
    <3>2. CASE UnmatchedRight
      BY <1>1, <1>3, <1>6, <3>2 DEF TypeOK, PositionsOK, TwoPassTurn, UnmatchedRight
    <3>3. CASE RightRowsDone
      BY <1>1, <1>3, <1>6, <3>3 DEF TypeOK, PositionsOK, TwoPassTurn, RightRowsDone
    <3>4. CASE NextRightRow
      BY <1>1, <1>3, <1>6, <3>4 DEF TypeOK, PositionsOK, TwoPassTurn, NextRightRow
    <3>5. CASE TryLeft
      BY <1>1, <1>3, <1>6, <3>5 DEF TypeOK, PositionsOK, TwoPassTurn, TryLeft
    <3> QED
      BY <1>6, <3>1, <3>2, <3>3, <3>4, <3>5 DEF TwoPassTurn
  <2>2. leftPhase' \in BOOLEAN /\ rightPhase' \in BOOLEAN
    BY <1>6, Zenon DEF TypeOK, FlagsOK, TwoPassTurn, UnmatchedLeft, UnmatchedRight, RightRowsDone,
                       NextRightRow, TryLeft
  <2>3. FlagsOK'
    BY <1>1, <1>6, <2>2, Zenon DEF TypeOK, FlagsOK, TwoPassTurn
  <2> QED
    BY <1>2, <1>4, <2>1, <2>3 DEF TypeOK
<1> QED
  BY <1>5, <1>6 DEF Turn

LEMMA TypeRest == TypeOK /\ (Call \/ Close \/ UNCHANGED vars) => TypeOK'
<1> SUFFICES ASSUME TypeOK, Call \/ Close \/ UNCHANGED vars PROVE TypeOK'
  OBVIOUS
<1>1. /\ join' = join /\ cursor' = cursor /\ leftClosed' = leftClosed /\ opened' = opened
      /\ pc' = pc \/ pc' \in {"loop", "closed"}
  BY DEF Call, Close, vars, cursor, children
<1>2. closes' = closes \/ closes' = Closed({"left"})
  BY DEF Call, Close, vars, children
<1>3. ChildrenOK'
  BY <1>1, <1>2 DEF TypeOK, ChildrenOK, Closed
<1>4. JoinOK'
  BY <1>1 DEF TypeOK, JoinOK
<1>5. PositionsOK'
  BY <1>1 DEF TypeOK, PositionsOK, cursor
<1>6. FlagsOK'
  BY <1>1, Zenon DEF TypeOK, FlagsOK, cursor
<1> QED
  BY <1>3, <1>4, <1>5, <1>6 DEF TypeOK

\* Positions stay within the two sides, whatever the loops do.
THEOREM TypeCorrect == Spec => []TypeOK
<1>1. TypeOK /\ [Next]_vars => TypeOK'
  BY TypeOpen, TypeTurn, TypeRest, Zenon DEF Next
<1> QED
  BY TypeInit, <1>1, PTL DEF Spec

-----------------------------------------------------------------------------
(* The rows returned.  A pair, a padded left row and a padded right row are *)
(* told apart by their zeros.                                              *)

LEMMA NewPair ==
  ASSUME NEW F, NEW L, NEW R, NEW i, NEW k, i # 0, k # 0, <<i, k>> \notin F
  PROVE  /\ <<i, k>> \notin Cursor!Rows(F, L, R)
         /\ Cursor!Rows(F \union {<<i, k>>}, L, R) = Cursor!Rows(F, L, R) \union {<<i, k>>}
  BY DEF Cursor!Rows

LEMMA NewLeft ==
  ASSUME NEW F, NEW L, NEW R, NEW i, i # 0, i \notin L, \A j : <<j, 0>> \notin F
  PROVE  /\ <<i, 0>> \notin Cursor!Rows(F, L, R)
         /\ Cursor!Rows(F, L \union {i}, R) = Cursor!Rows(F, L, R) \union {<<i, 0>>}
  BY DEF Cursor!Rows

LEMMA NewRight ==
  ASSUME NEW F, NEW L, NEW R, NEW k, k # 0, k \notin R, \A j : <<0, j>> \notin F
  PROVE  /\ <<0, k>> \notin Cursor!Rows(F, L, R)
         /\ Cursor!Rows(F, L, R \union {k}) = Cursor!Rows(F, L, R) \union {<<0, k>>}
  BY DEF Cursor!Rows

Matches(i, k) == join.verdict[<<i, k>>] = "true"
NoPartnerRight(i) == \A k \in 1 .. join.right : ~Matches(i, k)
NoPartnerLeft(k) == \A i \in 1 .. join.left : ~Matches(i, k)
Keeps == join.type \in {"left", "full"}
KeepsR == join.type \in {"right", "full"}

LEMMA AskedFacts ==
  /\ Asked.left = join.left /\ Asked.right = join.right /\ Asked.type = join.type
  /\ \A i \in 1 .. join.left, k \in 1 .. join.right : <<i, k>> \in Asked.match <=> Matches(i, k)
  /\ Asked.match \subseteq Pairs
  BY DEF Asked, Matches, Pairs

LEMMA AloneFacts ==
  /\ Cursor!LeftAlone(Asked) = {i \in 1 .. join.left : NoPartnerRight(i)}
  /\ Cursor!RightAlone(Asked) = {k \in 1 .. join.right : NoPartnerLeft(k)}
<1>1. \A i \in 1 .. join.left : NoPartnerRight(i) <=> \A k \in 1 .. join.right : <<i, k>> \notin Asked.match
  BY AskedFacts DEF NoPartnerRight
<1>2. \A k \in 1 .. join.right : NoPartnerLeft(k) <=> \A i \in 1 .. join.left : <<i, k>> \notin Asked.match
  BY AskedFacts DEF NoPartnerLeft
<1> QED
  BY AskedFacts, <1>1, <1>2 DEF Cursor!LeftAlone, Cursor!RightAlone, Cursor!LeftRows, Cursor!RightRows

LEMMA PaddedFacts ==
  /\ PaddedLeft = {i \in LeftFinished : Keeps /\ NoPartnerRight(i)}
  /\ PaddedRight = {k \in RightFinished : KeepsR /\ NoPartnerLeft(k)}
  BY AloneFacts DEF PaddedLeft, PaddedRight, LeftFinished, RightFinished, Keeps, KeepsR,
                    Cursor!KeepsLeft, Cursor!KeepsRight

LEMMA FoundFacts ==
  /\ \A i, k : <<i, k>> \in Found <=> <<i, k>> \in Scanned /\ Matches(i, k)
  /\ Found \subseteq Pairs
  /\ \A j : <<j, 0>> \notin Found /\ <<0, j>> \notin Found
  BY DEF Found, Scanned, Matches, Pairs

-----------------------------------------------------------------------------
(* One turn of a loop returns nothing, or one row that is new.              *)

Silent == UNCHANGED <<delivered, Found, PaddedLeft, PaddedRight>>

Fresh(row) == row \notin delivered /\ delivered' = delivered \union {row}

LEMMA SilentStep == DeliveredExact /\ Silent => DeliveredExact'
  BY DEF DeliveredExact, Silent

LEMMA PairStep ==
  ASSUME NEW i \in Nat, NEW k \in Nat, i # 0, k # 0, <<i, k>> \notin Found,
         DeliveredExact, Found' = Found \union {<<i, k>>},
         UNCHANGED <<PaddedLeft, PaddedRight>>, delivered' = delivered \union {<<i, k>>}
  PROVE  DeliveredExact' /\ Fresh(<<i, k>>)
  BY NewPair DEF DeliveredExact, Fresh

LEMMA LeftStep ==
  ASSUME NEW i \in Nat, i # 0, i \notin PaddedLeft,
         DeliveredExact, PaddedLeft' = PaddedLeft \union {i},
         UNCHANGED <<Found, PaddedRight>>, delivered' = delivered \union {<<i, 0>>}
  PROVE  DeliveredExact' /\ Fresh(<<i, 0>>)
<1>1. \A j : <<j, 0>> \notin Found
  BY FoundFacts
<1>2. /\ <<i, 0>> \notin Cursor!Rows(Found, PaddedLeft, PaddedRight)
      /\ Cursor!Rows(Found, PaddedLeft \union {i}, PaddedRight) =
           Cursor!Rows(Found, PaddedLeft, PaddedRight) \union {<<i, 0>>}
  BY <1>1, NewLeft
<1> QED
  BY <1>2 DEF DeliveredExact, Fresh

LEMMA RightStep ==
  ASSUME NEW k \in Nat, k # 0, k \notin PaddedRight,
         DeliveredExact, PaddedRight' = PaddedRight \union {k},
         UNCHANGED <<Found, PaddedLeft>>, delivered' = delivered \union {<<0, k>>}
  PROVE  DeliveredExact' /\ Fresh(<<0, k>>)
<1>1. \A j : <<0, j>> \notin Found
  BY FoundFacts
<1>2. /\ <<0, k>> \notin Cursor!Rows(Found, PaddedLeft, PaddedRight)
      /\ Cursor!Rows(Found, PaddedLeft, PaddedRight \union {k}) =
           Cursor!Rows(Found, PaddedLeft, PaddedRight) \union {<<0, k>>}
  BY <1>1, NewRight
<1> QED
  BY <1>2 DEF DeliveredExact, Fresh

\* Where the loops have gone through everything the answer is complete.
LEMMA Complete ==
  ASSUME DeliveredExact, Scanned = Pairs,
         Keeps => LeftFinished = 1 .. join.left, KeepsR => RightFinished = 1 .. join.right
  PROVE  delivered = Cursor!Answer(Asked)
<1>1. Found = Asked.match
  BY AskedFacts, FoundFacts DEF Found, Asked, Pairs
<1>2. PaddedLeft = {i \in Cursor!LeftAlone(Asked) : Cursor!KeepsLeft(Asked.type)}
  BY PaddedFacts, AloneFacts, AskedFacts DEF Keeps, Cursor!KeepsLeft
<1>3. PaddedRight = {k \in Cursor!RightAlone(Asked) : Cursor!KeepsRight(Asked.type)}
  BY PaddedFacts, AloneFacts, AskedFacts DEF KeepsR, Cursor!KeepsRight
<1> QED
  BY <1>1, <1>2, <1>3 DEF DeliveredExact, Cursor!Answer

\* Nothing that is returned is foreign to the answer.
ReturnsOnlyAnswers == delivered \subseteq Cursor!Answer(Asked)

LEMMA Sound == DeliveredExact => ReturnsOnlyAnswers
<1>1. Found \subseteq Asked.match
  BY AskedFacts, FoundFacts DEF Found, Scanned, Asked
<1>2. PaddedLeft \subseteq {i \in Cursor!LeftAlone(Asked) : Cursor!KeepsLeft(Asked.type)}
  BY AskedFacts DEF PaddedLeft
<1>3. PaddedRight \subseteq {k \in Cursor!RightAlone(Asked) : Cursor!KeepsRight(Asked.type)}
  BY AskedFacts DEF PaddedRight
<1> QED
  BY <1>1, <1>2, <1>3 DEF ReturnsOnlyAnswers, DeliveredExact, Cursor!Answer, Cursor!Rows

Progress ==
  \/ /\ answers' = answers
     /\ \/ pc' = "loop"
        \/ pc' = "failed" /\ Asked.risky
        \/ pc' = "eof" /\ delivered = Cursor!Answer(Asked)
  \/ /\ pc' = "ready" /\ returned' = returned + 1
     /\ \E row : Fresh(row)

\* What a turn can rely on.
LEMMA TurnFacts ==
  ASSUME TypeOK, NLInv, Turn
  PROVE  /\ join' = join /\ join.left \in Nat /\ join.right \in Nat
         /\ leftRead \in 0 .. join.left /\ currentLeft \in {0, leftRead}
         /\ rightPos \in 0 .. join.right /\ leftPos \in 0 .. join.left
         /\ leftPhasePos \in 0 .. join.left
         /\ DeliveredExact /\ pc = "loop"
         /\ Asked' = Asked
  BY JoinFacts DEF TypeOK, JoinOK, PositionsOK, NLInv, Turn, Asked

LEMMA SamePads ==
  ASSUME join' = join
  PROVE  /\ LeftFinished' = LeftFinished => PaddedLeft' = PaddedLeft
         /\ RightFinished' = RightFinished => PaddedRight' = PaddedRight
         /\ Scanned' = Scanned => Found' = Found
<1>1. \A i : NoPartnerRight(i)' <=> NoPartnerRight(i)
  BY DEF NoPartnerRight, Matches
<1>2. \A k : NoPartnerLeft(k)' <=> NoPartnerLeft(k)
  BY DEF NoPartnerLeft, Matches
<1>3. Keeps' = Keeps /\ KeepsR' = KeepsR
  BY DEF Keeps, KeepsR
<1>4. Asked' = Asked
  BY DEF Asked
<1> QED
  BY <1>4 DEF PaddedLeft, PaddedRight, Found

-----------------------------------------------------------------------------
(* INNER, LEFT and CROSS *)

LEMMA OnePassKeeps ==
  ASSUME TypeOK, NLInv, Turn, OnePassTurn
  PROVE  /\ ~TwoPass /\ ~TwoPass' /\ ~rightPhase /\ ~leftPhase /\ ~rightPhase' /\ ~leftPhase'
         /\ RightFinished = {} /\ PaddedRight = {} /\ PaddedRight' = {}
         /\ PhasesOrdered'
<1>1. join' = join /\ ~TwoPass /\ ~TwoPass'
  BY DEF Turn, OnePassTurn, TwoPass
<1>2. ~rightPhase /\ ~leftPhase
  BY <1>1 DEF NLInv, PhasesOrdered
<1>3. ~rightPhase' /\ ~leftPhase'
  BY <1>2, Zenon DEF OnePassTurn
<1>4. RightFinished = {} /\ RightFinished' = {}
  BY <1>2, <1>3 DEF RightFinished
<1>5. PaddedRight = {} /\ PaddedRight' = {}
  BY <1>4 DEF PaddedRight
<1> QED
  BY <1>1, <1>2, <1>3, <1>4, <1>5 DEF PhasesOrdered

LEMMA FetchLeftStep ==
  ASSUME TypeOK, NLInv, Turn, OnePassTurn, FetchLeft
  PROVE  NLInv' /\ Progress
<1>0. /\ ~TwoPass /\ ~TwoPass' /\ PaddedRight = {} /\ PaddedRight' = {} /\ PhasesOrdered'
  BY OnePassKeeps
<1>1. /\ join' = join /\ join.left \in Nat /\ join.right \in Nat
      /\ leftRead \in 0 .. join.left /\ currentLeft = 0
      /\ DeliveredExact /\ Asked' = Asked
  BY TurnFacts DEF FetchLeft
<1>2. Scanned' = Scanned /\ LeftFinished' = LeftFinished
  BY <1>0, <1>1 DEF Scanned, LeftFinished, FetchLeft
<1>3. Silent
  <2>1. delivered' = delivered
    BY DEF FetchLeft, Continue, Fail, EndOfInput, answers
  <2> QED
    BY <1>0, <1>1, <1>2, <2>1, SamePads DEF Silent
<1>4. MarksExact'
  <2>1. CASE leftRead < join.left
    <3>1. leftRead' = leftRead + 1 /\ rightPos' = 0 /\ leftMatched' = FALSE
      BY <1>1, <2>1 DEF FetchLeft
    <3>2. ~\E k \in 1 .. rightPos' : <<leftRead', k>> \in Found'
      BY <3>1
    <3> QED
      BY <1>0, <3>1, <3>2 DEF MarksExact
  <2>2. CASE leftRead = join.left
    <3>1. currentLeft' = 0
      BY <1>1, <2>2 DEF FetchLeft
    <3> QED
      BY <1>0, <3>1 DEF MarksExact
  <2> QED
    BY <1>1, <2>1, <2>2
<1>5. Progress
  <2>1. CASE leftRead < join.left
    BY <1>1, <2>1 DEF FetchLeft, Continue, Progress
  <2>2. CASE leftRead = join.left /\ join.leftFault = "next"
    BY <1>1, <2>2 DEF FetchLeft, Fail, Progress, Asked
  <2>3. CASE leftRead = join.left /\ join.leftFault # "next"
    <3>1. Scanned = Pairs /\ LeftFinished = 1 .. join.left
      BY <1>0, <1>1, <2>3 DEF Scanned, LeftFinished, Pairs
    <3>2. ~KeepsR
      BY <1>0 DEF TwoPass, KeepsR
    <3>3. delivered = Cursor!Answer(Asked)
      BY <1>1, <3>1, <3>2, Complete
    <3>4. pc' = "eof" /\ UNCHANGED answers
      BY <1>1, <2>3 DEF FetchLeft, EndOfInput
    <3> QED
      BY <3>3, <3>4 DEF Progress
  <2> QED
    BY <1>1, <2>1, <2>2, <2>3
<1> QED
  BY <1>0, <1>1, <1>3, <1>4, <1>5, SilentStep DEF NLInv

LEMMA RightExhaustedStep ==
  ASSUME TypeOK, NLInv, Turn, OnePassTurn, RightExhausted
  PROVE  NLInv' /\ Progress
<1>0. /\ ~TwoPass /\ ~TwoPass' /\ PaddedRight = {} /\ PaddedRight' = {} /\ PhasesOrdered'
  BY OnePassKeeps
<1>1. /\ join' = join /\ join.left \in Nat /\ join.right \in Nat
      /\ leftRead \in 0 .. join.left /\ currentLeft = leftRead /\ leftRead # 0
      /\ rightPos = join.right /\ currentLeft' = 0 /\ leftRead' = leftRead
      /\ DeliveredExact /\ Asked' = Asked
  BY TurnFacts DEF RightExhausted
<1>2. /\ Scanned' = Scanned
      /\ LeftFinished' = LeftFinished \union {leftRead} /\ leftRead \notin LeftFinished
  BY <1>0, <1>1 DEF Scanned, LeftFinished
<1>3. Found' = Found
  BY <1>1, <1>2, SamePads
<1>4. leftMatched <=> ~NoPartnerRight(leftRead)
  <2>1. \A k \in 1 .. join.right : <<leftRead, k>> \in Scanned
    BY <1>0, <1>1 DEF Scanned
  <2>2. \A k \in 1 .. join.right : <<leftRead, k>> \in Found <=> Matches(leftRead, k)
    BY <2>1, FoundFacts
  <2> QED
    BY <1>1, <2>2 DEF NLInv, MarksExact, NoPartnerRight
<1>5. Keeps' = Keeps /\ \A i : NoPartnerRight(i)' <=> NoPartnerRight(i)
  BY <1>1 DEF Keeps, NoPartnerRight, Matches
<1>6. PaddedLeft' = {i \in LeftFinished' : Keeps /\ NoPartnerRight(i)}
  BY <1>1, AloneFacts, <1>2 DEF PaddedLeft, LeftFinished, Keeps, Cursor!KeepsLeft
<1>7. MarksExact'
  BY <1>0, <1>1 DEF MarksExact
<1>8. CASE join.type = "left" /\ ~leftMatched
  <2>1. PaddedLeft' = PaddedLeft \union {leftRead} /\ leftRead \notin PaddedLeft
    BY <1>2, <1>4, <1>6, <1>8, PaddedFacts DEF Keeps
  <2>2. delivered' = delivered \union {<<leftRead, 0>>} /\ returned' = returned + 1 /\ pc' = "ready"
    BY <1>1, <1>8 DEF RightExhausted, Return
  <2>3. DeliveredExact' /\ Fresh(<<leftRead, 0>>)
    BY <1>0, <1>1, <1>3, <2>1, <2>2, LeftStep
  <2> QED
    BY <1>0, <1>7, <2>2, <2>3 DEF NLInv, Progress
<1>9. CASE ~(join.type = "left" /\ ~leftMatched)
  <2>1. ~(Keeps /\ NoPartnerRight(leftRead))
    BY <1>0, <1>4, <1>9 DEF Keeps, TwoPass
  <2>2. PaddedLeft' = PaddedLeft
    BY <1>2, <1>6, <2>1, PaddedFacts
  <2>3. pc' = "loop" /\ UNCHANGED answers
    BY <1>9 DEF RightExhausted, Continue
  <2>4. Silent
    BY <1>0, <1>3, <2>2, <2>3 DEF Silent, answers
  <2> QED
    BY <1>0, <1>1, <1>7, <2>3, <2>4, SilentStep DEF NLInv, Progress
<1> QED
  BY <1>8, <1>9

LEMMA TryRightStep ==
  ASSUME TypeOK, NLInv, Turn, OnePassTurn, TryRight
  PROVE  NLInv' /\ Progress
<1>0. /\ ~TwoPass /\ ~TwoPass' /\ PaddedRight = {} /\ PaddedRight' = {} /\ PhasesOrdered'
  BY OnePassKeeps
<1> DEFINE k == rightPos + 1
<1>1. /\ join' = join /\ join.left \in Nat /\ join.right \in Nat
      /\ leftRead \in 1 .. join.left /\ currentLeft = leftRead
      /\ rightPos \in 0 .. join.right /\ k \in 1 .. join.right /\ rightPos' = k
      /\ currentLeft' = leftRead /\ leftRead' = leftRead
      /\ DeliveredExact /\ Asked' = Asked
  BY TurnFacts DEF TryRight
<1>2. /\ Scanned' = Scanned \union {<<leftRead, k>>} /\ <<leftRead, k>> \notin Scanned
      /\ LeftFinished' = LeftFinished
  BY <1>0, <1>1 DEF Scanned, LeftFinished
<1>3. PaddedLeft' = PaddedLeft
  BY <1>1, <1>2, SamePads
<1>4. Found' = (IF Matches(leftRead, k) THEN Found \union {<<leftRead, k>>} ELSE Found)
  BY <1>1, <1>2 DEF Found, Matches
<1>5. join.verdict[<<leftRead, k>>] \in Verdict
  BY <1>1, JoinFacts DEF TypeOK, JoinOK, Pairs
<1>6. leftMatched <=> \E j \in 1 .. rightPos : <<leftRead, j>> \in Found
  BY <1>1 DEF NLInv, MarksExact
<1>7. CASE Matches(leftRead, k)
  <2>1. /\ delivered' = delivered \union {<<leftRead, k>>} /\ returned' = returned + 1
        /\ pc' = "ready" /\ leftMatched' = TRUE
    BY <1>1, <1>7 DEF TryRight, Judge, Return, Matches
  <2>2. <<leftRead, k>> \in Found' /\ <<leftRead, k>> \notin Found
    BY <1>2, <1>4, <1>7, FoundFacts
  <2>3. DeliveredExact' /\ Fresh(<<leftRead, k>>)
    BY <1>0, <1>1, <1>3, <1>4, <1>7, <2>1, <2>2, PairStep
  <2>4. MarksExact'
    BY <1>0, <1>1, <2>1, <2>2 DEF MarksExact
  <2> QED
    BY <1>0, <2>1, <2>3, <2>4 DEF NLInv, Progress
<1>8. CASE ~Matches(leftRead, k)
  <2>1. /\ UNCHANGED answers /\ (leftMatched' <=> leftMatched)
        /\ \/ pc' = "loop"
           \/ pc' = "failed" /\ join.verdict[<<leftRead, k>>] = "error"
    <3>1. ~Matches(currentLeft, rightPos + 1)
      BY <1>1, <1>8
    <3>2. leftMatched' = leftMatched
      BY <3>1, Zenon DEF TryRight, Judge, Matches
    <3>3. /\ UNCHANGED answers
          /\ \/ pc' = "loop"
             \/ pc' = "failed" /\ join.verdict[<<leftRead, k>>] = "error"
      BY <1>1, <3>1 DEF TryRight, Judge, Continue, Fail, Matches
    <3> QED
      BY <3>2, <3>3
  <2>2. pc' = "failed" => Asked.risky
    BY <1>1, <2>1 DEF Asked
  <2>3. Silent /\ Found' = Found
    BY <1>0, <1>3, <1>4, <1>8, <2>1 DEF Silent, answers
  <2>4. <<leftRead, k>> \notin Found
    BY <1>2, FoundFacts
  <2>5. MarksExact'
    BY <1>0, <1>1, <1>6, <2>1, <2>3, <2>4 DEF MarksExact
  <2> QED
    BY <1>0, <1>1, <2>1, <2>2, <2>3, <2>5, SilentStep DEF NLInv, Progress
<1> QED
  BY <1>7, <1>8

LEMMA OnePassStep == TypeOK /\ NLInv /\ Turn /\ OnePassTurn => NLInv' /\ Progress
  BY FetchLeftStep, RightExhaustedStep, TryRightStep DEF OnePassTurn

-----------------------------------------------------------------------------
(* RIGHT and FULL *)

LEMMA TwoPassKeeps ==
  ASSUME TypeOK, NLInv, Turn, TwoPassTurn
  PROVE  /\ TwoPass /\ TwoPass' /\ currentLeft = 0 /\ currentLeft' = 0
         /\ leftPhase => join.type = "full" /\ rightPhase /\ rightPos = join.right
         /\ rightMatched = {k \in 1 .. join.right : \E i \in 1 .. join.left : <<i, k>> \in Found}
         /\ leftMatchedFull = {i \in 1 .. join.left : /\ join.type = "full"
                                                     /\ \E k \in 1 .. join.right : <<i, k>> \in Found}
<1>1. TwoPass /\ TwoPass'
  BY DEF Turn, TwoPassTurn, TwoPass
<1>2. currentLeft = 0 /\ currentLeft' = 0
  BY <1>1 DEF NLInv, PhasesOrdered, TwoPassTurn
<1>3. leftPhase => join.type = "full" /\ rightPhase /\ rightPos = join.right
  BY DEF NLInv, PhasesOrdered
<1>4. /\ rightMatched = {k \in 1 .. join.right : \E i \in 1 .. join.left : <<i, k>> \in Found}
      /\ leftMatchedFull = {i \in 1 .. join.left : /\ join.type = "full"
                                                  /\ \E k \in 1 .. join.right : <<i, k>> \in Found}
  BY <1>1 DEF NLInv, MarksExact
<1> QED
  BY <1>1, <1>2, <1>3, <1>4

\* Once phase 1 is over the marks say who has a partner.
LEMMA MarksMean ==
  ASSUME TwoPass, rightPhase,
         rightMatched = {k \in 1 .. join.right : \E i \in 1 .. join.left : <<i, k>> \in Found},
         leftMatchedFull = {i \in 1 .. join.left : /\ join.type = "full"
                                                 /\ \E k \in 1 .. join.right : <<i, k>> \in Found}
  PROVE  /\ Scanned = Pairs
         /\ \A k \in 1 .. join.right : k \in rightMatched <=> ~NoPartnerLeft(k)
         /\ join.type = "full" =>
              \A i \in 1 .. join.left : i \in leftMatchedFull <=> ~NoPartnerRight(i)
<1>1. Scanned = Pairs
  BY DEF Scanned, Pairs
<1>2. \A i \in 1 .. join.left, k \in 1 .. join.right : <<i, k>> \in Found <=> Matches(i, k)
  BY <1>1, FoundFacts DEF Pairs
<1> QED
  BY <1>1, <1>2 DEF NoPartnerLeft, NoPartnerRight

\* The marks follow what has been found.
LEMMA SameMarks ==
  ASSUME TypeOK, NLInv, Turn, TwoPassTurn, Found' = Found,
         UNCHANGED <<rightMatched, leftMatchedFull>>
  PROVE  MarksExact'
<1>1. join' = join
  BY DEF Turn
<1> QED
  BY <1>1, TwoPassKeeps DEF MarksExact

LEMMA UnmatchedLeftStep ==
  ASSUME TypeOK, NLInv, Turn, TwoPassTurn, UnmatchedLeft
  PROVE  NLInv' /\ Progress
<1> DEFINE i == leftPhasePos + 1
<1>1. /\ join' = join /\ join.left \in Nat /\ join.right \in Nat
      /\ leftPhasePos \in 0 .. join.left /\ DeliveredExact /\ Asked' = Asked
  BY TurnFacts
<1>2. /\ TwoPass /\ TwoPass' /\ currentLeft' = 0 /\ leftPhase /\ rightPhase
      /\ rightPos = join.right /\ join.type = "full"
  BY TwoPassKeeps DEF UnmatchedLeft
<1>3. /\ rightPos' = rightPos /\ leftPos' = leftPos /\ rightPhase' = rightPhase
      /\ leftPhase' = leftPhase /\ UNCHANGED <<rightMatched, leftMatchedFull>>
  BY DEF UnmatchedLeft
<1>4. Scanned' = Scanned /\ RightFinished' = RightFinished
  BY <1>1, <1>2, <1>3 DEF Scanned, RightFinished, TwoPass
<1>5. Found' = Found /\ PaddedRight' = PaddedRight
  BY <1>1, <1>4, SamePads
<1>6. MarksExact'
  BY <1>3, <1>5, SameMarks
<1>7. PhasesOrdered'
  BY <1>1, <1>2, <1>3 DEF PhasesOrdered
<1>8. CASE leftPhasePos < join.left
  <2>1. leftPhasePos' = i /\ i \in 1 .. join.left
    BY <1>1, <1>8 DEF UnmatchedLeft
  <2>2. LeftFinished' = LeftFinished \union {i} /\ i \notin LeftFinished
    BY <1>1, <1>2, <1>3, <2>1 DEF LeftFinished
  <2>3. i \in leftMatchedFull <=> ~NoPartnerRight(i)
    BY <1>2, <2>1, TwoPassKeeps, MarksMean
  <2>4. PaddedLeft' = {j \in LeftFinished' : Keeps /\ NoPartnerRight(j)}
    BY <1>1, <2>1, <2>2, AloneFacts DEF PaddedLeft, LeftFinished, Keeps, Cursor!KeepsLeft
  <2>5. CASE i \in leftMatchedFull
    <3>1. PaddedLeft' = PaddedLeft
      BY <2>2, <2>3, <2>4, <2>5, PaddedFacts
    <3>2. pc' = "loop" /\ UNCHANGED answers
      BY <1>1, <1>8, <2>5 DEF UnmatchedLeft, Continue
    <3>3. Silent
      BY <1>5, <3>1, <3>2 DEF Silent, answers
    <3> QED
      BY <1>1, <1>6, <1>7, <3>2, <3>3, SilentStep DEF NLInv, Progress
  <2>6. CASE i \notin leftMatchedFull
    <3>1. PaddedLeft' = PaddedLeft \union {i} /\ i \notin PaddedLeft
      BY <1>2, <2>2, <2>3, <2>4, <2>6, PaddedFacts DEF Keeps
    <3>2. pc' = "ready" /\ delivered' = delivered \union {<<i, 0>>} /\ returned' = returned + 1
      BY <1>1, <1>8, <2>6 DEF UnmatchedLeft, Return
    <3>3. DeliveredExact' /\ Fresh(<<i, 0>>)
      BY <1>1, <1>5, <2>1, <3>1, <3>2, LeftStep
    <3> QED
      BY <1>6, <1>7, <3>2, <3>3 DEF NLInv, Progress
  <2> QED
    BY <2>5, <2>6
<1>9. CASE leftPhasePos = join.left
  <2>1. pc' = "eof" /\ UNCHANGED <<answers, leftPhasePos>>
    BY <1>1, <1>9 DEF UnmatchedLeft, EndOfInput
  <2>2. LeftFinished' = LeftFinished
    BY <1>1, <1>2, <1>3, <2>1 DEF LeftFinished
  <2>3. Silent
    BY <1>1, <1>5, <2>1, <2>2, SamePads DEF Silent, answers
  <2>4. Scanned = Pairs
    BY <1>2 DEF Scanned, Pairs
  <2>5. LeftFinished = 1 .. join.left /\ RightFinished = 1 .. join.right
    BY <1>1, <1>2, <1>9 DEF LeftFinished, RightFinished
  <2>6. delivered = Cursor!Answer(Asked)
    BY <1>1, <2>4, <2>5, Complete
  <2> QED
    BY <1>1, <1>6, <1>7, <2>1, <2>3, <2>6, SilentStep DEF NLInv, Progress
<1> QED
  BY <1>1, <1>8, <1>9

LEMMA UnmatchedRightStep ==
  ASSUME TypeOK, NLInv, Turn, TwoPassTurn, UnmatchedRight
  PROVE  NLInv' /\ Progress
<1> DEFINE k == rightPos + 1
<1>1. /\ join' = join /\ join.left \in Nat /\ join.right \in Nat
      /\ rightPos \in 0 .. join.right /\ leftPhasePos \in 0 .. join.left
      /\ DeliveredExact /\ Asked' = Asked
  BY TurnFacts
<1>2. TwoPass /\ TwoPass' /\ currentLeft' = 0 /\ rightPhase /\ ~leftPhase
  BY TwoPassKeeps DEF UnmatchedRight
<1>3. /\ leftPos' = leftPos /\ rightPhase' = rightPhase
      /\ UNCHANGED <<rightMatched, leftMatchedFull>>
  BY DEF UnmatchedRight
<1>4. Scanned = Pairs /\ Scanned' = Scanned
  BY <1>1, <1>2, <1>3 DEF Scanned, Pairs, TwoPass
<1>5. Found' = Found
  BY <1>1, <1>4, SamePads
<1>6. MarksExact'
  BY <1>3, <1>5, SameMarks
<1>7. CASE rightPos < join.right
  <2>1. /\ rightPos' = k /\ k \in 1 .. join.right /\ leftPhase' = leftPhase
        /\ leftPhasePos' = leftPhasePos
    BY <1>1, <1>7 DEF UnmatchedRight
  <2>2. /\ RightFinished' = RightFinished \union {k} /\ k \notin RightFinished
        /\ LeftFinished' = LeftFinished
    BY <1>1, <1>2, <1>3, <2>1 DEF RightFinished, LeftFinished
  <2>3. k \in rightMatched <=> ~NoPartnerLeft(k)
    BY <1>2, <2>1, TwoPassKeeps, MarksMean
  <2>4. PaddedRight' = {j \in RightFinished' : KeepsR /\ NoPartnerLeft(j)}
    BY <1>1, <2>1, <2>2, AloneFacts DEF PaddedRight, RightFinished, KeepsR, Cursor!KeepsRight
  <2>5. PaddedLeft' = PaddedLeft
    BY <1>1, <2>2, SamePads
  <2>6. PhasesOrdered'
    BY <1>2, <2>1 DEF PhasesOrdered
  <2>7. CASE k \in rightMatched
    <3>1. PaddedRight' = PaddedRight
      BY <2>2, <2>3, <2>4, <2>7, PaddedFacts
    <3>2. pc' = "loop" /\ UNCHANGED answers
      BY <1>1, <1>7, <2>7 DEF UnmatchedRight, Continue
    <3>3. Silent
      BY <1>5, <2>5, <3>1, <3>2 DEF Silent, answers
    <3> QED
      BY <1>1, <1>6, <2>6, <3>2, <3>3, SilentStep DEF NLInv, Progress
  <2>8. CASE k \notin rightMatched
    <3>1. PaddedRight' = PaddedRight \union {k} /\ k \notin PaddedRight
      BY <1>2, <2>2, <2>3, <2>4, <2>8, PaddedFacts DEF KeepsR, TwoPass
    <3>2. pc' = "ready" /\ delivered' = delivered \union {<<0, k>>} /\ returned' = returned + 1
      BY <1>1, <1>7, <2>8 DEF UnmatchedRight, Return
    <3>3. DeliveredExact' /\ Fresh(<<0, k>>)
      BY <1>1, <1>5, <2>1, <2>5, <3>1, <3>2, RightStep
    <3> QED
      BY <1>6, <2>6, <3>2, <3>3 DEF NLInv, Progress
  <2> QED
    BY <2>7, <2>8
<1>8. CASE rightPos = join.right
  <2>1. rightPos' = rightPos
    BY <1>1, <1>8 DEF UnmatchedRight
  <2>2. RightFinished = 1 .. join.right /\ RightFinished' = RightFinished
    BY <1>1, <1>2, <1>3, <1>8, <2>1 DEF RightFinished
  <2>3. LeftFinished = {}
    BY <1>2 DEF LeftFinished
  <2>4. PaddedRight' = PaddedRight
    BY <1>1, <2>2, SamePads
  <2>5. CASE join.type = "full"
    <3>1. leftPhase' = TRUE /\ leftPhasePos' = 0 /\ pc' = "loop" /\ UNCHANGED answers
      BY <1>1, <1>8, <2>5 DEF UnmatchedRight, Continue
    <3>2. LeftFinished' = {}
      BY <1>1, <1>2, <3>1 DEF LeftFinished
    <3>3. Silent
      BY <1>1, <1>5, <2>3, <2>4, <3>1, <3>2, SamePads DEF Silent, answers
    <3>4. PhasesOrdered'
      BY <1>1, <1>2, <1>3, <1>8, <2>1, <2>5 DEF PhasesOrdered
    <3> QED
      BY <1>1, <1>6, <3>1, <3>3, <3>4, SilentStep DEF NLInv, Progress
  <2>6. CASE join.type # "full"
    <3>1. leftPhase' = leftPhase /\ leftPhasePos' = leftPhasePos /\ pc' = "eof" /\ UNCHANGED answers
      BY <1>1, <1>8, <2>6 DEF UnmatchedRight, EndOfInput
    <3>2. LeftFinished' = {}
      BY <1>1, <1>2, <3>1 DEF LeftFinished
    <3>3. Silent
      BY <1>1, <1>5, <2>3, <2>4, <3>1, <3>2, SamePads DEF Silent, answers
    <3>4. PhasesOrdered'
      BY <1>2, <3>1 DEF PhasesOrdered
    <3>5. ~Keeps
      BY <1>2, <2>6 DEF Keeps, TwoPass
    <3>6. delivered = Cursor!Answer(Asked)
      BY <1>1, <1>4, <2>2, <3>5, Complete
    <3> QED
      BY <1>1, <1>6, <3>1, <3>3, <3>4, <3>6, SilentStep DEF NLInv, Progress
  <2> QED
    BY <2>5, <2>6
<1> QED
  BY <1>1, <1>7, <1>8

LEMMA MatchingKeeps ==
  ASSUME TypeOK, NLInv, Turn, TwoPassTurn, Matching,
         leftPhase' = leftPhase, leftPhasePos' = leftPhasePos
  PROVE  /\ LeftFinished = {} /\ LeftFinished' = {} /\ RightFinished = {}
         /\ PaddedLeft' = PaddedLeft
<1>1. join' = join
  BY DEF Turn
<1>2. LeftFinished = {} /\ LeftFinished' = {} /\ RightFinished = {}
  BY TwoPassKeeps DEF LeftFinished, RightFinished, Matching
<1> QED
  BY <1>1, <1>2, SamePads

LEMMA RightRowsDoneStep ==
  ASSUME TypeOK, NLInv, Turn, TwoPassTurn, RightRowsDone
  PROVE  NLInv' /\ Progress
<1>1. /\ join' = join /\ join.left \in Nat /\ join.right \in Nat
      /\ DeliveredExact /\ Asked' = Asked
  BY TurnFacts
<1>2. TwoPass /\ TwoPass' /\ currentLeft' = 0 /\ ~rightPhase /\ ~leftPhase /\ rightPos = join.right
  BY TwoPassKeeps DEF RightRowsDone, Matching
<1>3. /\ leftPhase' = leftPhase /\ leftPhasePos' = leftPhasePos /\ rightPhase' = TRUE
      /\ rightPos' = 0 /\ UNCHANGED <<rightMatched, leftMatchedFull>>
      /\ pc' = "loop" /\ UNCHANGED answers
  BY DEF RightRowsDone, Continue
<1>4. Scanned' = Scanned
  BY <1>1, <1>2, <1>3 DEF Scanned, TwoPass
<1>5. RightFinished' = {} /\ RightFinished = {} /\ PaddedLeft' = PaddedLeft
  BY <1>1, <1>2, <1>3, MatchingKeeps DEF RightFinished, RightRowsDone
<1>6. Silent
  BY <1>1, <1>3, <1>4, <1>5, SamePads DEF Silent, answers
<1>7. MarksExact'
  BY <1>3, <1>6, SameMarks DEF Silent
<1>8. PhasesOrdered'
  BY <1>2, <1>3 DEF PhasesOrdered
<1> QED
  BY <1>1, <1>3, <1>6, <1>7, <1>8, SilentStep DEF NLInv, Progress

LEMMA NextRightRowStep ==
  ASSUME TypeOK, NLInv, Turn, TwoPassTurn, NextRightRow
  PROVE  NLInv' /\ Progress
<1>1. /\ join' = join /\ join.left \in Nat /\ join.right \in Nat
      /\ rightPos \in 0 .. join.right /\ DeliveredExact /\ Asked' = Asked
  BY TurnFacts
<1>2. /\ TwoPass /\ TwoPass' /\ currentLeft' = 0 /\ ~rightPhase /\ ~leftPhase
      /\ rightPos < join.right /\ leftPos = join.left
  BY TwoPassKeeps DEF NextRightRow, Matching
<1>3. /\ leftPhase' = leftPhase /\ leftPhasePos' = leftPhasePos /\ rightPhase' = rightPhase
      /\ rightPos' = rightPos + 1 /\ leftPos' = 0 /\ UNCHANGED <<rightMatched, leftMatchedFull>>
      /\ pc' = "loop" /\ UNCHANGED answers
  BY DEF NextRightRow, Continue
<1>4. Scanned' = Scanned
  BY <1>1, <1>2, <1>3 DEF Scanned
<1>5. RightFinished' = {} /\ RightFinished = {} /\ PaddedLeft' = PaddedLeft
  BY <1>1, <1>2, <1>3, MatchingKeeps DEF RightFinished, NextRightRow
<1>6. Silent
  BY <1>1, <1>3, <1>4, <1>5, SamePads DEF Silent, answers
<1>7. MarksExact'
  BY <1>3, <1>6, SameMarks DEF Silent
<1>8. PhasesOrdered'
  BY <1>2, <1>3 DEF PhasesOrdered
<1> QED
  BY <1>1, <1>3, <1>6, <1>7, <1>8, SilentStep DEF NLInv, Progress

LEMMA TryLeftStep ==
  ASSUME TypeOK, NLInv, Turn, TwoPassTurn, TryLeft
  PROVE  NLInv' /\ Progress
<1> DEFINE i == leftPos + 1 k == rightPos + 1
<1>1. /\ join' = join /\ join.left \in Nat /\ join.right \in Nat
      /\ rightPos \in 0 .. join.right /\ leftPos \in 0 .. join.left
      /\ DeliveredExact /\ Asked' = Asked
  BY TurnFacts
<1>2. /\ TwoPass /\ TwoPass' /\ currentLeft' = 0 /\ ~rightPhase /\ ~leftPhase
      /\ i \in 1 .. join.left /\ k \in 1 .. join.right
  BY <1>1, TwoPassKeeps DEF TryLeft, Matching
<1>3. /\ leftPhase' = leftPhase /\ leftPhasePos' = leftPhasePos /\ rightPhase' = rightPhase
      /\ rightPos' = rightPos /\ leftPos' = i
  BY DEF TryLeft
<1>4. /\ Scanned' = Scanned \union {<<i, k>>} /\ <<i, k>> \notin Scanned
  BY <1>1, <1>2, <1>3 DEF Scanned
<1>5. Found' = (IF Matches(i, k) THEN Found \union {<<i, k>>} ELSE Found)
  BY <1>1, <1>4 DEF Found, Matches
<1>6. RightFinished' = {} /\ RightFinished = {} /\ PaddedLeft' = PaddedLeft
  BY <1>1, <1>2, <1>3, MatchingKeeps DEF RightFinished, TryLeft
<1>7. PaddedRight' = PaddedRight
  BY <1>1, <1>6, SamePads
<1>8. PhasesOrdered'
  BY <1>2, <1>3 DEF PhasesOrdered
<1>9. CASE Matches(i, k)
  <2>1. /\ delivered' = delivered \union {<<i, k>>} /\ returned' = returned + 1
        /\ pc' = "ready" /\ Matched(i, k)
    BY <1>9 DEF TryLeft, Judge, Return, Matches
  <2>2. Found' = Found \union {<<i, k>>} /\ <<i, k>> \notin Found
    BY <1>4, <1>5, <1>9, FoundFacts
  <2>3. DeliveredExact' /\ Fresh(<<i, k>>)
    BY <1>1, <1>2, <1>6, <1>7, <2>1, <2>2, PairStep
  <2>4. /\ rightMatched' = rightMatched \union {k}
        /\ leftMatchedFull' = (IF join.type = "full" THEN leftMatchedFull \union {i} ELSE leftMatchedFull)
    BY <2>1 DEF Matched
  <2>5. rightMatched' = {b \in 1 .. join.right : \E a \in 1 .. join.left : <<a, b>> \in Found'}
    BY <1>2, <2>2, <2>4, TwoPassKeeps
  <2>6. leftMatchedFull' = {a \in 1 .. join.left : /\ join.type = "full"
                                                  /\ \E b \in 1 .. join.right : <<a, b>> \in Found'}
    BY <1>2, <2>2, <2>4, TwoPassKeeps
  <2>7. MarksExact'
    BY <1>1, <1>2, <2>5, <2>6 DEF MarksExact
  <2> QED
    BY <1>8, <2>1, <2>3, <2>7 DEF NLInv, Progress
<1>10. CASE ~Matches(i, k)
  <2>1. /\ UNCHANGED answers /\ UNCHANGED <<rightMatched, leftMatchedFull>>
        /\ \/ pc' = "loop"
           \/ pc' = "failed" /\ join.verdict[<<i, k>>] = "error"
    BY <1>10 DEF TryLeft, Judge, Continue, Fail, Matches
  <2>2. pc' = "failed" => Asked.risky
    BY <1>2, <2>1 DEF Asked
  <2>3. Silent /\ Found' = Found
    BY <1>5, <1>6, <1>7, <1>10, <2>1 DEF Silent, answers
  <2>4. MarksExact'
    BY <2>1, <2>3, SameMarks
  <2> QED
    BY <1>1, <1>8, <2>1, <2>2, <2>3, <2>4, SilentStep DEF NLInv, Progress
<1> QED
  BY <1>9, <1>10

LEMMA TwoPassStep == TypeOK /\ NLInv /\ Turn /\ TwoPassTurn => NLInv' /\ Progress
  BY UnmatchedLeftStep, UnmatchedRightStep, RightRowsDoneStep, NextRightRowStep, TryLeftStep
     DEF TwoPassTurn

LEMMA TurnStep == TypeOK /\ NLInv /\ Turn => NLInv' /\ Progress
  BY OnePassStep, TwoPassStep DEF Turn

-----------------------------------------------------------------------------
(* Open, Call and Close *)

\* Before Open nothing has been looked at.
NewInv ==
  pc = "new" => /\ currentLeft = 0 /\ leftRead = 0 /\ rightPos = 0 /\ leftPos = 0
                /\ ~rightPhase /\ ~leftPhase
                /\ delivered = {}

IInv == TypeOK /\ NLInv /\ NewInv

LEMMA NothingYet ==
  ASSUME join.left \in Nat, join.right \in Nat, currentLeft = 0, rightPos = 0, leftPos = 0,
         ~rightPhase, ~leftPhase, ~TwoPass => leftRead = 0
  PROVE  /\ Scanned = {} /\ Found = {} /\ LeftFinished = {} /\ RightFinished = {}
         /\ Cursor!Rows(Found, PaddedLeft, PaddedRight) = {}
<1>1. Scanned = {} /\ LeftFinished = {} /\ RightFinished = {}
  BY DEF Scanned, LeftFinished, RightFinished
<1>2. Found = {} /\ PaddedLeft = {} /\ PaddedRight = {}
  BY <1>1 DEF Found, PaddedLeft, PaddedRight
<1> QED
  BY <1>1, <1>2 DEF Cursor!Rows

LEMMA InvInit == Init => IInv
<1> SUFFICES ASSUME Init PROVE IInv
  OBVIOUS
<1>1. TypeOK
  BY TypeInit
<1>2. join.left \in Nat /\ join.right \in Nat
  BY JoinFacts DEF Init
<1>3. /\ currentLeft = 0 /\ leftRead = 0 /\ rightPos = 0 /\ leftPos = 0 /\ delivered = {}
      /\ rightMatched = {} /\ leftMatchedFull = {}
  BY DEF Init
<1>4. ~rightPhase /\ ~leftPhase
  BY DEF Init
<1>5. Found = {} /\ Cursor!Rows(Found, PaddedLeft, PaddedRight) = {}
  BY <1>2, <1>3, <1>4, NothingYet
<1>6. NLInv
  BY <1>3, <1>4, <1>5 DEF NLInv, DeliveredExact, MarksExact, PhasesOrdered
<1> QED
  BY <1>1, <1>3, <1>4, <1>6 DEF IInv, NewInv

LEMMA InvOpen == IInv /\ Open => IInv'
<1> SUFFICES ASSUME IInv, Open PROVE IInv'
  OBVIOUS
<1>1. TypeOK'
  BY TypeOpen DEF IInv
<1>2. join' = join /\ join.left \in Nat /\ join.right \in Nat /\ pc = "new" /\ pc' # "new"
  BY JoinFacts DEF IInv, TypeOK, JoinOK, Open, LeftRefuses, RightRefuses, RightUnreadable,
                   LeftUnreadable, Opened
<1>3. /\ currentLeft = 0 /\ rightPos = 0 /\ leftPos = 0 /\ leftRead = 0
      /\ ~rightPhase /\ ~leftPhase /\ delivered = {}
  BY <1>2 DEF IInv, NewInv
<1>4. /\ currentLeft' = 0 /\ rightPos' = 0 /\ leftPos' = 0 /\ delivered' = {}
      /\ UNCHANGED <<rightMatched, leftMatchedFull, rightPhase, leftPhase>>
  BY <1>3 DEF Open, answers
<1>5. TwoPass' = TwoPass
  BY <1>2 DEF TwoPass
<1>6. ~TwoPass' => leftRead' = 0
  BY <1>3, <1>5 DEF Open, LeftRefuses, RightRefuses, RightUnreadable, LeftUnreadable, Opened
<1>7. Found = {}
  BY <1>2, <1>3, NothingYet
<1>8. ~rightPhase' /\ ~leftPhase'
  BY <1>3, <1>4
<1>9. Found' = {} /\ Cursor!Rows(Found, PaddedLeft, PaddedRight)' = {}
  <2>1. Scanned' = {} /\ LeftFinished' = {} /\ RightFinished' = {}
    BY <1>2, <1>4, <1>5, <1>6, <1>8 DEF Scanned, LeftFinished, RightFinished
  <2>2. Found' = {} /\ PaddedLeft' = {} /\ PaddedRight' = {}
    BY <2>1 DEF Found, PaddedLeft, PaddedRight
  <2> QED
    BY <2>2 DEF Cursor!Rows
<1>10. MarksExact'
  BY <1>2, <1>4, <1>5, <1>7, <1>9 DEF IInv, NLInv, MarksExact
<1>11. NLInv'
  BY <1>4, <1>8, <1>9, <1>10 DEF NLInv, DeliveredExact, PhasesOrdered
<1> QED
  BY <1>1, <1>2, <1>11 DEF IInv, NewInv

\* Entering Next and closing leave alone everything the invariant is about.
LEMMA InvRest == IInv /\ (Call \/ Close \/ UNCHANGED vars) => IInv'
<1> SUFFICES ASSUME IInv, Call \/ Close \/ UNCHANGED vars PROVE IInv'
  OBVIOUS
<1>1. TypeOK'
  BY TypeRest DEF IInv
<1>2. /\ join' = join /\ answers' = answers /\ cursor' = cursor
      /\ pc' = "new" => pc = "new"
  BY DEF Call, Close, vars, cursor, answers
<1>3. /\ UNCHANGED <<currentLeft, leftRead, leftMatched, rightPos, leftPos, rightMatched,
                     leftMatchedFull, rightPhase, leftPhase, leftPhasePos, delivered, returned>>
      /\ TwoPass' = TwoPass
  BY <1>2 DEF cursor, answers, TwoPass
<1>4. Scanned' = Scanned /\ LeftFinished' = LeftFinished /\ RightFinished' = RightFinished
  BY <1>2, <1>3 DEF Scanned, LeftFinished, RightFinished
<1>5. Found' = Found /\ PaddedLeft' = PaddedLeft /\ PaddedRight' = PaddedRight
  BY <1>2, <1>4, SamePads
<1>6. DeliveredExact'
  BY <1>3, <1>5 DEF IInv, NLInv, DeliveredExact
<1>7. MarksExact'
  <2>1. MarksExact
    BY DEF IInv, NLInv
  <2>2. (\E k \in 1 .. rightPos : <<leftRead, k>> \in Found)' <=> \E k \in 1 .. rightPos : <<leftRead, k>> \in Found
    BY <1>3, <1>5
  <2>3. currentLeft' # 0 => (leftMatched' <=> \E k \in 1 .. rightPos' : <<leftRead', k>> \in Found')
    BY <1>3, <2>1, <2>2, Zenon DEF MarksExact
  <2>4. TwoPass' => rightMatched' = {k \in 1 .. join'.right : \E i \in 1 .. join'.left : <<i, k>> \in Found'}
    BY <1>2, <1>3, <1>5, <2>1, Zenon DEF MarksExact
  <2>5. TwoPass' => leftMatchedFull' = {i \in 1 .. join'.left : /\ join'.type = "full"
                                                               /\ \E k \in 1 .. join'.right : <<i, k>> \in Found'}
    BY <1>2, <1>3, <1>5, <2>1, Zenon DEF MarksExact
  <2> QED
    BY <2>3, <2>4, <2>5, Zenon DEF MarksExact
<1>8. PhasesOrdered'
  BY <1>2, <1>3 DEF IInv, NLInv, PhasesOrdered
<1>9. NewInv'
  BY <1>2, <1>3 DEF IInv, NewInv
<1> QED
  BY <1>1, <1>6, <1>7, <1>8, <1>9 DEF IInv, NLInv

LEMMA InvTurn == IInv /\ Turn => IInv' /\ Progress
<1> SUFFICES ASSUME IInv, Turn PROVE IInv' /\ Progress
  OBVIOUS
<1>1. TypeOK' /\ NLInv' /\ Progress
  BY TypeTurn, TurnStep DEF IInv
<1>2. pc' # "new"
  BY <1>1 DEF Progress
<1> QED
  BY <1>1, <1>2 DEF IInv, NewInv

LEMMA InvNext == IInv /\ [Next]_vars => IInv'
  BY InvOpen, InvTurn, InvRest DEF Next

\* At every point of the loops the rows returned are exactly those the loops
\* have gone through, and the match marks are those of the rows tried so far.
THEOREM JoinConsistent == Spec => []NLInv
<1>1. IInv => NLInv
  BY DEF IInv
<1> QED
  BY <1>1, InvInit, InvNext, PTL DEF Spec

-----------------------------------------------------------------------------
(* Releasing the children *)

Used == [c \in Child |-> IF c = "right" THEN 1 ELSE IF leftClosed THEN 1 ELSE 0]

\* Between Open and Close the right child is closed, and the left one when
\* Open has read it whole.
ReleaseInv ==
  /\ pc = "new" => NoneOpened
  /\ pc \in {"ready", "loop", "eof", "failed"} => opened = Child /\ closes = Used
  /\ ChildrenReleased

LEMMA ReleaseStep == TypeOK /\ ReleaseInv /\ [Next]_vars => ReleaseInv'
<1> SUFFICES ASSUME TypeOK, ReleaseInv, [Next]_vars PROVE ReleaseInv'
  OBVIOUS
<1>0. leftClosed \in BOOLEAN /\ TwoPass \in BOOLEAN
  BY SMT DEF TypeOK, FlagsOK, TwoPass
<1>1. CASE Open
  <2>1. pc = "new" /\ closes = [c \in Child |-> 0] /\ pc' \in {"refused", "ready"}
    BY <1>1 DEF Open, LeftRefuses, RightRefuses, RightUnreadable, LeftUnreadable, Opened,
                ReleaseInv, NoneOpened
  <2>2. CASE Opened
    <3>1. opened' = Child /\ leftClosed' = TwoPass
          /\ closes' = Closed(IF TwoPass THEN Child ELSE {"right"})
      BY <2>2 DEF Opened
    <3>2. closes' = Used'
      BY <1>0, <2>1, <3>1 DEF Used, Closed, Child
    <3> QED
      BY <2>1, <3>1, <3>2 DEF ReleaseInv, ChildrenReleased
  <2>3. CASE ~Opened
    <3>1. pc' = "refused"
      BY <1>1, <2>3 DEF Open, LeftRefuses, RightRefuses, RightUnreadable, LeftUnreadable
    <3> QED
      BY <3>1 DEF ReleaseInv, ChildrenReleased
  <2> QED
    BY <2>2, <2>3
<1>2. CASE Call \/ Turn
  <2>1. UNCHANGED <<opened, closes, leftClosed>> /\ pc \in {"ready", "loop"}
    BY <1>2 DEF Call, Turn, children
  <2>2. pc' \in {"ready", "loop", "eof", "failed"}
    BY <1>2 DEF Call, Turn, OnePassTurn, TwoPassTurn, FetchLeft, RightExhausted, TryRight,
                UnmatchedLeft, UnmatchedRight, RightRowsDone, NextRightRow, TryLeft, Judge,
                Return, Continue, Fail, EndOfInput
  <2>3. opened' = Child /\ closes' = Used'
    BY <2>1 DEF ReleaseInv, Used
  <2> QED
    BY <2>2, <2>3 DEF ReleaseInv, ChildrenReleased
<1>3. CASE Close
  <2>1. /\ opened' = Child /\ closes = Used /\ pc' = "closed"
        /\ closes' = (IF leftClosed THEN closes ELSE Closed({"left"}))
    BY <1>3 DEF Close, ReleaseInv
  <2>2. closes' = [c \in Child |-> 1]
    BY <1>0, <2>1 DEF Used, Closed, Child
  <2> QED
    BY <2>1, <2>2 DEF ReleaseInv, ChildrenReleased, ReleasedOnce
<1>4. CASE UNCHANGED vars
  BY <1>4 DEF vars, ReleaseInv, ChildrenReleased, ReleasedOnce, NoneOpened, Used
<1> QED
  BY <1>1, <1>2, <1>3, <1>4 DEF Next

\* A join that is closed has closed each of its children once: the right one
\* in Open, the left one in Open or in Close, never in both.
THEOREM ChildrenAreReleased == Spec => []ChildrenReleased
<1>1. Init => ReleaseInv
  BY DEF Init, ReleaseInv, ChildrenReleased
<1>2. ReleaseInv => ChildrenReleased
  BY DEF ReleaseInv
<1> QED
  BY <1>1, <1>2, ReleaseStep, TypeCorrect, PTL DEF Spec

-----------------------------------------------------------------------------
(* The refinement *)

LEMMA RefinesInit == Init => Cursor!Init
<1> SUFFICES ASSUME Init PROVE Cursor!Init
  OBVIOUS
<1>1. /\ Asked.type \in Cursor!Type /\ Asked.left \in Nat /\ Asked.right \in Nat
      /\ Asked.match \subseteq Cursor!LeftRows(Asked) \X Cursor!RightRows(Asked)
  BY JoinFacts, AskedFacts DEF Init, Cursor!Type, Cursor!LeftRows, Cursor!RightRows, Pairs
<1>2. Asked.risky \in BOOLEAN
  BY DEF Asked
<1> QED
  BY <1>1, <1>2 DEF Init, Cursor!Init

LEMMA RefinesNext ==
  IInv /\ ReturnsOnlyAnswers' /\ [Next]_vars => [Cursor!Next]_(Cursor!vars)
<1> SUFFICES ASSUME IInv, ReturnsOnlyAnswers', [Next]_vars PROVE [Cursor!Next]_(Cursor!vars)
  OBVIOUS
<1>1. join' = join /\ Asked' = Asked
  BY DEF Next, Open, Call, Turn, Close, vars, Asked
<1>2. CASE Open
  <2>1. pc = "new" /\ UNCHANGED <<delivered, returned>>
    BY <1>2 DEF Open, answers
  <2>2. \/ pc' = "ready"
        \/ pc' = "refused" /\ (join.leftFault # "none" \/ join.rightFault # "none")
    BY <1>2 DEF Open, LeftRefuses, RightRefuses, RightUnreadable, LeftUnreadable, Opened
  <2>3. pc' = "refused" => Asked.risky
    BY <2>2 DEF Asked
  <2>4. Cursor!Open \/ Cursor!Refuse
    BY <1>1, <2>1, <2>2, <2>3 DEF Cursor!Open, Cursor!Refuse
  <2> QED
    BY <2>4 DEF Cursor!Next
<1>3. CASE Call
  BY <1>1, <1>3 DEF Call, answers, Cursor!vars
<1>4. CASE Turn
  <2>1. IInv' /\ Progress /\ pc = "loop"
    BY <1>4, InvTurn DEF Turn
  <2>2. CASE answers' = answers
    <3>1. CASE pc' = "loop"
      BY <1>1, <2>1, <2>2, <3>1 DEF answers, Cursor!vars
    <3>2. CASE pc' = "failed" /\ Asked.risky
      <4>1. Cursor!Fail
        BY <1>1, <2>1, <2>2, <3>2 DEF answers, Cursor!Fail
      <4> QED
        BY <4>1 DEF Cursor!Next
    <3>3. CASE pc' = "eof" /\ delivered = Cursor!Answer(Asked)
      <4>1. Cursor!End
        BY <1>1, <2>1, <2>2, <3>3 DEF answers, Cursor!End
      <4> QED
        BY <4>1 DEF Cursor!Next
    <3>4. CASE pc' = "ready"
      BY <1>1, <2>1, <2>2, <3>4 DEF answers, Cursor!vars
    <3> QED
      BY <2>1, <3>1, <3>2, <3>3, <3>4 DEF Progress
  <2>3. CASE pc' = "ready" /\ returned' = returned + 1 /\ \E row : Fresh(row)
    <3>1. PICK row : Fresh(row)
      BY <2>3
    <3>2. delivered' \subseteq Cursor!Answer(Asked)
      <4>1. Cursor!Answer(Asked)' = Cursor!Answer(Asked)
        BY <1>1 DEF Cursor!Answer, Cursor!LeftAlone, Cursor!RightAlone, Cursor!LeftRows,
                    Cursor!RightRows, Cursor!KeepsLeft, Cursor!KeepsRight, Cursor!Rows
      <4> QED
        BY <4>1 DEF ReturnsOnlyAnswers
    <3>3. row \in Cursor!Answer(Asked) \ delivered
      BY <3>1, <3>2 DEF Fresh
    <3>4. Cursor!Return(row)
      BY <1>1, <2>1, <2>3, <3>1, <3>3 DEF Cursor!Return, Fresh
    <3> QED
      BY <3>3, <3>4 DEF Cursor!Next
  <2> QED
    BY <2>1, <2>2, <2>3 DEF Progress
<1>5. CASE Close
  <2>1. Cursor!Close
    BY <1>1, <1>5 DEF Close, answers, Cursor!Close
  <2> QED
    BY <2>1 DEF Cursor!Next
<1>6. CASE UNCHANGED vars
  BY <1>1, <1>6 DEF vars, Cursor!vars
<1> QED
  BY <1>2, <1>3, <1>4, <1>5, <1>6 DEF Next

\* The five joins of nl_join.go return each row of their answer exactly once,
\* then EOF, for all sizes of the two sides and every condition.
THEOREM ImplementsJoin == Spec => IsJoinCursor
<1>1. IInv => ReturnsOnlyAnswers
  BY Sound DEF IInv, NLInv
<1> QED
  BY InvInit, InvNext, <1>1, RefinesInit, RefinesNext, PTL DEF Spec, IsJoinCursor, Cursor!Spec
=============================================================================
