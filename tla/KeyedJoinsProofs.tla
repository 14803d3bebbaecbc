-------------------------- MODULE KeyedJoinsProofs --------------------------
(***************************************************************************)
(* The joins on a key release their children; and the hash join returns    *)
(* each row of the join of its keys exactly once, for every condition and  *)
(* any number of rows: it implements JoinCursor.  MergeJoinProofs says the *)
(* same of the sort-merge join, and when the join of the keys is the one   *)
(* the condition asks for.                                                 *)
(***************************************************************************)
EXTENDS KeyedJoins, TLAPS, SequenceTheorems, WellFoundedInduction

-----------------------------------------------------------------------------
(* What the rows are joined by                                               *)

LeftSide == 1 .. Len(join.left)
RightSide == 1 .. Len(join.right)
Pairs == LeftSide \X RightSide

LeftValue(i) == SideValue(join.left[i], "left")
RightValue(k) == SideValue(join.right[k], "right")

\* What rows are joined by, when it can be found and is not NULL.
Keys ==
  IF join.condition = NoCondition THEN {"cross"}
  ELSE IF join.condition.op = "=" THEN Value ELSE {"true", "false"}

Equal(v, w) == v \in Keys /\ w \in Keys /\ (v = w \/ <<v, w>> \in Holds["="])

LEMMA JoinFacts ==
  ASSUME join \in Joins
  PROVE  /\ join.type \in {"inner", "left", "right"}
         /\ join.left \in Seq([LeftColumns -> Cell])
         /\ join.right \in Seq([RightColumns -> Cell])
         /\ Len(join.left) \in Nat /\ Len(join.right) \in Nat
         /\ \A i \in LeftSide : join.left[i] \in [LeftColumns -> Cell]
         /\ \A k \in RightSide : join.right[k] \in [RightColumns -> Cell]
         /\ join.condition \in Condition \union {NoCondition}
<1>1. /\ join.type \in {"inner", "left", "right"}
      /\ join.left \in Seq([LeftColumns -> Cell])
      /\ join.right \in Seq([RightColumns -> Cell])
      /\ join.condition \in Condition \union {NoCondition}
  BY JoinsAssumption DEF Rows
<1>2. /\ Len(join.left) \in Nat /\ Len(join.right) \in Nat
      /\ \A i \in LeftSide : join.left[i] \in [LeftColumns -> Cell]
      /\ \A k \in RightSide : join.right[k] \in [RightColumns -> Cell]
  BY <1>1, LenProperties, ElementOfSeq DEF LeftSide, RightSide
<1> QED
  BY <1>1, <1>2

LEMMA TextsApart ==
  /\ "cross" \notin Cell /\ "unfound" \notin Cell /\ Null \in Cell /\ Null \notin Value
  /\ "true" \notin Cell /\ "false" \notin Cell /\ Value \subseteq Cell /\ Cell = Value \union {Null}
BY HoldsAssumption DEF Cell, Unfound

\* The equality of a join whose keys are meant names a column of each side, which is
\* the one that is looked up; no row is without it.
LEMMA ColumnsFound ==
  ASSUME join \in Joins, join.condition # NoCondition, KeysMeant(join)
  PROVE  \E l, r \in {join.condition.a, join.condition.b} :
           /\ join.condition.op = "="
           /\ l.side = "left" /\ r.side = "right"
           /\ l.column \in LeftColumns /\ r.column \in RightColumns
           /\ {join.condition.a, join.condition.b} = {l, r}
           /\ l.column = Found(join.condition.a, join.condition.b, LeftColumns)
           /\ r.column = Found(join.condition.b, join.condition.a, RightColumns)
           /\ \A row \in [LeftColumns -> Cell] : SideValue(row, "left") = row[l.column]
           /\ \A row \in [RightColumns -> Cell] : SideValue(row, "right") = row[r.column]
<1> DEFINE c == join.condition
<1>1. c \in Condition /\ KeysFound(c)
  BY JoinFacts DEF KeysMeant
<1>2. c.op = "=" /\ c.a \in Ref /\ c.b \in Ref
  BY <1>1 DEF Condition, KeysFound
<1>3. PICK l \in {c.a, c.b}, r \in {c.a, c.b} :
        /\ l.side = "left" /\ l.column = Found(c.a, c.b, LeftColumns)
        /\ r.side = "right" /\ r.column = Found(c.b, c.a, RightColumns)
  BY <1>1 DEF KeysFound
<1>4. l \in Ref /\ r \in Ref /\ l # r
  BY <1>2, <1>3
<1>5. l.column \in LeftColumns /\ r.column \in RightColumns
  BY <1>3, <1>4 DEF Ref
<1>6. {c.a, c.b} = {l, r}
  BY <1>3, <1>4
<1>7. ByEquality
  BY <1>2 DEF ByEquality
<1>8. ASSUME NEW row \in [LeftColumns -> Cell]
      PROVE  SideValue(row, "left") = row[l.column]
  <2>1. SideValue(row, "left") = EqualityValue(row, "left") /\ DOMAIN row = LeftColumns
    BY <1>7 DEF SideValue
  <2>2. Tries("left")[1] = c.a /\ Tries("left")[2] = c.b
    BY DEF Tries
  <2>3. EqualityValue(row, "left") = row[Found(c.a, c.b, LeftColumns)]
    <3>1. CASE c.a.column \in LeftColumns
      BY <2>1, <2>2, <3>1 DEF EqualityValue, Has, Found
    <3>2. CASE c.a.column \notin LeftColumns
      <4>1. c.b.column \in LeftColumns
        BY <1>3, <1>5, <3>2 DEF Found
      <4> QED
        BY <2>1, <2>2, <3>2, <4>1 DEF EqualityValue, Has, Found
    <3> QED
      BY <3>1, <3>2
  <2> QED
    BY <1>3, <2>1, <2>3
<1>9. ASSUME NEW row \in [RightColumns -> Cell]
      PROVE  SideValue(row, "right") = row[r.column]
  <2>1. SideValue(row, "right") = EqualityValue(row, "right") /\ DOMAIN row = RightColumns
    BY <1>7 DEF SideValue
  <2>2. Tries("right")[1] = c.b /\ Tries("right")[2] = c.a
    BY DEF Tries
  <2>3. EqualityValue(row, "right") = row[Found(c.b, c.a, RightColumns)]
    <3>1. CASE c.b.column \in RightColumns
      BY <2>1, <2>2, <3>1 DEF EqualityValue, Has, Found
    <3>2. CASE c.b.column \notin RightColumns
      <4>1. c.a.column \in RightColumns
        BY <1>3, <1>5, <3>2 DEF Found
      <4> QED
        BY <2>1, <2>2, <3>2, <4>1 DEF EqualityValue, Has, Found
    <3> QED
      BY <3>1, <3>2
  <2> QED
    BY <1>3, <2>1, <2>3
<1> QED
  BY <1>2, <1>3, <1>5, <1>6, <1>8, <1>9

LEMMA SideValueTyped ==
  ASSUME join \in Joins, NEW columns, NEW row \in [columns -> Cell], NEW side \in {"left", "right"}
  PROVE  SideValue(row, side) \in Keys \union {Null, "unfound"}
<1>1. CASE join.condition = NoCondition
  BY <1>1 DEF SideValue, Keys
<1>2. CASE join.condition # NoCondition
  <2> DEFINE c == join.condition
  <2>1. c \in Condition
    BY <1>2, JoinFacts
  <2>2. DOMAIN row = columns /\ \A column \in columns : row[column] \in Cell
    OBVIOUS
  <2>3. CASE c.op = "="
    <3>1. SideValue(row, side) = EqualityValue(row, side) /\ Keys = Value
      BY <1>2, <2>3 DEF SideValue, ByEquality, Keys
    <3>2. EqualityValue(row, side) \in Cell \union {"unfound"}
      BY <2>2 DEF EqualityValue, Has, Unfound
    <3> QED
      BY <3>1, <3>2 DEF Cell
  <2>4. CASE c.op # "="
    <3>1. SideValue(row, side) = WholeValue(row) /\ Keys = {"true", "false"}
      BY <1>2, <2>4 DEF SideValue, ByEquality, Keys
    <3>2. WholeValue(row) \in {"true", "false", Null, "unfound"}
      BY DEF WholeValue, Compared, Unfound
    <3> QED
      BY <3>1, <3>2
  <2> QED
    BY <2>3, <2>4
<1> QED
  BY <1>1, <1>2

LEMMA SideValues ==
  ASSUME join \in Joins
  PROVE  /\ \A i \in LeftSide : LeftValue(i) \in Keys \union {Null, "unfound"}
         /\ \A k \in RightSide : RightValue(k) \in Keys \union {Null, "unfound"}
BY JoinFacts, SideValueTyped DEF LeftValue, RightValue

-----------------------------------------------------------------------------
(* Typing, and the children                                                  *)

Given ==
  /\ join \in Joins
  /\ \/ algorithm = "hash" /\ join \in HashJoins
     \/ algorithm = "merge" /\ join \in MergeJoins

\* The left child has been closed n times, the right one m times.
ClosedTimes(n, m) == closes = [c \in Child |-> IF c = "left" THEN n ELSE m]

HashReleases ==
  /\ pc \in {"new", "build", "ready", "loop", "eof", "failed", "refused", "closed"}
  /\ pc = "build" => opened = Child /\ ClosedTimes(0, 0)
  /\ pc \in {"ready", "loop", "eof", "failed"} => opened = Child /\ ClosedTimes(0, 1)

MergeReleases ==
  /\ pc \in {"new", "build", "load", "ready", "loop", "eof", "refused", "closed"}
  /\ pc = "build" => opened = Child /\ ClosedTimes(0, 0)
  /\ pc = "load" => opened = Child /\ ClosedTimes(1, 0)
  /\ pc \in {"ready", "loop", "eof"} => opened = Child /\ ClosedTimes(1, 1)
  /\ pc = "refused" => ReleasedOnce

\* How often each child has been closed, at each point of the life of a join.
ReleaseInv ==
  /\ Given
  /\ pc = "new" => NoneOpened
  /\ algorithm = "hash" => HashReleases
  /\ algorithm = "merge" => MergeReleases
  /\ pc = "closed" => ReleasedOnce

LEMMA ReleaseInit == Init => ReleaseInv
<1> SUFFICES ASSUME Init PROVE ReleaseInv
  OBVIOUS
<1>1. pc = "new" /\ join \in Joins /\ NoneOpened
  BY DEF Init, H!Init, H!KeyedInit, H!NoneOpened, NoneOpened, Child, H!Child
<1>2. Given
  BY <1>1 DEF Init, Given
<1> QED
  BY <1>1, <1>2 DEF ReleaseInv, HashReleases, MergeReleases

LEMMA ReleaseHash == ReleaseInv /\ HashStep => ReleaseInv'
<1> SUFFICES ASSUME ReleaseInv, HashStep PROVE ReleaseInv'
  OBVIOUS
<1>1. /\ algorithm = "hash" /\ algorithm' = "hash" /\ HashReleases /\ H!Next
      /\ join \in Joins /\ join \in HashJoins
  BY DEF ReleaseInv, Given, HashStep
<1>2. join' = join
  <2>1. H!Open \/ H!BuildRow \/ H!BuildEnd => join' = join
    BY DEF H!Open, H!OpenChildren, H!BuildRow, H!BuildEnd
  <2>2. H!NextCall \/ H!Turn \/ H!Close => join' = join
    BY DEF H!NextCall, H!Call, H!Turn, H!Close
  <2> QED
    BY <1>1, <2>1, <2>2 DEF H!Next
<1>3. Given'
  BY <1>1, <1>2 DEF Given
<1>4. CASE H!Open
  <2>1. pc = "new" /\ closes = [c \in Child |-> 0] /\ pc' \in {"refused", "build"}
    BY <1>4 DEF ReleaseInv, NoneOpened, H!Open, H!OpenChildren, H!LeftRefuses, H!RightRefuses,
                H!StartBuild
  <2>2. pc' = "build" => opened' = Child /\ ClosedTimes(0, 0)'
    BY <1>4, <2>1 DEF H!Open, H!OpenChildren, H!LeftRefuses, H!RightRefuses, H!StartBuild,
                ClosedTimes, H!Child, Child
  <2> QED
    BY <1>1, <1>3, <2>1, <2>2 DEF ReleaseInv, HashReleases
<1>5. CASE H!BuildRow
  <2>1. pc = "build" /\ pc' \in {"refused", "build"} /\ UNCHANGED <<opened, closes>>
    BY <1>5 DEF H!BuildRow, H!children
  <2> QED
    BY <1>1, <1>3, <2>1 DEF ReleaseInv, HashReleases, ClosedTimes
<1>6. CASE H!BuildEnd
  <2>1. /\ pc = "build" /\ opened' = opened /\ opened = Child /\ ClosedTimes(0, 0)
        /\ pc' = "refused" \/ (pc' = "ready" /\ closes' = H!Closed({"right"}))
    BY <1>1, <1>6 DEF H!BuildEnd, HashReleases
  <2>2. pc' = "ready" => ClosedTimes(0, 1)'
    BY <2>1 DEF ClosedTimes, H!Closed, H!Child, Child
  <2> QED
    BY <1>1, <1>3, <2>1, <2>2 DEF ReleaseInv, HashReleases
<1>7. CASE H!NextCall \/ H!Turn
  <2>1. /\ pc \in {"ready", "loop"} /\ pc' \in {"ready", "loop", "eof", "failed"}
        /\ UNCHANGED <<opened, closes>>
    BY <1>7 DEF H!NextCall, H!Call, H!Turn, H!EmitQueued, H!LeftEnds, H!Probe, H!Alone, H!Return,
                H!Leave, H!children
  <2> QED
    BY <1>1, <1>3, <2>1 DEF ReleaseInv, HashReleases, ClosedTimes
<1>8. CASE H!Close
  <2>1. /\ opened = Child /\ ClosedTimes(0, 1) /\ opened' = opened
        /\ pc' = "closed" /\ closes' = H!Closed({"left"})
    BY <1>1, <1>8 DEF H!Close, HashReleases
  <2>2. ReleasedOnce'
    BY <2>1 DEF ClosedTimes, H!Closed, H!Child, Child, ReleasedOnce
  <2> QED
    BY <1>1, <1>3, <2>1, <2>2 DEF ReleaseInv, HashReleases
<1> QED
  BY <1>1, <1>4, <1>5, <1>6, <1>7, <1>8 DEF H!Next

LEMMA ReleaseMerge == ReleaseInv /\ MergeStep => ReleaseInv'
<1> SUFFICES ASSUME ReleaseInv, MergeStep PROVE ReleaseInv'
  OBVIOUS
<1>1. /\ algorithm = "merge" /\ algorithm' = "merge" /\ MergeReleases /\ M!Next
      /\ join \in Joins /\ join \in MergeJoins
  BY DEF ReleaseInv, Given, MergeStep
<1>2. join' = join
  BY <1>1 DEF M!Next, M!Open, M!OpenChildren, M!LoadLeft, M!LoadRight, M!NextCall, M!Call,
              M!Turn, M!Close
<1>3. Given'
  BY <1>1, <1>2 DEF Given
<1>4. CASE M!Open
  <2>1. pc = "new" /\ closes = [c \in Child |-> 0] /\ opened = {} /\ pc' \in {"refused", "build"}
    BY <1>4 DEF ReleaseInv, NoneOpened, M!Open, M!OpenChildren, M!LeftRefuses, M!RightRefuses,
                M!StartBuild
  <2>2. pc' = "build" => opened' = Child /\ ClosedTimes(0, 0)'
    BY <1>4, <2>1 DEF M!Open, M!OpenChildren, M!LeftRefuses, M!RightRefuses, M!StartBuild,
                ClosedTimes, M!Child, Child
  <2>3. pc' = "refused" => ReleasedOnce'
    BY <1>4, <2>1 DEF M!Open, M!OpenChildren, M!LeftRefuses, M!RightRefuses, M!StartBuild,
                M!Closed, M!Child, Child, M!children, ReleasedOnce
  <2> QED
    BY <1>1, <1>3, <2>1, <2>2, <2>3 DEF ReleaseInv, MergeReleases
<1>5. CASE M!LoadLeft
  <2>1. /\ pc = "build" /\ opened' = opened /\ opened = Child /\ ClosedTimes(0, 0)
        /\ \/ pc' = "refused" /\ closes' = M!Closed(M!Child)
           \/ pc' = "load" /\ closes' = M!Closed({"left"})
    BY <1>1, <1>5 DEF M!LoadLeft, MergeReleases
  <2>2. /\ pc' = "refused" => ReleasedOnce'
        /\ pc' = "load" => ClosedTimes(1, 0)'
    BY <2>1 DEF ClosedTimes, M!Closed, M!Child, Child, ReleasedOnce
  <2> QED
    BY <1>1, <1>3, <2>1, <2>2 DEF ReleaseInv, MergeReleases
<1>6. CASE M!LoadRight
  <2>1. /\ pc = "load" /\ opened' = opened /\ opened = Child /\ ClosedTimes(1, 0)
        /\ pc' \in {"refused", "ready"} /\ closes' = M!Closed({"right"})
    BY <1>1, <1>6 DEF M!LoadRight, MergeReleases
  <2>2. ReleasedOnce' /\ ClosedTimes(1, 1)'
    BY <2>1 DEF ClosedTimes, M!Closed, M!Child, Child, ReleasedOnce
  <2> QED
    BY <1>1, <1>3, <2>1, <2>2 DEF ReleaseInv, MergeReleases
<1>7. CASE M!NextCall \/ M!Turn
  <2>1. /\ pc \in {"ready", "loop"} /\ pc' \in {"ready", "loop", "eof"}
        /\ UNCHANGED <<opened, closes>>
    BY <1>7 DEF M!NextCall, M!Call, M!Turn, M!EmitPair, M!Merge, M!SideEnds, M!PassLeft,
                M!PassRight, M!SkipNull, M!Advance, M!EnterGroup, M!Return, M!Leave, M!children
  <2> QED
    BY <1>1, <1>3, <2>1 DEF ReleaseInv, MergeReleases, ClosedTimes
<1>8. CASE M!Close
  <2>1. /\ opened = Child /\ ClosedTimes(1, 1) /\ UNCHANGED <<opened, closes>>
        /\ pc' = "closed"
    BY <1>1, <1>8 DEF M!Close, M!children, MergeReleases
  <2>2. ReleasedOnce'
    BY <2>1 DEF ClosedTimes, Child, ReleasedOnce
  <2> QED
    BY <1>1, <1>3, <2>1, <2>2 DEF ReleaseInv, MergeReleases
<1> QED
  BY <1>1, <1>4, <1>5, <1>6, <1>7, <1>8 DEF M!Next

LEMMA ReleaseStep == ReleaseInv /\ [Next]_vars => ReleaseInv'
<1>1. ReleaseInv /\ UNCHANGED vars => ReleaseInv'
  BY DEF vars, ReleaseInv, Given, NoneOpened, HashReleases, MergeReleases, ClosedTimes,
         ReleasedOnce
<1> QED
  BY <1>1, ReleaseHash, ReleaseMerge DEF Next

\* A join on a key that is closed has closed each of its children once: the hash
\* join the right one in Open and the left one in Close, the merge join both in
\* Open.
THEOREM ChildrenAreReleased == Spec => []ChildrenReleased
<1>1. ReleaseInv => ChildrenReleased
  BY DEF ReleaseInv, ChildrenReleased
<1> QED
  BY <1>1, ReleaseInit, ReleaseStep, PTL DEF Spec

\* Whatever child fails and where: once Open of the merge join has returned, what
\* it had opened has been closed, once.
THEOREM MergeReleasesInOpen == Spec => []MergeUndoesOpen
<1>1. ReleaseInv => MergeUndoesOpen
  BY DEF ReleaseInv, MergeUndoesOpen, M!OpenUndone, M!ReleasedOnce, MergeReleases, ClosedTimes,
         ReleasedOnce, M!Child, Child
<1> QED
  BY <1>1, ReleaseInit, ReleaseStep, PTL DEF Spec

-----------------------------------------------------------------------------
(* The answer                                                                *)

\* Two rows have the same key: for the hash join, the keys can be made, are not NULL,
\* and read alike; for the merge join, they are not NULL and compare equal.
Joined(i, k) ==
  IF algorithm = "hash"
  THEN H!LeftKey(i).kind = "key" /\ H!LeftKey(i) = H!RightKey(k)
  ELSE M!KeysEqual(M!LeftKey(i), M!RightKey(k))

AloneLeft(i) == i \in LeftSide /\ \A k \in RightSide : ~Joined(i, k)
AloneRight(k) == k \in RightSide /\ \A i \in LeftSide : ~Joined(i, k)

\* <<i, k>> is a row of the answer.
IsRow(i, k) ==
  \/ i \in LeftSide /\ k \in RightSide /\ Joined(i, k)
  \/ join.type = "left" /\ k = 0 /\ AloneLeft(i)
  \/ join.type = "right" /\ i = 0 /\ AloneRight(k)

\* The hash join gives up at a row that has none of the columns.
KeyMissing ==
  /\ algorithm = "hash"
  /\ \/ \E i \in LeftSide : H!LeftKey(i) = H!BadKey
     \/ \E k \in RightSide : H!RightKey(k) = H!BadKey

\* The join of the keys, whatever they have to do with the condition.
AskedByKeys ==
  [type |-> join.type, left |-> Len(join.left), right |-> Len(join.right),
   match |-> {p \in Pairs : Joined(p[1], p[2])},
   risky |-> Asked.risky \/ KeyMissing]

Keyed == INSTANCE JoinCursor WITH
           join <- AskedByKeys,
           stage <- IF pc \in {"ready", "loop"} THEN "open"
                    ELSE IF pc \in Busy THEN "new" ELSE pc

Answered == Keyed!Answer(AskedByKeys)

LEMMA SidesAreNat ==
  ASSUME join \in Joins
  PROVE  /\ LeftSide \subseteq Nat /\ RightSide \subseteq Nat
         /\ 0 \notin LeftSide /\ 0 \notin RightSide
BY JoinFacts DEF LeftSide, RightSide

LEMMA AnsweredRows ==
  ASSUME join \in Joins
  PROVE  /\ Answered \subseteq Nat \X Nat
         /\ \A i, k \in Nat : <<i, k>> \in Answered <=> IsRow(i, k)
<1>1. /\ AskedByKeys.type = join.type /\ Keyed!LeftRows(AskedByKeys) = LeftSide
      /\ Keyed!RightRows(AskedByKeys) = RightSide
  BY DEF AskedByKeys, Keyed!LeftRows, Keyed!RightRows, LeftSide, RightSide
<1>2. AskedByKeys.match = {p \in Pairs : Joined(p[1], p[2])}
  BY DEF AskedByKeys
<1>3. AskedByKeys.match \subseteq LeftSide \X RightSide
  BY <1>2 DEF Pairs
<1>4. \A i \in LeftSide, k \in RightSide : <<i, k>> \in AskedByKeys.match <=> Joined(i, k)
  BY <1>2 DEF Pairs
<1>5. \A i : i \in Keyed!LeftAlone(AskedByKeys) <=> AloneLeft(i)
  BY <1>1, <1>4 DEF Keyed!LeftAlone, AloneLeft
<1>6. \A k : k \in Keyed!RightAlone(AskedByKeys) <=> AloneRight(k)
  BY <1>1, <1>4 DEF Keyed!RightAlone, AloneRight
<1>7. /\ Keyed!KeepsLeft(AskedByKeys.type) <=> join.type = "left"
      /\ Keyed!KeepsRight(AskedByKeys.type) <=> join.type = "right"
  BY <1>1, JoinFacts DEF Keyed!KeepsLeft, Keyed!KeepsRight
<1>8. Answered = AskedByKeys.match \union {<<i, 0>> : i \in {i \in Keyed!LeftAlone(AskedByKeys) : join.type = "left"}}
                  \union {<<0, k>> : k \in {k \in Keyed!RightAlone(AskedByKeys) : join.type = "right"}}
  BY <1>7 DEF Answered, Keyed!Answer, Keyed!Rows
<1>9. Answered \subseteq Nat \X Nat
  BY <1>3, <1>5, <1>6, <1>8, SidesAreNat DEF AloneLeft, AloneRight
<1>10. ASSUME NEW i \in Nat, NEW k \in Nat PROVE <<i, k>> \in Answered <=> IsRow(i, k)
  <2>1. <<i, k>> \in AskedByKeys.match <=> i \in LeftSide /\ k \in RightSide /\ Joined(i, k)
    BY <1>3, <1>4
  <2>2. <<i, k>> \in {<<x, 0>> : x \in {x \in Keyed!LeftAlone(AskedByKeys) : join.type = "left"}}
          <=> join.type = "left" /\ k = 0 /\ AloneLeft(i)
    BY <1>5
  <2>3. <<i, k>> \in {<<0, x>> : x \in {x \in Keyed!RightAlone(AskedByKeys) : join.type = "right"}}
          <=> join.type = "right" /\ i = 0 /\ AloneRight(k)
    BY <1>6
  <2> QED
    BY <1>8, <2>1, <2>2, <2>3 DEF IsRow
<1> QED
  BY <1>9, <1>10

\* A turn goes on, returns a row of the answer that has not been returned, ends
\* with all of them, or fails where a child does.
Fresh(row) == row \in Answered /\ row \notin delivered /\ delivered' = delivered \union {row}

Progress ==
  \/ pc' = "loop" /\ answers' = answers
  \/ pc' = "ready" /\ returned' = returned + 1 /\ \E row : Fresh(row)
  \/ pc' = "eof" /\ delivered = Answered /\ answers' = answers
  \/ pc' = "failed" /\ AskedByKeys.risky /\ answers' = answers

-----------------------------------------------------------------------------
(* The hash join                                                             *)

Elements(q) == {q[n] : n \in DOMAIN q}
Distinct(q) == \A m, n \in DOMAIN q : q[m] = q[n] => m = n

LEMMA QueueFacts ==
  ASSUME NEW S, NEW q \in Seq(S), q # <<>>, Distinct(q)
  PROVE  /\ Head(q) \in S /\ Tail(q) \in Seq(S) /\ Distinct(Tail(q))
         /\ Elements(q) = Elements(Tail(q)) \union {Head(q)}
         /\ Head(q) \notin Elements(Tail(q))
<1>1. /\ Len(q) \in Nat \ {0} /\ DOMAIN q = 1 .. Len(q)
      /\ Head(q) = q[1] /\ Head(q) \in S
      /\ Tail(q) \in Seq(S) /\ DOMAIN Tail(q) = 1 .. Len(q) - 1
      /\ \A n \in 1 .. Len(q) - 1 : Tail(q)[n] = q[n + 1]
  BY HeadTailProperties, LenProperties, EmptySeq
<1>2. Distinct(Tail(q))
  BY <1>1 DEF Distinct
<1>3. Elements(q) \subseteq Elements(Tail(q)) \union {Head(q)}
  <2> SUFFICES ASSUME NEW n \in DOMAIN q, n # 1 PROVE q[n] \in Elements(Tail(q))
    BY <1>1 DEF Elements
  <2>1. n - 1 \in DOMAIN Tail(q) /\ Tail(q)[n - 1] = q[n]
    BY <1>1
  <2> QED
    BY <2>1 DEF Elements
<1>4. Elements(Tail(q)) \union {Head(q)} \subseteq Elements(q)
  BY <1>1 DEF Elements
<1>5. Head(q) \notin Elements(Tail(q))
  BY <1>1 DEF Distinct, Elements
<1> QED
  BY <1>1, <1>2, <1>3, <1>4, <1>5

LEMMA AppendFacts ==
  ASSUME NEW S, NEW q \in Seq(S), NEW x \in S, Distinct(q), x \notin Elements(q)
  PROVE  /\ Append(q, x) \in Seq(S) /\ Distinct(Append(q, x))
         /\ Elements(Append(q, x)) = Elements(q) \union {x}
<1>1. /\ Append(q, x) \in Seq(S) /\ DOMAIN q = 1 .. Len(q) /\ Len(q) \in Nat
      /\ DOMAIN Append(q, x) = 1 .. Len(q) + 1
      /\ \A n \in 1 .. Len(q) : Append(q, x)[n] = q[n]
      /\ Append(q, x)[Len(q) + 1] = x
  BY AppendProperties, LenProperties
<1>2. Distinct(Append(q, x))
  BY <1>1 DEF Distinct, Elements
<1>3. Elements(Append(q, x)) \subseteq Elements(q) \union {x}
  BY <1>1 DEF Elements
<1>4. Elements(q) \union {x} \subseteq Elements(Append(q, x))
  BY <1>1 DEF Elements
<1> QED
  BY <1>1, <1>2, <1>3, <1>4

\* The key of a row is NULL, or what its value looks like, or cannot be made.
LEMMA HashKeys ==
  ASSUME join \in Joins, algorithm = "hash"
  PROVE  /\ \A i \in LeftSide :
              \/ H!LeftKey(i) \in {H!NullKey, H!BadKey}
              \/ \E key \in H!Key : H!LeftKey(i) = H!UseKey(key)
         /\ \A k \in RightSide :
              \/ H!RightKey(k) \in {H!NullKey, H!BadKey}
              \/ \E key \in H!Key : H!RightKey(k) = H!UseKey(key)
         /\ \A i \in LeftSide, k \in RightSide :
              /\ H!LeftKey(i) \in {H!NullKey, H!BadKey} => ~Joined(i, k)
              /\ \A key : H!LeftKey(i) = H!UseKey(key) => (Joined(i, k) <=> H!RightKey(k) = H!LeftKey(i))
<1>1. ASSUME NEW row, NEW side \in {"left", "right"},
             SideValue(row, side) \in Keys \union {Null, "unfound"}
      PROVE  \/ H!JoinKey(row, side) \in {H!NullKey, H!BadKey}
             \/ \E key \in H!Key : H!JoinKey(row, side) = H!UseKey(key)
  <2>1. H!SideValue(row, side) = SideValue(row, side)
    BY DEF H!SideValue, H!ByEquality, H!EqualityValue, H!WholeValue, H!Tries, H!Has, H!Compared,
           H!Unfound, SideValue, ByEquality, EqualityValue, WholeValue, Tries, Has, Compared, Unfound
  <2> DEFINE v == SideValue(row, side)
  <2>2. v \in Value \union {"cross", "true", "false", Null, "unfound"}
    BY <1>1 DEF Keys
  <2> HIDE DEF v
  <2>3. v # "unfound" => H!Display(v) \in H!Key
    BY <2>2, TextsApart DEF H!Display, H!Key
  <2>4. H!JoinKey(row, side) \in {H!NullKey, H!BadKey, H!UseKey(H!Display(v))}
    BY <2>1 DEF H!JoinKey, v
  <2>5. v = "unfound" => H!JoinKey(row, side) = H!BadKey
    BY <2>1 DEF H!JoinKey, H!Unfound, v
  <2> QED
    BY <2>3, <2>4, <2>5
<1>2. H!NullKey.kind # "key" /\ H!BadKey.kind # "key" /\ \A key : H!UseKey(key).kind = "key"
  BY DEF H!NullKey, H!BadKey, H!UseKey
<1>3. \A i, k : Joined(i, k) <=> H!LeftKey(i).kind = "key" /\ H!LeftKey(i) = H!RightKey(k)
  BY DEF Joined
<1>4. /\ \A i \in LeftSide : LeftValue(i) \in Keys \union {Null, "unfound"}
      /\ \A k \in RightSide : RightValue(k) \in Keys \union {Null, "unfound"}
  BY SideValues
<1> QED
  BY <1>1, <1>2, <1>3, <1>4 DEF H!LeftKey, H!RightKey, LeftValue, RightValue

\* The table holds each right row that has been read and has a key, once, under
\* that key.
TableHolds ==
  /\ built \in 0 .. Len(join.right)
  /\ hashTable \in [H!Key -> Seq(RightSide)]
  /\ \A key \in H!Key :
       /\ Distinct(hashTable[key])
       /\ Elements(hashTable[key]) = {k \in 1 .. built : H!RightKey(k) = H!UseKey(key)}

\* The queue holds matches of the current left row, once each; all else there is to
\* return of the left rows up to it has been returned.
ProbeHolds ==
  /\ built = Len(join.right)
  /\ currentLeft \in 0 .. Len(join.left)
  /\ probeQueue \in Seq(RightSide) /\ Distinct(probeQueue)
  /\ \A k \in Elements(probeQueue) : currentLeft \in LeftSide /\ Joined(currentLeft, k)
  /\ delivered = {r \in Answered : r[1] <= currentLeft
                                   /\ (r[1] = currentLeft => r[2] \notin Elements(probeQueue))}

HashInv ==
  /\ pc = "new" => built = 0 /\ hashTable = [key \in H!Key |-> <<>>]
  /\ pc \in {"new", "build"} => currentLeft = 0 /\ probeQueue = <<>> /\ delivered = {}
  /\ pc \in {"build", "ready", "loop"} => TableHolds
  /\ pc \in {"ready", "loop"} => ProbeHolds

hashPart == <<algorithm, join, built, hashTable, currentLeft, probeQueue, delivered>>

LEMMA SameKeys ==
  join' = join => /\ \A i : H!LeftKey(i)' = H!LeftKey(i) /\ M!LeftKey(i)' = M!LeftKey(i)
                  /\ \A k : H!RightKey(k)' = H!RightKey(k) /\ M!RightKey(k)' = M!RightKey(k)
<1> SUFFICES ASSUME join' = join
             PROVE  /\ \A i : H!LeftKey(i)' = H!LeftKey(i) /\ M!LeftKey(i)' = M!LeftKey(i)
                    /\ \A k : H!RightKey(k)' = H!RightKey(k) /\ M!RightKey(k)' = M!RightKey(k)
  OBVIOUS
<1>1. /\ \A i : H!LeftKey(i)' = H!LeftKey(i)
      /\ \A k : H!RightKey(k)' = H!RightKey(k)
  BY DEF H!LeftKey, H!RightKey, H!JoinKey, H!SideValue, H!ByEquality, H!EqualityValue,
         H!WholeValue, H!Tries, H!Compared, H!Has
<1>2. /\ \A i : M!LeftKey(i)' = M!LeftKey(i)
      /\ \A k : M!RightKey(k)' = M!RightKey(k)
  BY DEF M!LeftKey, M!RightKey, M!TypedKey, M!SideValue, M!ByEquality, M!EqualityValue,
         M!WholeValue, M!Tries, M!Compared, M!Has
<1> QED
  BY <1>1, <1>2

LEMMA SameSides ==
  UNCHANGED <<algorithm, join>> =>
    /\ LeftSide' = LeftSide /\ RightSide' = RightSide
    /\ \A i, k : Joined(i, k)' <=> Joined(i, k)
    /\ AskedByKeys' = AskedByKeys
    /\ Answered' = Answered
<1> SUFFICES ASSUME algorithm' = algorithm, join' = join
             PROVE  /\ LeftSide' = LeftSide /\ RightSide' = RightSide
                    /\ \A i, k : Joined(i, k)' <=> Joined(i, k)
                    /\ AskedByKeys' = AskedByKeys
                    /\ Answered' = Answered
  OBVIOUS
<1>1. RightSide' = RightSide /\ LeftSide' = LeftSide
  BY DEF RightSide, LeftSide
<1>2. \A i, k : Joined(i, k)' <=> Joined(i, k)
  BY SameKeys DEF Joined, M!KeysEqual
<1>3. KeyMissing' <=> KeyMissing
  BY <1>1, SameKeys DEF KeyMissing
<1>4. Asked.risky' <=> Asked.risky
  BY DEF Asked
<1>5. AskedByKeys' = AskedByKeys
  <2>1. {p \in Pairs : Joined(p[1], p[2])}' = {p \in Pairs : Joined(p[1], p[2])}
    BY <1>1, <1>2 DEF Pairs
  <2> QED
    BY <1>3, <1>4, <2>1 DEF AskedByKeys
<1>6. Answered' = Answered
  BY <1>5 DEF Answered, Keyed!Answer, Keyed!LeftAlone, Keyed!RightAlone, Keyed!LeftRows,
         Keyed!RightRows, Keyed!KeepsLeft, Keyed!KeepsRight, Keyed!Rows
<1> QED
  BY <1>1, <1>2, <1>5, <1>6

LEMMA SameHash == UNCHANGED hashPart => (TableHolds' <=> TableHolds) /\ (ProbeHolds' <=> ProbeHolds)
<1> SUFFICES ASSUME UNCHANGED hashPart
             PROVE  (TableHolds' <=> TableHolds) /\ (ProbeHolds' <=> ProbeHolds)
  OBVIOUS
<1>1. /\ algorithm' = algorithm /\ join' = join /\ built' = built /\ hashTable' = hashTable
      /\ currentLeft' = currentLeft /\ probeQueue' = probeQueue /\ delivered' = delivered
  BY DEF hashPart
<1>2. TableHolds' <=> TableHolds
  BY <1>1, SameSides, SameKeys DEF TableHolds
<1>3. ProbeHolds' <=> ProbeHolds
  BY <1>1, SameSides DEF ProbeHolds
<1> QED
  BY <1>2, <1>3

-----------------------------------------------------------------------------
(* Building the table                                                        *)

LEMMA EmptyTable ==
  ASSUME join \in Joins, built = 0, hashTable = [key \in H!Key |-> <<>>]
  PROVE  TableHolds
<1>1. \A key \in H!Key : hashTable[key] = <<>>
  OBVIOUS
<1>2. hashTable \in [H!Key -> Seq(RightSide)]
  BY <1>1, EmptySeq
<1>3. Distinct(<<>>) /\ Elements(<<>>) = {}
  BY EmptySeq DEF Distinct, Elements
<1>4. \A key \in H!Key : {k \in 1 .. built : H!RightKey(k) = H!UseKey(key)} = {}
  OBVIOUS
<1> QED
  BY <1>1, <1>2, <1>3, <1>4, JoinFacts DEF TableHolds

LEMMA BuildRowStep ==
  ASSUME join \in Joins, algorithm = "hash", UNCHANGED algorithm, TableHolds, H!BuildRow
  PROVE  \/ TableHolds' /\ pc' = "build"
         \/ pc' = "refused" /\ KeyMissing
<1> DEFINE k == built + 1
           key == H!RightKey(k)
<1>1. /\ built < Len(join.right) /\ built' = k /\ pc = "build" /\ UNCHANGED join
      /\ \/ key = H!BadKey /\ pc' = "refused"
         \/ key = H!NullKey /\ UNCHANGED <<pc, hashTable>>
         \/ /\ key.kind = "key" /\ UNCHANGED pc
            /\ hashTable' = [hashTable EXCEPT ![key.key] = Append(@, k)]
  BY DEF H!BuildRow
<1>2. k \in RightSide /\ built \in Nat /\ built + 1 \in 0 .. Len(join.right)
  BY <1>1, JoinFacts DEF TableHolds, RightSide
<1>3. \A n : H!RightKey(n)' = H!RightKey(n)
  BY <1>1, SameKeys
<1>4. RightSide' = RightSide
  BY <1>1, SameSides
<1>5. 1 .. k = 1 .. built \union {k} /\ k \notin 1 .. built
  BY <1>2
<1> HIDE DEF k
<1>6. CASE key = H!NullKey
  <2>1. hashTable' = hashTable /\ pc' = "build"
    BY <1>1, <1>6 DEF H!NullKey, H!BadKey
  <2>2. \A x : H!NullKey # H!UseKey(x)
    BY DEF H!NullKey, H!UseKey
  <2>3. \A x \in H!Key : {n \in 1 .. k : H!RightKey(n) = H!UseKey(x)}
                           = {n \in 1 .. built : H!RightKey(n) = H!UseKey(x)}
    BY <1>5, <1>6, <2>2
  <2>4. TableHolds'
    BY <1>1, <1>2, <1>3, <1>4, <2>1, <2>3 DEF TableHolds, k
  <2> QED
    BY <2>1, <2>4
<1>7. ASSUME NEW x \in H!Key, key = H!UseKey(x)
      PROVE  TableHolds' /\ pc' = "build"
  <2>1. pc' = "build" /\ hashTable' = [hashTable EXCEPT ![x] = Append(@, k)]
    BY <1>1, <1>7 DEF H!UseKey, H!NullKey, H!BadKey
  <2>2. \A y : H!UseKey(x) = H!UseKey(y) => x = y
    BY DEF H!UseKey
  <2>3. \A y \in H!Key \ {x} :
          /\ hashTable'[y] = hashTable[y]
          /\ {n \in 1 .. k : H!RightKey(n) = H!UseKey(y)}
               = {n \in 1 .. built : H!RightKey(n) = H!UseKey(y)}
    BY <1>5, <1>7, <2>1, <2>2 DEF TableHolds
  <2>4. {n \in 1 .. k : H!RightKey(n) = H!UseKey(x)}
          = {n \in 1 .. built : H!RightKey(n) = H!UseKey(x)} \union {k}
    BY <1>5, <1>7
  <2>5. /\ hashTable[x] \in Seq(RightSide) /\ Distinct(hashTable[x])
        /\ k \notin Elements(hashTable[x]) /\ hashTable'[x] = Append(hashTable[x], k)
    BY <1>5, <2>1 DEF TableHolds
  <2>6. /\ hashTable'[x] \in Seq(RightSide) /\ Distinct(hashTable'[x])
        /\ Elements(hashTable'[x]) = Elements(hashTable[x]) \union {k}
    BY <1>2, <2>5, AppendFacts
  <2>7. Elements(hashTable'[x]) = {n \in 1 .. k : H!RightKey(n) = H!UseKey(x)}
    BY <2>4, <2>6 DEF TableHolds
  <2>8. hashTable' \in [H!Key -> Seq(RightSide)]
    BY <2>1, <2>6 DEF TableHolds
  <2>9. \A y \in H!Key :
          /\ Distinct(hashTable'[y])
          /\ Elements(hashTable'[y]) = {n \in 1 .. k : H!RightKey(n) = H!UseKey(y)}
    BY <2>3, <2>6, <2>7 DEF TableHolds
  <2>10. TableHolds'
    <3>1. built' = k /\ k \in 0 .. Len(join'.right)
      BY <1>1, <1>2 DEF k
    <3> QED
      BY <1>3, <1>4, <2>8, <2>9, <3>1 DEF TableHolds
  <2> QED
    BY <2>1, <2>10
<1>8. CASE key = H!BadKey
  <2>1. pc' = "refused"
    BY <1>1, <1>8 DEF H!NullKey, H!BadKey
  <2> QED
    BY <1>2, <1>8, <2>1 DEF KeyMissing
<1> QED
  BY <1>2, <1>6, <1>7, <1>8, HashKeys

-----------------------------------------------------------------------------
(* Probing it                                                                *)

LEMMA NothingProbed ==
  ASSUME join \in Joins, currentLeft = 0, probeQueue = <<>>, delivered = {},
         built = Len(join.right), join.type \in {"inner", "left"}
  PROVE  ProbeHolds
<1>1. Distinct(<<>>) /\ Elements(<<>>) = {}
  BY EmptySeq DEF Distinct, Elements
<1>2. \A r \in Answered : r[1] \in LeftSide
  <2> SUFFICES ASSUME NEW i \in Nat, NEW k \in Nat, <<i, k>> \in Answered PROVE i \in LeftSide
    BY AnsweredRows
  <2> QED
    BY AnsweredRows DEF IsRow, AloneLeft
<1>3. \A r \in Answered : ~(r[1] <= 0)
  BY <1>2, JoinFacts DEF LeftSide
<1>4. 0 \in 0 .. Len(join.left) /\ <<>> \in Seq(RightSide)
  BY JoinFacts, EmptySeq
<1> QED
  BY <1>1, <1>3, <1>4 DEF ProbeHolds

\* What there is to return of the next left row: the pairs with its matches, or the
\* row alone.
LEMMA NextLeftRow ==
  ASSUME join \in Joins, join.type \in {"inner", "left"}, NEW i \in LeftSide
  PROVE  \A r \in Answered :
           /\ r = <<r[1], r[2]>> /\ r[1] \in LeftSide /\ r[2] \in Nat
           /\ r[1] = i =>
                \/ r[2] \in RightSide /\ Joined(i, r[2])
                \/ join.type = "left" /\ r[2] = 0 /\ AloneLeft(i)
<1> SUFFICES ASSUME NEW x \in Nat, NEW k \in Nat, <<x, k>> \in Answered
             PROVE  /\ x \in LeftSide
                    /\ x = i => \/ k \in RightSide /\ Joined(i, k)
                                \/ join.type = "left" /\ k = 0 /\ AloneLeft(i)
  BY AnsweredRows
<1> QED
  BY AnsweredRows DEF IsRow, AloneLeft

LEMMA EmitQueuedStep ==
  ASSUME join \in Joins, join.type \in {"inner", "left"}, ProbeHolds,
         H!EmitQueued, UNCHANGED <<algorithm, join, built, hashTable>>
  PROVE  ProbeHolds' /\ pc' = "ready" /\ Progress
<1> DEFINE k == Head(probeQueue)
           row == <<currentLeft, k>>
<1>1. /\ probeQueue # <<>> /\ probeQueue' = Tail(probeQueue) /\ currentLeft' = currentLeft
      /\ delivered' = delivered \union {row} /\ returned' = returned + 1 /\ pc' = "ready"
  BY DEF H!EmitQueued, H!Return
<1>2. /\ k \in RightSide /\ Tail(probeQueue) \in Seq(RightSide) /\ Distinct(Tail(probeQueue))
      /\ Elements(probeQueue) = Elements(Tail(probeQueue)) \union {k}
      /\ k \notin Elements(Tail(probeQueue))
  BY <1>1, QueueFacts DEF ProbeHolds
<1>3. currentLeft \in LeftSide /\ Joined(currentLeft, k)
  BY <1>2 DEF ProbeHolds
<1>4. row \in Answered
  BY <1>2, <1>3, AnsweredRows, SidesAreNat DEF IsRow
<1>5. row \notin delivered
  BY <1>2 DEF ProbeHolds
<1>6. Fresh(row)
  BY <1>1, <1>4, <1>5 DEF Fresh
<1> DEFINE Done(queue) == {r \in Answered : r[1] <= currentLeft
                                            /\ (r[1] = currentLeft => r[2] \notin Elements(queue))}
<1>7. Done(Tail(probeQueue)) = Done(probeQueue) \union {row}
  <2>1. \A r \in Answered : r = <<r[1], r[2]>> /\ r[1] \in Nat
    BY AnsweredRows
  <2>2. row[1] <= currentLeft
    BY JoinFacts DEF ProbeHolds
  <2> QED
    BY <1>2, <1>4, <2>1, <2>2
<1>8. ProbeHolds'
  <2>1. delivered' = Done(Tail(probeQueue))
    BY <1>1, <1>7 DEF ProbeHolds
  <2> HIDE DEF k, row
  <2>2. /\ built' = Len(join'.right) /\ currentLeft' \in 0 .. Len(join'.left)
        /\ probeQueue' \in Seq(RightSide) /\ Distinct(probeQueue')
        /\ \A x \in Elements(probeQueue') : currentLeft' \in LeftSide /\ Joined(currentLeft, x)
    BY <1>1, <1>2 DEF ProbeHolds
  <2> QED
    BY <1>1, <2>1, <2>2, SameSides DEF ProbeHolds
<1> QED
  BY <1>1, <1>6, <1>8 DEF Progress

LEMMA LeftEndsStep ==
  ASSUME join \in Joins, join.type \in {"inner", "left"}, ProbeHolds, H!LeftEnds
  PROVE  pc' \in {"eof", "failed"} /\ Progress
<1>1. /\ probeQueue = <<>> /\ currentLeft = Len(join.left) /\ answers' = answers
      /\ pc' = IF join.leftFault = "next" THEN "failed" ELSE "eof"
  BY DEF H!LeftEnds, H!Leave, H!answers, answers
<1>2. Elements(<<>>) = {}
  BY EmptySeq DEF Elements
<1>3. \A r \in Answered : r[1] \in LeftSide
  <2> SUFFICES ASSUME NEW i \in Nat, NEW k \in Nat, <<i, k>> \in Answered PROVE i \in LeftSide
    BY AnsweredRows
  <2> QED
    BY AnsweredRows DEF IsRow, AloneLeft
<1>4. \A r \in Answered : r[1] <= currentLeft
  BY <1>1, <1>3, JoinFacts DEF LeftSide
<1>5. delivered = Answered
  BY <1>1, <1>2, <1>4 DEF ProbeHolds
<1>6. join.leftFault = "next" => AskedByKeys.risky
  BY DEF AskedByKeys, Asked
<1> QED
  BY <1>1, <1>5, <1>6 DEF Progress

\* The next left row is returned with the first of its matches, the others queue.
LEMMA MatchStep ==
  ASSUME join \in Joins, join.type \in {"inner", "left"}, ProbeHolds, probeQueue = <<>>,
         NEW i \in LeftSide, i = currentLeft + 1,
         NEW q \in Seq(RightSide), Distinct(q), q # <<>>,
         Elements(q) = {k \in RightSide : Joined(i, k)},
         delivered' = delivered \union {<<i, Head(q)>>}, returned' = returned + 1,
         pc' = "ready", currentLeft' = i, probeQueue' = Tail(q),
         UNCHANGED <<algorithm, join, built>>
  PROVE  ProbeHolds' /\ Progress
<1> DEFINE k == Head(q)
           row == <<i, k>>
<1>1. /\ k \in RightSide /\ Tail(q) \in Seq(RightSide) /\ Distinct(Tail(q))
      /\ Elements(q) = Elements(Tail(q)) \union {k} /\ k \notin Elements(Tail(q))
  BY QueueFacts
<1>2. Joined(i, k) /\ i \in Nat /\ currentLeft \in Nat /\ i \in 0 .. Len(join.left)
  BY <1>1, JoinFacts DEF LeftSide, ProbeHolds
<1>3. row \in Answered
  BY <1>1, <1>2, AnsweredRows, SidesAreNat DEF IsRow
<1>4. Elements(<<>>) = {}
  BY EmptySeq DEF Elements
<1>5. delivered = {r \in Answered : r[1] <= currentLeft}
  BY <1>4 DEF ProbeHolds
<1>6. Fresh(row)
  BY <1>2, <1>3, <1>5 DEF Fresh
<1>7. {r \in Answered : r[1] <= i /\ (r[1] = i => r[2] \notin Elements(Tail(q)))}
        = {r \in Answered : r[1] <= currentLeft} \union {row}
  <2>1. \A r \in Answered :
          /\ r = <<r[1], r[2]>> /\ r[1] \in Nat
          /\ r[1] <= i <=> r[1] <= currentLeft \/ r[1] = i
          /\ r[1] = i => ~(r[1] <= currentLeft)
    BY <1>2, AnsweredRows
  <2>2. \A r \in Answered : r[1] = i => r[2] \in Elements(q)
    <3>1. ~AloneLeft(i)
      BY <1>1, <1>2 DEF AloneLeft
    <3> QED
      BY <3>1, NextLeftRow
  <2> HIDE DEF k
  <2>3. \A r \in Answered : r[1] = i => (r[2] \notin Elements(Tail(q)) <=> r = row)
    BY <1>1, <2>1, <2>2
  <2>4. row[1] = i
    OBVIOUS
  <2> HIDE DEF row
  <2> QED
    BY <1>3, <2>1, <2>3, <2>4
<1>8. ProbeHolds'
  <2> HIDE DEF k, row
  <2>1. \A x \in Elements(Tail(q)) : Joined(i, x)
    BY <1>1
  <2> QED
    BY <1>1, <1>2, <1>5, <1>7, <2>1, SameSides DEF ProbeHolds, row, k
<1> QED
  BY <1>6, <1>8 DEF Progress

\* The next left row has no match: it is returned alone, or passed over.
LEMMA AloneStep ==
  ASSUME join \in Joins, join.type \in {"inner", "left"}, ProbeHolds, probeQueue = <<>>,
         NEW i \in LeftSide, i = currentLeft + 1, AloneLeft(i), H!Alone(i),
         currentLeft' = i, probeQueue' = probeQueue, UNCHANGED <<algorithm, join, built>>
  PROVE  ProbeHolds' /\ Progress /\ pc' \in {"loop", "ready"}
<1>1. i \in Nat /\ currentLeft \in Nat /\ i \in 0 .. Len(join.left)
  BY JoinFacts DEF LeftSide, ProbeHolds
<1>2. Elements(<<>>) = {}
  BY EmptySeq DEF Elements
<1>3. delivered = {r \in Answered : r[1] <= currentLeft}
  BY <1>2 DEF ProbeHolds
<1>4. \A r \in Answered :
          /\ r = <<r[1], r[2]>> /\ r[1] \in Nat
          /\ r[1] <= i <=> r[1] <= currentLeft \/ r[1] = i
          /\ r[1] = i => join.type = "left" /\ r = <<i, 0>> /\ ~(r[1] <= currentLeft)
  <2>1. \A r \in Answered : r[1] = i => join.type = "left" /\ r[2] = 0
    BY NextLeftRow DEF AloneLeft
  <2> QED
    BY <1>1, <2>1, AnsweredRows
<1>5. CASE join.type = "left"
  <2>1. /\ delivered' = delivered \union {<<i, 0>>} /\ returned' = returned + 1 /\ pc' = "ready"
    BY <1>5 DEF H!Alone, H!Return
  <2>2. <<i, 0>> \in Answered
    BY <1>1, <1>5, AnsweredRows DEF IsRow
  <2>3. Fresh(<<i, 0>>)
    BY <1>1, <1>3, <2>1, <2>2 DEF Fresh
  <2>4. delivered' = {r \in Answered : r[1] <= i}
    BY <1>3, <1>4, <2>1, <2>2
  <2>5. ProbeHolds'
    BY <1>1, <1>2, <2>4, SameSides DEF ProbeHolds
  <2> QED
    BY <2>1, <2>3, <2>5 DEF Progress
<1>6. CASE join.type = "inner"
  <2>1. answers' = answers /\ delivered' = delivered /\ pc' = "loop"
    BY <1>6 DEF H!Alone, H!Leave, H!answers, answers
  <2>2. delivered' = {r \in Answered : r[1] <= i}
    BY <1>3, <1>4, <1>6, <2>1
  <2>3. ProbeHolds'
    BY <1>1, <1>2, <2>2, SameSides DEF ProbeHolds
  <2> QED
    BY <2>1, <2>3 DEF Progress
<1> QED
  BY <1>5, <1>6

LEMMA ProbeStep ==
  ASSUME join \in Joins, algorithm = "hash", join.type \in {"inner", "left"}, TableHolds,
         ProbeHolds, H!Probe, UNCHANGED <<algorithm, join, built, hashTable>>
  PROVE  Progress /\ (pc' = "failed" \/ (pc' \in {"loop", "ready"} /\ ProbeHolds'))
<1> DEFINE i == currentLeft + 1
           key == H!LeftKey(i)
<1>1. /\ probeQueue = <<>> /\ currentLeft < Len(join.left) /\ currentLeft' = i
      /\ \/ key = H!BadKey /\ H!Leave("failed")
         \/ key = H!NullKey /\ H!Alone(i) /\ UNCHANGED probeQueue
         \/ key.kind = "key" /\ hashTable[key.key] = <<>> /\ H!Alone(i) /\ UNCHANGED probeQueue
         \/ /\ key.kind = "key" /\ hashTable[key.key] # <<>>
            /\ H!Return(<<i, Head(hashTable[key.key])>>)
            /\ probeQueue' = Tail(hashTable[key.key])
  BY DEF H!Probe
<1>2. i \in LeftSide
  BY <1>1, JoinFacts DEF LeftSide, ProbeHolds
<1> HIDE DEF i
<1>3. CASE key = H!NullKey
  <2>1. H!Alone(i) /\ UNCHANGED probeQueue
    BY <1>1, <1>3 DEF H!NullKey, H!BadKey
  <2>2. AloneLeft(i)
    BY <1>2, <1>3, HashKeys DEF AloneLeft
  <2> QED
    BY <1>1, <1>2, <2>1, <2>2, AloneStep DEF i
<1>4. ASSUME NEW x \in H!Key, key = H!UseKey(x)
      PROVE  Progress /\ pc' \in {"loop", "ready"} /\ ProbeHolds'
  <2>1. \/ hashTable[x] = <<>> /\ H!Alone(i) /\ UNCHANGED probeQueue
        \/ /\ hashTable[x] # <<>> /\ probeQueue' = Tail(hashTable[x])
           /\ H!Return(<<i, Head(hashTable[x])>>)
    BY <1>1, <1>4 DEF H!UseKey, H!NullKey, H!BadKey
  <2>2. /\ hashTable[x] \in Seq(RightSide) /\ Distinct(hashTable[x])
        /\ Elements(hashTable[x]) = {k \in RightSide : H!RightKey(k) = key}
    BY <1>4 DEF TableHolds, ProbeHolds, RightSide
  <2>3. Elements(hashTable[x]) = {k \in RightSide : Joined(i, k)}
    BY <1>2, <1>4, <2>2, HashKeys
  <2>4. CASE hashTable[x] = <<>>
    <3>1. Elements(<<>>) = {}
      BY EmptySeq DEF Elements
    <3>2. AloneLeft(i)
      BY <1>2, <2>3, <2>4, <3>1 DEF AloneLeft
    <3> QED
      BY <1>1, <1>2, <2>1, <2>4, <3>2, AloneStep DEF i
  <2>5. CASE hashTable[x] # <<>>
    <3>1. /\ probeQueue' = Tail(hashTable[x]) /\ returned' = returned + 1 /\ pc' = "ready"
          /\ delivered' = delivered \union {<<i, Head(hashTable[x])>>}
      BY <2>1, <2>5 DEF H!Return
    <3> QED
      BY <1>1, <1>2, <2>2, <2>3, <2>5, <3>1, MatchStep DEF i
  <2> QED
    BY <2>4, <2>5
<1>5. CASE key = H!BadKey
  <2>1. pc' = "failed" /\ answers' = answers
    BY <1>1, <1>5 DEF H!NullKey, H!BadKey, H!Leave, H!answers, answers
  <2>2. AskedByKeys.risky
    BY <1>2, <1>5 DEF AskedByKeys, KeyMissing
  <2> QED
    BY <2>1, <2>2 DEF Progress
<1> QED
  BY <1>2, <1>3, <1>4, <1>5, HashKeys

-----------------------------------------------------------------------------
(* Every step of the hash join is a step of the cursor, or none              *)

LEMMA CursorOpens ==
  ASSUME UNCHANGED <<algorithm, join>>, pc = "new", UNCHANGED answers,
         \/ pc' = "build"
         \/ pc' = "refused" /\ AskedByKeys.risky
  PROVE  [Keyed!Next]_(Keyed!vars)
<1>1. AskedByKeys' = AskedByKeys /\ delivered' = delivered /\ returned' = returned
  BY SameSides DEF answers
<1>2. CASE pc' = "build"
  BY <1>1, <1>2 DEF Keyed!vars, Busy
<1>3. CASE pc' = "refused" /\ AskedByKeys.risky
  <2>1. Keyed!Refuse
    BY <1>1, <1>3 DEF Keyed!Refuse, Busy
  <2> QED
    BY <2>1 DEF Keyed!Next
<1> QED
  BY <1>2, <1>3

LEMMA CursorBuilds ==
  ASSUME UNCHANGED <<algorithm, join>>, pc \in {"build", "load"}, UNCHANGED answers,
         \/ pc' \in {"build", "load", "ready"}
         \/ pc' = "refused" /\ AskedByKeys.risky
  PROVE  [Keyed!Next]_(Keyed!vars)
<1>1. AskedByKeys' = AskedByKeys /\ delivered' = delivered /\ returned' = returned
  BY SameSides DEF answers
<1>2. CASE pc' \in {"build", "load"}
  BY <1>1, <1>2 DEF Keyed!vars, Busy
<1>3. CASE pc' = "ready"
  <2>1. Keyed!Open
    BY <1>1, <1>3 DEF Keyed!Open, Busy
  <2> QED
    BY <2>1 DEF Keyed!Next
<1>4. CASE pc' = "refused" /\ AskedByKeys.risky
  <2>1. Keyed!Refuse
    BY <1>1, <1>4 DEF Keyed!Refuse, Busy
  <2> QED
    BY <2>1 DEF Keyed!Next
<1> QED
  BY <1>2, <1>3, <1>4

LEMMA CursorTurns ==
  ASSUME UNCHANGED <<algorithm, join>>, pc = "loop", Progress
  PROVE  [Keyed!Next]_(Keyed!vars)
<1>1. AskedByKeys' = AskedByKeys
  BY SameSides
<1>2. CASE pc' = "loop" /\ answers' = answers
  BY <1>1, <1>2 DEF Keyed!vars, answers
<1>3. CASE pc' = "ready" /\ returned' = returned + 1 /\ \E row : Fresh(row)
  <2>1. PICK row : Fresh(row)
    BY <1>3
  <2>2. Keyed!Return(row) /\ row \in Keyed!Answer(AskedByKeys)
    BY <1>1, <1>3, <2>1 DEF Keyed!Return, Fresh, Answered
  <2> QED
    BY <2>2 DEF Keyed!Next
<1>4. CASE pc' = "eof" /\ delivered = Answered /\ answers' = answers
  <2>1. Keyed!End
    BY <1>1, <1>4 DEF Keyed!End, Answered, answers, Busy
  <2> QED
    BY <2>1 DEF Keyed!Next
<1>5. CASE pc' = "failed" /\ AskedByKeys.risky /\ answers' = answers
  <2>1. Keyed!Fail
    BY <1>1, <1>5 DEF Keyed!Fail, answers, Busy
  <2> QED
    BY <2>1 DEF Keyed!Next
<1> QED
  BY <1>2, <1>3, <1>4, <1>5 DEF Progress

LEMMA CursorCalled ==
  ASSUME UNCHANGED <<algorithm, join>>, UNCHANGED answers,
         \/ pc = "ready" /\ pc' = "loop"
         \/ pc \in {"ready", "eof", "failed"} /\ pc' = "closed"
  PROVE  [Keyed!Next]_(Keyed!vars)
<1>1. AskedByKeys' = AskedByKeys /\ delivered' = delivered /\ returned' = returned
  BY SameSides DEF answers
<1>2. CASE pc = "ready" /\ pc' = "loop"
  BY <1>1, <1>2 DEF Keyed!vars
<1>3. CASE pc \in {"ready", "eof", "failed"} /\ pc' = "closed"
  <2>1. Keyed!Close
    BY <1>1, <1>3 DEF Keyed!Close, Busy
  <2> QED
    BY <2>1 DEF Keyed!Next
<1> QED
  BY <1>2, <1>3

LEMMA HashRefines ==
  ASSUME ReleaseInv, HashInv, HashStep
  PROVE  HashInv' /\ [Keyed!Next]_(Keyed!vars)
<1>1. /\ join \in Joins /\ H!Next /\ join.type \in {"inner", "left"}
      /\ algorithm = "hash" /\ algorithm' = algorithm
  BY GivenAssumption DEF ReleaseInv, Given, HashStep
<1>2. CASE H!Open
  <2>1. /\ pc = "new" /\ join' = join /\ UNCHANGED answers
        /\ UNCHANGED <<built, hashTable, currentLeft, probeQueue, delivered>>
    BY <1>2 DEF H!Open, H!OpenChildren, H!answers, answers
  <2>2. \/ pc' = "build"
        \/ pc' = "refused" /\ (join.leftFault # "none" \/ join.rightFault # "none")
    BY <1>2 DEF H!Open, H!OpenChildren, H!LeftRefuses, H!RightRefuses, H!StartBuild
  <2>3. pc' = "refused" => AskedByKeys.risky
    BY <2>2 DEF AskedByKeys, Asked
  <2>4. TableHolds /\ TableHolds'
    BY <1>1, <2>1, EmptyTable, SameHash DEF HashInv, hashPart
  <2>5. HashInv'
    BY <2>1, <2>2, <2>4 DEF HashInv
  <2> QED
    BY <1>1, <2>1, <2>2, <2>3, <2>5, CursorOpens
<1>3. CASE H!BuildRow
  <2>1. /\ pc = "build" /\ join' = join /\ UNCHANGED answers
        /\ UNCHANGED <<currentLeft, probeQueue, delivered>>
    BY <1>3 DEF H!BuildRow, H!answers, answers
  <2>2. \/ TableHolds' /\ pc' = "build"
        \/ pc' = "refused" /\ AskedByKeys.risky
    BY <1>1, <1>3, <2>1, BuildRowStep DEF HashInv, AskedByKeys
  <2>3. HashInv'
    BY <2>1, <2>2 DEF HashInv
  <2> QED
    BY <1>1, <2>1, <2>2, <2>3, CursorBuilds
<1>4. CASE H!BuildEnd
  <2>1. /\ pc = "build" /\ join' = join /\ UNCHANGED answers /\ built = Len(join.right)
        /\ UNCHANGED <<built, hashTable, currentLeft, probeQueue, delivered>>
        /\ pc' = "ready" \/ (pc' = "refused" /\ join.rightFault = "next")
    BY <1>4 DEF H!BuildEnd, H!answers, answers
  <2>2. pc' = "refused" => AskedByKeys.risky
    BY <2>1 DEF AskedByKeys, Asked
  <2>3. TableHolds' /\ ProbeHolds'
    BY <1>1, <2>1, NothingProbed, SameHash DEF HashInv, hashPart
  <2>4. HashInv'
    BY <2>1, <2>3 DEF HashInv
  <2> QED
    BY <1>1, <2>1, <2>2, <2>4, CursorBuilds
<1>5. CASE H!NextCall
  <2>1. /\ pc = "ready" /\ pc' = "loop" /\ join' = join /\ UNCHANGED <<answers, built, hashTable, currentLeft, probeQueue, delivered>>
    BY <1>5 DEF H!NextCall, H!Call, H!answers, answers
  <2>2. HashInv'
    BY <1>1, <2>1, SameHash DEF HashInv, hashPart
  <2> QED
    BY <1>1, <2>1, <2>2, CursorCalled
<1>6. CASE H!Turn
  <2>1. /\ pc = "loop" /\ UNCHANGED <<join, built, hashTable>> /\ TableHolds /\ ProbeHolds
        /\ H!EmitQueued \/ H!LeftEnds \/ H!Probe
    BY <1>6 DEF H!Turn, HashInv
  <2>2. TableHolds'
    BY <1>1, <2>1, SameSides, SameKeys DEF TableHolds
  <2>3. CASE H!LeftEnds
    <3>1. pc' \in {"eof", "failed"} /\ Progress
      BY <1>1, <2>1, <2>3, LeftEndsStep
    <3>2. HashInv'
      BY <3>1 DEF HashInv
    <3> QED
      BY <1>1, <2>1, <3>1, <3>2, CursorTurns
  <2>4. CASE H!EmitQueued \/ H!Probe
    <3>1. Progress /\ (pc' = "failed" \/ (pc' \in {"loop", "ready"} /\ ProbeHolds'))
      BY <1>1, <2>1, <2>4, EmitQueuedStep, ProbeStep
    <3>2. HashInv'
      BY <2>2, <3>1 DEF HashInv
    <3> QED
      BY <1>1, <2>1, <3>1, <3>2, CursorTurns
  <2> QED
    BY <2>1, <2>3, <2>4
<1>7. CASE H!Close
  <2>1. /\ pc \in {"ready", "eof", "failed"} /\ pc' = "closed" /\ join' = join /\ UNCHANGED answers
    BY <1>7 DEF H!Close, H!answers, answers
  <2>2. HashInv'
    BY <2>1 DEF HashInv
  <2> QED
    BY <1>1, <2>1, <2>2, CursorCalled
<1> QED
  BY <1>1, <1>2, <1>3, <1>4, <1>5, <1>6, <1>7 DEF H!Next
=============================================================================
