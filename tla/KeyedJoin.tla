----------------------------- MODULE KeyedJoin ------------------------------
(***************************************************************************)
(* What the joins on a key share (operators/hash_join.go and               *)
(* operators/sort_merge_join.go): the join, the value a row is joined by   *)
(* (joinKey, extractTypedKey, and the column look-up of                    *)
(* expression.go:213-258 under both), the call being served, and what the  *)
(* caller has got.                                                         *)
(*                                                                         *)
(* A condition compares two columns; a column is named by its table, here  *)
(* the side, and its own name.                                             *)
(***************************************************************************)
EXTENDS JoinInput, Sequences

CONSTANTS Value, Null,
          Text,                       \* the display string of each value
          Holds,                      \* the pairs of values an operator holds for
          LeftColumns, RightColumns,  \* the column names of each side
          NoCondition,
          Joins                       \* the joins looked at

Ref == [side : {"left"}, column : LeftColumns] \union [side : {"right"}, column : RightColumns]
Condition == [op : DOMAIN Holds, a : Ref, b : Ref]

Cell == Value \union {Null}

Unfound == "unfound"

Rows(columns) == Seq([columns -> Cell])

ASSUME HoldsAssumption ==
  /\ Null \notin Value
  /\ Cell \intersect {"true", "false", "cross", Unfound} = {}
  /\ {"=", "<"} \subseteq DOMAIN Holds
  /\ \A op \in DOMAIN Holds : Holds[op] \subseteq Value \X Value

ASSUME TextAssumption == DOMAIN Text = Value

ASSUME JoinsAssumption ==
  \A j \in Joins :
    /\ j.type \in {"inner", "left", "right"}
    /\ j.left \in Rows(LeftColumns) /\ j.right \in Rows(RightColumns)
    /\ j.condition \in Condition \union {NoCondition}
    /\ {j.leftFault, j.rightFault} \subseteq Fault

VARIABLES join, pc, delivered, returned

children == <<opened, closes>>
answers == <<delivered, returned>>

\* EvalExpr of a comparison of two values.
Compared(op, v, w) ==
  IF Null \in {v, w} THEN Null
  ELSE IF <<v, w>> \in Holds[op] THEN "true" ELSE "false"

-----------------------------------------------------------------------------
(* The value of a row: a column is looked up in the tuple of one side       *)
(* alone; where its table is not the tuple's, a column of the same name    *)
(* stands in for it.                                                       *)

Has(row, ref) == ref.column \in DOMAIN row

\* The sides of the equality in the order they are tried in for a side.
Tries(side) ==
  IF side = "left" THEN <<join.condition.a, join.condition.b>>
                   ELSE <<join.condition.b, join.condition.a>>

EqualityValue(row, side) ==
  LET first == Tries(side)[1]
      second == Tries(side)[2]
  IN CASE Has(row, first) -> row[first.column]
       [] ~Has(row, first) /\ Has(row, second) -> row[second.column]
       [] OTHER -> Unfound

WholeValue(row) ==
  LET c == join.condition
  IN IF Has(row, c.a) /\ Has(row, c.b)
     THEN Compared(c.op, row[c.a.column], row[c.b.column])
     ELSE Unfound

ByEquality == join.condition # NoCondition /\ join.condition.op = "="

SideValue(row, side) ==
  IF join.condition = NoCondition THEN "cross"
  ELSE IF ByEquality THEN EqualityValue(row, side)
  ELSE WholeValue(row)

-----------------------------------------------------------------------------
(* Open and the calls, as far as they are the same. *)

KeyedInit ==
  /\ NoneOpened
  /\ join \in Joins
  /\ pc = "new"
  /\ delivered = {} /\ returned = 0

LeftRefuses ==
  /\ join.leftFault = "open"
  /\ pc' = "refused"
  /\ UNCHANGED children

RightRefuses ==
  /\ join.leftFault # "open" /\ join.rightFault = "open"
  /\ opened' = {"left"} /\ closes' = Closed({"left"})
  /\ pc' = "refused"

StartBuild ==
  /\ join.leftFault # "open" /\ join.rightFault # "open"
  /\ opened' = Child /\ UNCHANGED closes
  /\ pc' = "build"

OpenChildren ==
  /\ pc = "new"
  /\ LeftRefuses \/ RightRefuses \/ StartBuild
  /\ UNCHANGED <<join, answers>>

Call ==
  /\ pc = "ready" /\ pc' = "loop"
  /\ UNCHANGED <<children, join, answers>>

Return(row) ==
  /\ delivered' = delivered \union {row}
  /\ returned' = returned + 1
  /\ pc' = "ready"

Leave(to) == pc' = to /\ UNCHANGED answers

-----------------------------------------------------------------------------
(* Properties *)

\* What the condition says of a pair of rows: each column is looked up in the
\* row of its own table.
CellOf(ref, i, k) == (IF ref.side = "left" THEN join.left[i] ELSE join.right[k])[ref.column]

Judgement(i, k) ==
  IF join.condition = NoCondition THEN "true"
  ELSE Compared(join.condition.op, CellOf(join.condition.a, i, k), CellOf(join.condition.b, i, k))

Asked ==
  [type |-> join.type, left |-> Len(join.left), right |-> Len(join.right),
   match |-> {p \in (1 .. Len(join.left)) \X (1 .. Len(join.right)) : Judgement(p[1], p[2]) = "true"},
   risky |-> join.leftFault # "none" \/ join.rightFault # "none"]

Busy == {"build", "load", "loop"}

Cursor == INSTANCE JoinCursor WITH
            join <- Asked,
            stage <- IF pc \in {"ready", "loop"} THEN "open"
                     ELSE IF pc \in Busy THEN "new" ELSE pc

\* operators/README.md:49,51: a hash join and a sort-merge join return the rows
\* of the join, each once, rows with NULL keys never joined.
IsJoinCursor == Cursor!Spec

\* operators/README.md:24: once the join is closed its children have been
\* closed exactly once.
ChildrenReleased == pc = "closed" => ReleasedOnce

\* hash_join.go:50,85 and sort_merge_join.go:209: every loop comes to an end.
LoopsEnd == pc \in Busy ~> pc \notin Busy
=============================================================================
