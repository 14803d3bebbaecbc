----------------------------- MODULE JoinCursor -----------------------------
(***************************************************************************)
(* What a join operator promises the operator above it: opened once, it    *)
(* returns each row of the join's answer exactly once, in whatever order,  *)
(* then EOF; it may fail only where a child or the condition may; and it   *)
(* can be closed at any time after a successful Open.                      *)
(*                                                                         *)
(* The rows of a side are known by their position, 1 .. n; the row <<i, j>>*)
(* of the answer joins row i of the left side with row j of the right one, *)
(* and position 0 stands for the row of NULLs an outer join pads with.     *)
(***************************************************************************)
EXTENDS Naturals

Type == {"inner", "left", "right", "cross", "full"}

KeepsLeft(type) == type \in {"left", "full"}
KeepsRight(type) == type \in {"right", "full"}

LeftRows(j) == 1 .. j.left
RightRows(j) == 1 .. j.right

\* The positions of one side that the condition holds with no row for.
LeftAlone(j) == {i \in LeftRows(j) : \A k \in RightRows(j) : <<i, k>> \notin j.match}
RightAlone(j) == {k \in RightRows(j) : \A i \in LeftRows(j) : <<i, k>> \notin j.match}

\* The rows that join the pairs of match, and the padded ones.
Rows(match, aloneLeft, aloneRight) ==
  match \union {<<i, 0>> : i \in aloneLeft} \union {<<0, k>> : k \in aloneRight}

Answer(j) ==
  Rows(j.match, {i \in LeftAlone(j) : KeepsLeft(j.type)},
                {k \in RightAlone(j) : KeepsRight(j.type)})

VARIABLES join,       \* the join: its type, sizes, the pairs its condition
                      \* holds for, and whether anything in it may fail
          stage,      \* where the caller is with it
          delivered,  \* the rows returned so far
          returned    \* and how many they were

vars == <<join, stage, delivered, returned>>

Init ==
  /\ join.type \in Type
  /\ join.left \in Nat
  /\ join.right \in Nat
  /\ join.match \subseteq LeftRows(join) \X RightRows(join)
  /\ join.risky \in BOOLEAN
  /\ stage = "new"
  /\ delivered = {}
  /\ returned = 0

Open ==
  /\ stage = "new"
  /\ stage' = "open"
  /\ UNCHANGED <<join, delivered, returned>>

Refuse ==
  /\ stage = "new" /\ join.risky
  /\ stage' = "refused"
  /\ UNCHANGED <<join, delivered, returned>>

Return(row) ==
  /\ stage = "open"
  /\ row \in Answer(join) \ delivered
  /\ delivered' = delivered \union {row}
  /\ returned' = returned + 1
  /\ UNCHANGED <<join, stage>>

End ==
  /\ stage = "open" /\ delivered = Answer(join)
  /\ stage' = "eof"
  /\ UNCHANGED <<join, delivered, returned>>

Fail ==
  /\ stage = "open" /\ join.risky
  /\ stage' = "failed"
  /\ UNCHANGED <<join, delivered, returned>>

Close ==
  /\ stage \in {"open", "eof", "failed"}
  /\ stage' = "closed"
  /\ UNCHANGED <<join, delivered, returned>>

Next ==
  \/ Open \/ Refuse \/ End \/ Fail \/ Close
  \/ \E row \in Answer(join) : Return(row)

Spec == Init /\ [][Next]_vars
=============================================================================
