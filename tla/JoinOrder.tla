----------------------------- MODULE JoinOrder ------------------------------
(***************************************************************************)
(* optimizer/cost/join_order.go: a tree of inner joins is taken apart into *)
(* its relations and conditions and put together again, by dynamic         *)
(* programming over the sets of relations.  Which of the trees it may end  *)
(* with it takes is a matter of estimated costs (estimator.go, model.go),  *)
(* computed in floats; here any of them may turn out to be the cheapest.   *)
(***************************************************************************)
EXTENDS Rules

CONSTANT MaxJoinRelations   \* 10 in the code

ASSUME RelationsAssumption == MaxJoinRelations \in Nat \ {0}

IsInnerJoin(plan) == plan.kind = "join" /\ plan.type = "inner"

\* A join that is not inner is a relation of its own.
RECURSIVE Relations(_)
Relations(plan) ==
  IF IsInnerJoin(plan) THEN Relations(plan.left) \o Relations(plan.right) ELSE <<plan>>

RECURSIVE JoinConditions(_)
JoinConditions(plan) ==
  IF IsInnerJoin(plan)
  THEN JoinConditions(plan.left) \o JoinConditions(plan.right) \o plan.cond ELSE <<>>

\* Relations of other kinds, projections among them, have no alias.
RECURSIVE PlanAlias(_)
PlanAlias(plan) ==
  CASE plan.kind \in {"scan", "subquery"} -> plan.alias
    [] plan.kind = "filter" -> PlanAlias(plan.child)
    [] OTHER -> ""

\* exprTableRefs: it goes into operators only.
RECURSIVE ExprTableRefs(_)
ExprTableRefs(e) ==
  CASE e.kind = "column" -> {e.table, e.resolved} \ {""}
    [] e.kind = "binary" -> ExprTableRefs(e.left) \union ExprTableRefs(e.right)
    [] e.kind = "unary" -> ExprTableRefs(e.arg)
    [] OTHER -> {}

MaskAliases(mask, rels) == {PlanAlias(rels[i]) : i \in mask} \ {""}

\* Mutant: one side is enough.
CondConnectsEither(c, left, right, rels) ==
  ExprTableRefs(c) \intersect MaskAliases(left \union right, rels) # {}

CondConnects(c, left, right, rels) ==
  /\ ExprTableRefs(c) \intersect MaskAliases(left, rels) # {}
  /\ ExprTableRefs(c) \intersect MaskAliases(right, rels) # {}

\* The conditions put on the join of the relations left with those in right.
ConnectingConditions(left, right, rels, conds) ==
  SelectSeq(conds, LAMBDA c : CondConnects(c, left, right, rels))

\* The condition of a new join, none when no condition connects its sides.
JoinedOn(conds) == IF conds = <<>> THEN <<>> ELSE <<Conjunction(conds)>>

\* The plans that may stand in the memo for the relations in mask: those of two
\* parts that a condition connects, joined on every condition that does.  Parts
\* are joined without a condition only where the whole tree has none.
RECURSIVE MemoPlans(_, _, _)
MemoPlans(mask, rels, conds) ==
  LET splits == {left \in SUBSET mask : /\ left \notin {{}, mask}
                                        /\ \/ conds = <<>>
                                           \/ ConnectingConditions(left, mask \ left, rels, conds) # <<>>}
      JoinsOf(left) ==
        {Join("inner", l, r, JoinedOn(ConnectingConditions(left, mask \ left, rels, conds))) :
           l \in MemoPlans(left, rels, conds), r \in MemoPlans(mask \ left, rels, conds)}
  IN  IF Cardinality(mask) = 1 THEN {rels[CHOOSE i \in mask : TRUE]}
      ELSE UNION {JoinsOf(left) : left \in splits}

\* tryReorder; the empty set when it gives up.
TryReorder(plan) ==
  LET rels == Relations(plan)
  IN  IF Len(rels) \in 2 .. MaxJoinRelations
      THEN MemoPlans(DOMAIN rels, rels, JoinConditions(plan)) ELSE {}

\* The plans Optimize may return.  It does not go below a subquery, a DISTINCT, a
\* window or a set operation, nor below the relations of a tree it has reordered.
RECURSIVE Reordered(_)
Reordered(plan) ==
  CASE plan.kind = "join" ->
         IF TryReorder(plan) # {} THEN TryReorder(plan)
         ELSE {[plan EXCEPT !.left = l, !.right = r] : l \in Reordered(plan.left), r \in Reordered(plan.right)}
    [] plan.kind \in {"filter", "project", "aggregate", "sort", "limit"} ->
         {[plan EXCEPT !.child = c] : c \in Reordered(plan.child)}
    [] OTHER -> {plan}
=============================================================================
