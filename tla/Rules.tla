------------------------------- MODULE Rules --------------------------------
(***************************************************************************)
(* The four rewriting rules of internal/optimizer/rule.  Each takes a plan *)
(* to [plan, changed]: the plan it returns and whether it reports a        *)
(* change, which is not always whether there is one.                       *)
(***************************************************************************)
EXTENDS Plans

Same(plan) == [plan |-> plan, changed |-> FALSE]
Rewritten(plan) == [plan |-> plan, changed |-> TRUE]

\* rebuildNode: a node of a kind it does not know keeps its old children.
Rebuildable(plan) ==
  plan.kind \in {"filter", "project", "join", "aggregate", "sort", "limit", "subquery", "distinct"}
Rebuilt(plan, children) ==
  IF ~Rebuildable(plan) THEN plan
  ELSE IF plan.kind = "join" THEN [plan EXCEPT !.left = children[1], !.right = children[2]]
  ELSE [plan EXCEPT !.child = children[1]]

-----------------------------------------------------------------------------
(* ConstantFolding                                                           *)

Kept(e) == [expr |-> e, changed |-> FALSE]
Folded(e) == [expr |-> e, changed |-> TRUE]

IsLit(e) == e.kind = "literal"
IsBoolLit(e, b) == e = Lit(BoolValue(b))

\* Mutant: a comparison with NULL or of two types folds to FALSE.
ConstBinaryFalse(op, v, w) ==
  IF op \in Arithmetic THEN Binary(op, v, w)
  ELSE IF op \in Comparisons THEN BoolValue(Comparable(v, w) /\ Compares(op, v, w))
  ELSE Raised

\* evalConstBinary, Raised standing for its nil: an arithmetic error, a
\* comparison with NULL or of two types, and any other operator.
ConstBinary(op, v, w) ==
  IF op \in Arithmetic THEN Binary(op, v, w)
  ELSE IF op \in Comparisons /\ Comparable(v, w) THEN Comparison(op, v, w)
  ELSE Raised

\* A binary node whose operands l and r have been folded.
FoldBinary(e, l, r) ==
  LET unit == Lit(BoolValue(e.op = "AND"))   \* x AND TRUE, x OR FALSE
      zero == Lit(BoolValue(e.op = "OR"))    \* x AND FALSE, x OR TRUE
      both == {l.expr, r.expr}
      value == ConstBinary(e.op, l.expr.value, r.expr.value)
  IN  IF IsLit(l.expr) /\ IsLit(r.expr) /\ ~IsError(value) THEN Folded(Lit(value))
      ELSE IF e.op \in {"AND", "OR"} /\ l.expr = unit THEN Folded(r.expr)
      ELSE IF e.op \in {"AND", "OR"} /\ r.expr = unit THEN Folded(l.expr)
      ELSE IF e.op \in {"AND", "OR"} /\ zero \in both THEN Folded(zero)
      ELSE IF l.changed \/ r.changed THEN Folded(Bin(e.op, l.expr, r.expr))
      ELSE Kept(e)

FoldUnary(e, arg) ==
  IF e.op = "NOT" /\ arg.expr.kind = "unary" /\ arg.expr.op = "NOT" THEN Folded(arg.expr.arg)
  ELSE IF e.op = "NOT" /\ IsLit(arg.expr) /\ IsBool(arg.expr.value)
       THEN Folded(Lit(Not(arg.expr.value)))
  ELSE IF e.op = "-" /\ IsLit(arg.expr) /\ IsInt(arg.expr.value)
       THEN Folded(Lit(Minus(arg.expr.value)))
  ELSE IF arg.changed THEN Folded(Un(e.op, arg.expr))
  ELSE Kept(e)

\* A searched CASE: the first WHEN TRUE gives the result, wherever it stands.
FoldCase(e, conds, results, else) ==
  LET always == {k \in DOMAIN conds : IsBoolLit(conds[k].expr, TRUE)}
      Live(k) == ~IsBoolLit(conds[k].expr, FALSE)
      live == SelectSeq([k \in DOMAIN conds |-> k], Live)
      changed == \/ else.changed \/ Len(live) < Len(conds)
                 \/ \E k \in DOMAIN conds : conds[k].changed \/ results[k].changed
  IN  IF always # {} THEN Folded(results[First(always)].expr)
      ELSE IF live = <<>> THEN Folded(else.expr)
      ELSE IF changed
      THEN Folded(Case([k \in DOMAIN live |-> When(conds[live[k]].expr, results[live[k]].expr)],
                       else.expr))
      ELSE Kept(e)

RECURSIVE FoldExpr(_)
FoldExpr(e) ==
  CASE e.kind = "binary" -> FoldBinary(e, FoldExpr(e.left), FoldExpr(e.right))
    [] e.kind = "unary" -> FoldUnary(e, FoldExpr(e.arg))
    [] e.kind = "case" ->
         FoldCase(e, Listed([k \in DOMAIN e.whens |-> FoldExpr(e.whens[k].cond)]),
                  Listed([k \in DOMAIN e.whens |-> FoldExpr(e.whens[k].result)]), FoldExpr(e.else))
    [] OTHER -> Kept(e)

FoldNode(plan) ==
  IF plan.kind = "filter" /\ FoldExpr(plan.pred).changed
  THEN Rewritten([plan EXCEPT !.pred = FoldExpr(plan.pred).expr])
  ELSE IF plan.kind = "project" /\ \E k \in DOMAIN plan.items : FoldExpr(plan.items[k].expr).changed
  THEN Rewritten([plan EXCEPT !.items =
         [k \in DOMAIN plan.items |-> Item(FoldExpr(plan.items[k].expr).expr, plan.items[k].name)]])
  ELSE Same(plan)

-----------------------------------------------------------------------------
(* EliminateDeadFilter, and applyToTree that it shares with the folding.     *)

\* Mutant: a filter that is always true stays.
EliminateFalseOnly(plan) ==
  IF plan.kind = "filter" /\ IsBoolLit(plan.pred, FALSE)
  THEN Rewritten(EmptyRelation(Schema(plan)))
  ELSE Same(plan)

Eliminate(plan) ==
  IF plan.kind = "filter" /\ IsBoolLit(plan.pred, TRUE) THEN Rewritten(plan.child)
  ELSE IF plan.kind = "filter" /\ IsBoolLit(plan.pred, FALSE)
       THEN Rewritten(EmptyRelation(Schema(plan)))
  ELSE Same(plan)

Transform(rule, plan) ==
  IF rule = "ConstantFolding" THEN FoldNode(plan) ELSE Eliminate(plan)

RECURSIVE ApplyToTree(_, _)
ApplyToTree(rule, plan) ==
  LET kids == Listed([i \in DOMAIN Children(plan) |-> ApplyToTree(rule, Children(plan)[i])])
      below == \E i \in DOMAIN kids : kids[i].changed
      here == Transform(rule, IF below THEN Rebuilt(plan, [i \in DOMAIN kids |-> kids[i].plan])
                              ELSE plan)
  IN  [plan |-> here.plan, changed |-> below \/ here.changed]

-----------------------------------------------------------------------------
(* PredicatePushdown                                                         *)

RECURSIVE Conjuncts(_)
Conjuncts(e) ==
  IF e.kind = "binary" /\ e.op = "AND" THEN Conjuncts(e.left) \o Conjuncts(e.right) ELSE <<e>>

\* joinConjuncts of a list that is not empty.
Conjunction(preds) ==
  FoldLeft(LAMBDA all, p : Bin("AND", all, p), Head(preds), Tail(preds))

\* The kinds of expression that collectTables and collectFromExpr go into.
Walked == {"binary", "unary", "isnull", "between", "in", "call"}

\* collectTables: the tables that the analyzer has found for the columns.
RECURSIVE TablesOf(_)
TablesOf(e) ==
  IF e.kind = "column" THEN {e.resolved} \ {""}
  ELSE IF e.kind \in Walked THEN UNION {TablesOf(Parts(e)[k]) : k \in DOMAIN Parts(e)} ELSE {}

SchemaTables(schema) == {schema[i].table : i \in DOMAIN schema} \ {""}
CanSubsume(pred, tables) == TablesOf(pred) \subseteq tables

Wrap(plan, preds) ==
  IF preds = <<>> THEN Same(plan) ELSE Rewritten(Filter(plan, Conjunction(preds)))

\* Beside the plan and the report, Push tells whether the node it returns is a
\* new one, because the join above it compares the pointers.
Placed(result, fresh) == [plan |-> result.plan, changed |-> result.changed, fresh |-> fresh]

RECURSIVE Push(_, _)
RECURSIVE PushDown(_, _)

\* toLeft, toRight, remains: the predicates that go there.
PushJoined(plan, pending, toLeft, toRight, remains) ==
  LET left == Push(plan.left, toLeft)
      right == Push(plan.right, toRight)
      join == [plan EXCEPT !.left = left.plan, !.right = right.plan]
  IN  Placed([plan |-> Wrap(join, remains).plan, changed |-> left.fresh \/ right.fresh \/ pending # <<>>],
             TRUE)

PushJoin(plan, pending, leftTables, rightTables) ==
  LET ToLeft(p) == CanSubsume(p, leftTables)
      ToRight(p) == ~ToLeft(p) /\ CanSubsume(p, rightTables)
      Remains(p) == ~ToLeft(p) /\ ~ToRight(p)
  IN  PushJoined(plan, pending, SelectSeq(pending, ToLeft), SelectSeq(pending, ToRight),
                 SelectSeq(pending, Remains))

Push(plan, pending) ==
  CASE plan.kind = "filter" ->
         Placed(Push(plan.child, pending \o Conjuncts(plan.pred)), TRUE)
    [] plan.kind = "join" /\ plan.type = "inner" ->
         PushJoin(plan, pending, SchemaTables(Schema(plan.left)), SchemaTables(Schema(plan.right)))
    [] plan.kind = "join" /\ plan.type # "inner" ->
         LET below == PushDown(plan, <<>>)
         IN  Placed(Wrap(below.plan, pending), below.changed \/ pending # <<>>)
    [] plan.kind \in {"aggregate", "project"} ->
         LET below == Push(plan.child, <<>>)
             here == Wrap([plan EXCEPT !.child = below.plan], pending)
         IN  Placed([here EXCEPT !.changed = below.changed \/ @], TRUE)
    [] OTHER -> PushDown(plan, pending)

PushDown(plan, pending) ==
  LET kids == Listed([i \in DOMAIN Children(plan) |-> Push(Children(plan)[i], <<>>)])
      below == \E i \in DOMAIN kids : kids[i].changed
  IN  IF pending # <<>> THEN Placed(Wrap(plan, pending), TRUE)
      ELSE IF below THEN Placed(Rewritten(Rebuilt(plan, [i \in DOMAIN kids |-> kids[i].plan])),
                                Rebuildable(plan))
      ELSE Placed(Same(plan), FALSE)

-----------------------------------------------------------------------------
(* ProjectionPushdown                                                        *)

RECURSIVE NamesOf(_)

NamesOfColumn(e) ==
  {Name("", e.column)} \union IF e.resolved = "" THEN {} ELSE {Name(e.resolved, e.column)}

\* Mutant: the walk does not go into IS NULL.
NamesOfNoIsNull(e) ==
  IF e.kind = "column" THEN NamesOfColumn(e)
  ELSE IF e.kind \in Walked \ {"isnull"} THEN UNION {NamesOf(Parts(e)[k]) : k \in DOMAIN Parts(e)}
  ELSE {}

\* collectFromExpr: every column counts by its own name, too.
NamesOf(e) ==
  IF e.kind = "column" THEN NamesOfColumn(e)
  ELSE IF e.kind \in Walked THEN UNION {NamesOf(Parts(e)[k]) : k \in DOMAIN Parts(e)} ELSE {}

NamesOfAll(exprs) == UNION {NamesOf(exprs[k]) : k \in DOMAIN exprs}

\* walkForColumns: not the expressions of windows, nor those of LIMIT.
RECURSIVE Required(_)
Required(plan) ==
  LET below == UNION {Required(Children(plan)[i]) : i \in DOMAIN Children(plan)}
  IN  CASE plan.kind = "filter" -> below \union NamesOf(plan.pred)
        [] plan.kind = "project" -> below \union NamesOfAll([k \in DOMAIN plan.items |-> plan.items[k].expr])
        [] plan.kind = "join" -> below \union NamesOfAll(plan.cond)
        [] plan.kind = "aggregate" ->
             below \union NamesOfAll(plan.groupBy)
                   \union UNION {NamesOfAll(plan.aggs[k].arg) : k \in DOMAIN plan.aggs}
        [] plan.kind = "sort" -> below \union NamesOfAll([k \in DOMAIN plan.specs |-> plan.specs[k].expr])
        [] OTHER -> below

Needed(schema, required) ==
  LET Keep(name) == name \in required \/ Name("", name.column) \in required
  IN  SelectSeq(schema, Keep)

\* Mutant: a projection to all columns is one, too.
NarrowsToAll(schema, required) == Needed(schema, required) # <<>>

\* A projection to the needed columns, when they are some and not all.
Narrows(schema, required) == Len(Needed(schema, required)) \in 1 .. Len(schema) - 1

ProjectTo(plan, needed) ==
  Project(plan, [i \in DOMAIN needed |-> Item(Col(needed[i].table, needed[i].column), needed[i])])

Narrowed(schema, required, rewritten) ==
  IF Narrows(schema, required) THEN ProjectTo(rewritten, Needed(schema, required)) ELSE rewritten

RECURSIVE Prune(_, _)
PruneOver(plan, required, schemas, kids) ==
  LET below == \E i \in DOMAIN kids : kids[i].changed
      narrow == plan.kind = "join" /\ \E i \in DOMAIN kids : Narrows(schemas[i], required)
      New(i) == IF plan.kind = "join" THEN Narrowed(schemas[i], required, kids[i].plan)
                ELSE kids[i].plan
  IN  IF below \/ narrow THEN Rewritten(Rebuilt(plan, [i \in DOMAIN kids |-> New(i)]))
      ELSE Same(plan)

Prune(plan, required) ==
  LET children == Children(plan)
  IN  PruneOver(plan, required, Listed([i \in DOMAIN children |-> Schema(children[i])]),
                Listed([i \in DOMAIN children |-> Prune(children[i], required)]))

-----------------------------------------------------------------------------
\* DefaultRules, in their order.
DefaultRules == <<"PredicatePushdown", "ConstantFolding", "EliminateDeadFilter", "ProjectionPushdown">>

Apply(rule, plan) ==
  CASE rule = "PredicatePushdown" -> Push(plan, <<>>)
    [] rule \in {"ConstantFolding", "EliminateDeadFilter"} -> ApplyToTree(rule, plan)
    [] rule = "ProjectionPushdown" -> Prune(plan, Required(plan))
=============================================================================
