--------------------------- MODULE LogicalBuilder ---------------------------
(***************************************************************************)
(* planner/logical/builder.go: the plan of an analyzed query, bottom up:   *)
(* FROM, joins, WHERE, GROUP BY and HAVING, windows, the SELECT list,      *)
(* DISTINCT, ORDER BY, LIMIT.  Above an aggregation or a window the        *)
(* expressions are rewritten: a call becomes a reference to the column it  *)
(* has been computed into, found by the text of the call.                  *)
(***************************************************************************)
EXTENDS Plans, Syntax

-----------------------------------------------------------------------------
(* NATURAL JOIN and USING                                                    *)

ShortNames(schema) == [i \in DOMAIN schema |-> schema[i].column]

\* The columns of the left side that the right side has, too.
CommonColumns(left, right) ==
  SelectSeq(ShortNames(left), LAMBDA name : name \in ToSet(ShortNames(right)))

FirstNamed(schema, name) == schema[First({i \in DOMAIN schema : schema[i].column = name})]

\* buildJoinConditionFromCols: a name that one side lacks is passed over, and
\* without any the join is a cross join.
UsingCondition(names, left, right) ==
  LET both == ToSet(ShortNames(left)) \intersect ToSet(ShortNames(right))
      found == SelectSeq(names, LAMBDA name : name \in both)
      Side(schema, name) == Ref(FirstNamed(schema, name).table, name)
      equal == [k \in DOMAIN found |-> Bin("=", Side(left, found[k]), Side(right, found[k]))]
  IN  IF found = <<>> THEN <<>>
      ELSE <<FoldLeft(LAMBDA all, e : Bin("AND", all, e), Head(equal), Tail(equal))>>

Condition(join, left, right) ==
  IF join.natural THEN UsingCondition(CommonColumns(left, right), left, right)
  ELSE IF join.using # <<>> THEN UsingCondition(join.using, left, right)
  ELSE join.cond

-----------------------------------------------------------------------------
(* Aggregates                                                                *)

\* The aggregate of a call; a COUNT(*) has no argument.
AggOfCall(call, name) == [fn |-> call.fn, arg |-> call.args, distinct |-> call.distinct, name |-> name]

\* collectAgg: from left to right, and not from the arguments of a call.
RECURSIVE CollectAgg(_)
CollectAgg(e) ==
  IF e.kind = "call" THEN <<AggOfCall(e, "")>>
  ELSE IF e.kind = "over" THEN <<>>
  ELSE FlattenSeq([k \in DOMAIN Parts(e) |-> CollectAgg(Parts(e)[k])])

\* An aggregate that is an item of its own goes by the item's alias.
AggsOfItem(item) ==
  IF item.expr.kind = "call" THEN <<AggOfCall(item.expr, item.name.column)>> ELSE CollectAgg(item.expr)

ExtractAggregates(items) == FlattenSeq([k \in DOMAIN items |-> AggsOfItem(items[k])])

\* Mutant: the aggregates of HAVING alone are not computed.
MergeHavingNone(aggs, having) == aggs

\* mergeHavingAggs: those that the list has not got yet, by their text.
MergeHavingAggs(aggs, having) ==
  LET New(agg) == \A k \in DOMAIN aggs : AggSig(aggs[k]) # AggSig(agg)
      ofHaving == FlattenSeq([k \in DOMAIN having |-> CollectAgg(having[k])])
  IN  aggs \o SelectSeq(ofHaving, New)

\* buildAggSigMap: of aggregates with the same text the last one counts.  A call
\* that has none stays.
LastOf(aggs, same, call) ==
  IF same = {} THEN call ELSE Ref("", AggName(aggs[CHOOSE k \in same : \A j \in same : j <= k]).column)
AggRef(aggs, call) ==
  LastOf(aggs, {k \in DOMAIN aggs : AggSig(aggs[k]) = AggSig(AggOfCall(call, ""))}, call)

\* remapExpr goes neither into BETWEEN nor into windows.
RECURSIVE Remap(_, _)
Remap(e, aggs) ==
  CASE e.kind = "call" -> AggRef(aggs, e)
    [] e.kind \in {"binary", "unary", "case", "in", "isnull"} ->
         WithParts(e, Listed([k \in DOMAIN Parts(e) |-> Remap(Parts(e)[k], aggs)]))
    [] OTHER -> e

RemapItems(items, aggs) == [k \in DOMAIN items |-> Item(Remap(items[k].expr, aggs), items[k].name)]

\* The clauses of a query that decide whether its rows are aggregated.
Aggregating(select) ==
  \/ select.groupBy # <<>>
  \/ \E k \in DOMAIN select.columns : HasAggregate(select.columns[k].expr)
  \/ \E k \in DOMAIN select.having : HasAggregate(select.having[k])

-----------------------------------------------------------------------------
(* Windows: those that are an item, with or without an alias.                *)

WindowItems(items) == SelectSeq([k \in DOMAIN items |-> k], LAMBDA k : items[k].expr.kind = "over")

WindowAlias(items, k) ==
  IF items[k].name # NoName THEN items[k].name.column
  ELSE "__win_" \o ToString(Cardinality({j \in 1 .. k - 1 : items[j].expr.kind = "over"}))

ExtractWindows(items) ==
  LET places == WindowItems(items)
      window(e, name) == Window(e.fn, e.args, e.partition, e.order, e.frame, name)
  IN  [k \in DOMAIN places |-> window(items[places[k]].expr, WindowAlias(items, places[k]))]

ReplaceWindows(items) ==
  [k \in DOMAIN items |->
     IF items[k].expr.kind = "over"
     THEN Item(Ref("", WindowAlias(items, k)), Name("", WindowAlias(items, k))) ELSE items[k]]

-----------------------------------------------------------------------------
(* buildSelect.  ctes are the queries of WITH.                               *)

Windowing(plan, items) ==
  Project(IF WindowItems(items) = <<>> THEN plan ELSE Windowed(plan, ExtractWindows(items)),
          ReplaceWindows(items))

\* GROUP BY, HAVING, windows and the list; HAVING without groups is not looked at.
AggregatedBy(plan, select, aggs) ==
  LET node == Aggregate(plan, select.groupBy, aggs)
      having == [k \in DOMAIN select.having |-> Remap(select.having[k], aggs)]
  IN  Windowing(IF having = <<>> THEN node ELSE Filter(node, having[1]), RemapItems(select.columns, aggs))

Selected(plan, select) ==
  IF Aggregating(select)
  THEN AggregatedBy(plan, select, MergeHavingAggs(ExtractAggregates(select.columns), select.having))
  ELSE Windowing(plan, select.columns)

\* An OFFSET without a LIMIT is not looked at.
Bounded(plan, select) == IF select.limit = <<>> THEN plan ELSE Limit(plan, select.limit, select.offset)

Arranged(plan, select) ==
  LET distinct == IF select.distinct THEN Distinct(plan) ELSE plan
      sorted == IF select.orderBy = <<>> THEN distinct ELSE Sort(distinct, select.orderBy)
  IN  Bounded(sorted, select)

JoinOf(join, left, right) == Join(join.type, left, right, Condition(join, Schema(left), Schema(right)))

RECURSIVE BuildSelect(_, _)

\* buildTableRef
BuildRef(ref, ctes) ==
  LET inner == IF ref.subquery # <<>> THEN ref.subquery[1] ELSE CteSelect(ctes, ref.name)
  IN  IF ref.subquery = <<>> /\ Named(ctes, ref.name) = {} THEN Scan(ref.name, RefAlias(ref))
      ELSE Subquery(BuildSelect(inner, ctes), RefAlias(ref))

\* The first table, and then each join; refs are the plans of the tables.
JoinAll(select, refs) ==
  LET first == IF select.from = <<>> THEN OneRow ELSE refs[1]
      n == Len(select.from)
  IN  FoldLeft(LAMBDA plan, k : JoinOf(select.joins[k], plan, refs[n + k]), first,
               [k \in DOMAIN select.joins |-> k])

WithWhere(plan, where) == IF where = <<>> THEN plan ELSE Filter(plan, where[1])

BuildSelect(select, ctes) ==
  LET refs == TableRefs(select)
      plans == Listed([k \in DOMAIN refs |-> BuildRef(refs[k], ctes)])
  IN  Arranged(Selected(WithWhere(JoinAll(select, plans), select.where), select), select)

\* BuildStatement
RECURSIVE BuildStatement(_, _)
BuildStatement(query, ctes) ==
  IF query.kind = "select" THEN BuildSelect(query, ctes)
  ELSE SetOp(query.op, query.all, BuildStatement(query.left, ctes), BuildSelect(query.right, ctes))

Built(query) == BuildStatement(query, With(query))
=============================================================================
