------------------------------- MODULE Plans --------------------------------
(***************************************************************************)
(* Logical plans (planner/logical/nodes.go) and what they stand for.       *)
(*                                                                         *)
(* Answer is the tuples that the operators built for a plan return, and    *)
(* the errors they meet, with joins as the nested loops define them; the   *)
(* operators themselves are those of Volcano and of the join modules.      *)
(* Every row is evaluated, also where a LIMIT would have stopped before.   *)
(***************************************************************************)
EXTENDS Windows, Expressions

Scan(table, alias) == [kind |-> "scan", table |-> table, alias |-> alias]
OneRow == [kind |-> "constant"]          \* LogicalConstant
EmptyRelation(cols) == [kind |-> "empty", cols |-> cols]
Filter(child, pred) == [kind |-> "filter", child |-> child, pred |-> pred]
Project(child, items) == [kind |-> "project", child |-> child, items |-> items]
\* cond: one condition or none.
Join(type, left, right, cond) ==
  [kind |-> "join", type |-> type, left |-> left, right |-> right, cond |-> cond]
Aggregate(child, groupBy, aggs) ==
  [kind |-> "aggregate", child |-> child, groupBy |-> groupBy, aggs |-> aggs]
Windowed(child, windows) == [kind |-> "window", child |-> child, windows |-> windows]
Distinct(child) == [kind |-> "distinct", child |-> child]
Sort(child, specs) == [kind |-> "sort", child |-> child, specs |-> specs]
Limit(child, count, offset) == [kind |-> "limit", child |-> child, count |-> count, offset |-> offset]
SetOp(op, all, left, right) == [kind |-> "setop", op |-> op, all |-> all, left |-> left, right |-> right]
Subquery(child, alias) == [kind |-> "subquery", child |-> child, alias |-> alias]

Children(plan) ==
  CASE plan.kind \in {"join", "setop"} -> <<plan.left, plan.right>>
    [] plan.kind \in {"scan", "constant", "empty"} -> <<>>
    [] OTHER -> <<plan.child>>

\* The columns of a plan, as the plan names them or as its rows do when it runs.
RECURSIVE ColumnNames(_, _)
ColumnNames(plan, running) ==
  CASE plan.kind = "scan" ->
         [i \in DOMAIN Columns[plan.table] |-> Name(plan.alias, Columns[plan.table][i])]
    [] plan.kind = "constant" -> <<>>
    [] plan.kind = "empty" -> plan.cols
    [] plan.kind = "project" ->
         [k \in DOMAIN plan.items |-> IF running THEN HeaderName(plan.items[k]) ELSE SchemaName(plan.items[k])]
    [] plan.kind = "join" -> ColumnNames(plan.left, running) \o ColumnNames(plan.right, running)
    [] plan.kind = "aggregate" -> AggHeader(plan.groupBy, plan.aggs)
    [] plan.kind = "window" -> WindowSchema(plan.windows, ColumnNames(plan.child, running))
    [] plan.kind = "setop" -> ColumnNames(plan.left, running)
    [] OTHER -> ColumnNames(plan.child, running)

Schema(plan) == ColumnNames(plan, FALSE)
Header(plan) == ColumnNames(plan, TRUE)

-----------------------------------------------------------------------------
Result(tuples, errors) == [tuples |-> tuples, errors |-> errors]
Nulls(n) == [i \in 1 .. n |-> NullValue]

\* The errors among the values of e on all tuples.
Met(e, tuples) == {ValueOf(e, tuples[i]) : i \in DOMAIN tuples} \intersect Errors

Filtered(pred, tuples) == SelectSeq(tuples, LAMBDA t : IsTruthy(ValueOf(pred, t)))

Projected(items, header, tuples) ==
  [i \in DOMAIN tuples |->
     Tuple(Listed([k \in DOMAIN items |-> ValueOf(items[k].expr, tuples[i])]), header)]

-----------------------------------------------------------------------------
(* Joins.  matches: the pairs of places of rows that go together.            *)

Pair(t, u, header) == Tuple(t.row \o u.row, header)

Matches(cond, left, right, header) ==
  {p \in (DOMAIN left) \X (DOMAIN right) :
     cond = <<>> \/ IsTruthy(ValueOf(cond[1], Pair(left[p[1]], right[p[2]], header)))}

CondErrors(cond, left, right, header) ==
  IF cond = <<>> THEN {}
  ELSE {ValueOf(cond[1], Pair(left[i], right[j], header)) : i \in DOMAIN left, j \in DOMAIN right}
       \intersect Errors

\* A RIGHT or FULL join goes through the right rows and pads at the end; the
\* others go through the left rows.
JoinedRows(type, left, right, matches, widths, header) ==
  LET padLeft(i) == Tuple(left[i].row \o Nulls(widths[2]), header)
      padRight(j) == Tuple(Nulls(widths[1]) \o right[j].row, header)
      ofLeft(i) == Pick([j \in DOMAIN right |-> Pair(left[i], right[j], header)], {j \in DOMAIN right : <<i, j>> \in matches})
      ofRight(j) == Pick([i \in DOMAIN left |-> Pair(left[i], right[j], header)], {i \in DOMAIN left : <<i, j>> \in matches})
      lonely(i) == \A j \in DOMAIN right : <<i, j>> \notin matches
      lonelyRight == {j \in DOMAIN right : \A i \in DOMAIN left : <<i, j>> \notin matches}
  IN  IF type \in {"right", "full"}
      THEN FlattenSeq([j \in DOMAIN right |-> ofRight(j)])
           \o Pick([j \in DOMAIN right |-> padRight(j)], lonelyRight)
           \o (IF type = "full" THEN Pick([i \in DOMAIN left |-> padLeft(i)], {i \in DOMAIN left : lonely(i)})
               ELSE <<>>)
      ELSE FlattenSeq([i \in DOMAIN left |->
             IF lonely(i) /\ type = "left" THEN <<padLeft(i)>> ELSE ofLeft(i)])

Joined(plan, left, right, widths, header) ==
  JoinedRows(plan.type, left, right, Matches(plan.cond, left, right, header), widths, header)

-----------------------------------------------------------------------------
Aggregated(plan, tuples, header) ==
  LET Step(groups, t) == Grouped(groups, Listed(GroupValues(plan.groupBy, t)), plan.aggs, t)
      groups == Groups(plan, FoldLeft(Step, <<>>, tuples))
  IN  [g \in DOMAIN groups |-> Tuple(GroupRow(groups[g]), header)]

BoundOr(bound, default) == IF bound = <<>> THEN default ELSE Constant(bound[1]).val

Limited(plan, tuples) ==
  LET skip == BoundOr(plan.offset, 0)
      last == skip + BoundOr(plan.count, Len(tuples))
  IN  Pick(tuples, {i \in DOMAIN tuples : skip < i /\ i <= last})

\* The tuples with their windows, or the error of a window that has none.
WithWindows(plan, columns, tuples, header) ==
  LET met == UNION {ToSet(columns[k]) : k \in DOMAIN columns} \intersect (Errors \union {Panicked})
  IN  IF met # {} THEN Result(<<>>, met)
      ELSE Result(WindowTuples(plan.windows, columns, tuples, header), {})

\* What a node makes of its children's tuples; ts are those of the first, header
\* and headers the columns of the node and of its children.
NodeAnswer(plan, parts, ts, header, headers) ==
  LET Just(tuples) == Result(tuples, {})
      fails == Result(<<>>, {Raised})
  IN  CASE plan.kind = "constant" -> Just(<<Tuple(<<>>, <<>>)>>)
        [] plan.kind = "empty" -> Just(<<>>)
        [] plan.kind = "filter" -> Result(Filtered(plan.pred, ts), Met(plan.pred, ts))
        [] plan.kind = "project" ->
             Result(Projected(plan.items, header, ts),
                    UNION {Met(plan.items[k].expr, ts) : k \in DOMAIN plan.items})
        [] plan.kind = "join" ->
             Result(Joined(plan, ts, parts[2].tuples, <<Len(headers[1]), Len(headers[2])>>, header),
                    CondErrors(plan.cond, ts, parts[2].tuples, header))
        [] plan.kind = "aggregate" ->
             Result(Aggregated(plan, ts, header),
                    UNION {Met(plan.groupBy[k], ts) : k \in DOMAIN plan.groupBy})
        [] plan.kind = "window" ->
             WithWindows(plan, WindowColumns(plan.windows, ts), ts, headers[1])
        [] plan.kind = "distinct" -> Just(Deduplicated(ts))
        [] plan.kind = "sort" -> Just(Sorted(plan.specs, ts))
        [] plan.kind = "limit" ->
             IF ValidBound(plan.count) /\ ValidBound(plan.offset) THEN Just(Limited(plan, ts)) ELSE fails
        [] plan.kind = "setop" ->
             IF Len(headers[1]) # Len(headers[2]) THEN fails
             ELSE Just(Combined(plan.op, plan.all, ts, parts[2].tuples))
        [] plan.kind = "subquery" -> parts[1]

WithErrors(result, parts) ==
  [result EXCEPT !.errors = @ \union UNION {parts[i].errors : i \in DOMAIN parts}]

Scanned(plan) ==
  Result([i \in DOMAIN Contents[plan.table] |-> Tuple(Contents[plan.table][i], Schema(plan))], {})

NodeOver(plan, parts, headers) ==
  IF plan.kind = "scan" THEN Scanned(plan)
  ELSE WithErrors(NodeAnswer(plan, parts, IF parts = <<>> THEN <<>> ELSE parts[1].tuples, Header(plan), headers),
                  parts)

RECURSIVE Answer(_)
Answer(plan) ==
  NodeOver(plan, Listed([i \in DOMAIN Children(plan) |-> Answer(Children(plan)[i])]),
            Listed([i \in DOMAIN Children(plan) |-> Header(Children(plan)[i])]))
=============================================================================
