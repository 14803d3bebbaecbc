------------------------------- MODULE Tuples -------------------------------
(***************************************************************************)
(* Tuples, and what the operators of internal/executor/operators compute   *)
(* on tuples they have buffered: the stable sort of sort.go, the set       *)
(* operations of set_op.go and the aggregates of hash_agg.go.              *)
(*                                                                         *)
(* A tuple is a row and the schema it was made with (exectypes.Tuple); the *)
(* name of a column is split at its dot: table is "" when there is none.   *)
(* How an expression evaluates and prints is a parameter here, which       *)
(* Expressions has a value for: it takes recursion, and what holds of the  *)
(* calls of operators whatever expressions evaluate to is proved.  Items   *)
(* without an alias, and aggregates, are found again by the printed text.  *)
(*                                                                         *)
(* Two things of Value.String matter here: a text may read like a number,  *)
(* and one text reads like NULL.  SUM returns a float in the code; it is a *)
(* whole number here.  AVG, variance and deviation, which divide the same  *)
(* counters, are left out.                                                 *)
(***************************************************************************)
EXTENDS Values, Sequences, SequencesExt

CONSTANTS Columns,             \* the column names of each table
          Contents,            \* the rows of each table
          Evaluated(_, _, _),  \* EvalExpr, of an expression, a header and a row
          Printed(_)           \* PrintExpr

\* A slice.
IsList(list) == list \in Seq(ToSet(list))

ASSUME ContentsAssumption ==
  /\ DOMAIN Contents = DOMAIN Columns
  /\ \A t \in DOMAIN Columns :
       /\ IsList(Columns[t]) /\ IsList(Contents[t])
       /\ \A i \in DOMAIN Contents[t] :
            IsList(Contents[t][i]) /\ Len(Contents[t][i]) = Len(Columns[t])

First(positions) == CHOOSE i \in positions : \A j \in positions : i <= j

\* The same sequence; TLC computes its elements once, not at every use.
Listed(seq) == <<>> \o seq

Name(table, column) == [table |-> table, column |-> column]
NoName == Name("", "")

\* An item of a SELECT list; its name is NoName when it has no alias.
Item(expr, name) == [expr |-> expr, name |-> name]

\* COUNT(*) is a call without arguments; the functions are the aggregates.
FunctionCall(fn, args, distinct) == [kind |-> "call", fn |-> fn, args |-> args, distinct |-> distinct]

\* The name a plan gives a printed expression: a column keeps its dot.  Others
\* are one name without a table; where the code would split, at the dot of
\* "b.x IS NULL", nothing is called by that table and that column.
PrintedName(e) == IF e.kind = "column" THEN Name(e.table, e.column) ELSE Name("", Printed(e))

\* The column of an item in the plan's schema, and in the header of its rows.
SchemaName(item) == IF item.name # NoName THEN item.name ELSE PrintedName(item.expr)
HeaderName(item) ==
  IF item.name # NoName THEN item.name
  ELSE IF item.expr.kind = "column" THEN Name("", item.expr.column) ELSE PrintedName(item.expr)

-----------------------------------------------------------------------------
Text(k) == [type |-> "text", val |-> k]     \* the text that reads like k
NullText == Text(-1)                        \* the text 'NULL'
ZeroValue == [type |-> "zero", val |-> 0]   \* Value{}: its IsNull is false

Tuple(row, schema) == [row |-> row, schema |-> schema]
Rows(tuples) == [i \in DOMAIN tuples |-> tuples[i].row]

\* Value.String
Display(v) ==
  IF v \in {NullValue, ZeroValue, NullText} THEN <<"NULL", 0>>
  ELSE IF IsBool(v) THEN <<"bool", v.val>> ELSE <<"digits", v.val>>

\* EvalExpr on a tuple: a column past the end of the row is not found.
ValueOf(e, t) ==
  Evaluated(e, IF Len(t.row) < Len(t.schema) THEN SubSeq(t.schema, 1, Len(t.row)) ELSE t.schema, t.row)

\* EvalExpr where the caller ignores its error.
ValueOrNull(e, t) == LET v == ValueOf(e, t) IN IF IsError(v) THEN NullValue ELSE v

\* EvalExpr without a tuple.
Constant(e) == Evaluated(e, <<>>, <<>>)

\* Compare returns an order, not an error.
Ordered(v, w) == Comparable(v, w) /\ v # ZeroValue /\ ~IsError(v)
Less(v, w) == Ordered(v, w) /\ v.val < w.val

\* The elements at these places, in their order: the next one kept is the one with as
\* many of them up to it.
Rank(places, i) == Cardinality({j \in places : j <= i})
Pick(seq, places) ==
  LET at == DOMAIN seq \intersect places
      kept(k) == CHOOSE i \in at : Rank(at, i) = k
  IN  [k \in 1 .. Cardinality(at) |-> seq[kept(k)]]

-----------------------------------------------------------------------------
(* sort.SliceStable.  Where less is a strict weak order, as for keys of one *)
(* type that all evaluate, how it sorts makes no difference.                 *)

\* smaller: for each place the places of the elements less than the one there.
SliceStable(smaller, seq) ==
  LET ahead(i) == {j \in DOMAIN seq : j \in smaller[i] \/ (i \notin smaller[j] /\ j < i)}
  IN  Listed([p \in DOMAIN seq |-> seq[CHOOSE i \in DOMAIN seq : Cardinality(ahead(i)) = p - 1]])

\* nulls is "default", "first" or "last".
SortSpec(expr, ascending, nulls) == [expr |-> expr, ascending |-> ascending, nulls |-> nulls]

NullsFirst(spec) == IF spec.nulls = "default" THEN ~spec.ascending ELSE spec.nulls = "first"

\* The comparator goes on to the next key when this one does not tell v from w.
Tells(v, w) ==
  /\ ~IsError(v) /\ ~IsError(w)
  /\ IsNull(v) # IsNull(w) \/ (Ordered(v, w) /\ v.val # w.val)

ComesFirst(spec, v, w) ==
  IF IsNull(v) THEN NullsFirst(spec)
  ELSE IF IsNull(w) THEN ~NullsFirst(spec)
  ELSE IF spec.ascending THEN v.val < w.val ELSE v.val > w.val

KeySortsBefore(specs, vs, us) ==
  LET telling == {k \in DOMAIN specs : Tells(vs[k], us[k])}
  IN  telling # {} /\ ComesFirst(specs[First(telling)], vs[First(telling)], us[First(telling)])

SortKey(specs, t) == Listed([k \in DOMAIN specs |-> ValueOf(specs[k].expr, t)])

SortsBefore(specs, t, u) == KeySortsBefore(specs, SortKey(specs, t), SortKey(specs, u))

Sorted(specs, tuples) ==
  LET smaller(i) == {j \in DOMAIN tuples : SortsBefore(specs, tuples[j], tuples[i])}
  IN  SliceStable(Listed([i \in DOMAIN tuples |-> smaller(i)]), tuples)

-----------------------------------------------------------------------------
(* set_op.go.  Rows are the same when their values read the same.            *)

TupleKey(t) == [i \in DOMAIN t.row |-> Display(t.row[i])]
KeysOf(tuples) == {TupleKey(tuples[i]) : i \in DOMAIN tuples}
KeyCounts(tuples, keys) ==
  [key \in keys |-> Cardinality({i \in DOMAIN tuples : TupleKey(tuples[i]) = key})]

\* One step of the loops that keep the first row of each key.
Unseen(done, t) ==
  IF TupleKey(t) \in done.seen THEN done
  ELSE [seen |-> done.seen \union {TupleKey(t)}, out |-> Append(done.out, t)]

Deduplicated(tuples) == FoldLeft(Unseen, [seen |-> {}, out |-> <<>>], tuples).out

SetUnion(left, right, all) == IF all THEN left \o right ELSE Deduplicated(left \o right)

SetIntersect(left, right, all) ==
  LET available == KeyCounts(right, KeysOf(left))
      Use(done, t) ==
        IF done.used[TupleKey(t)] < available[TupleKey(t)]
        THEN [used |-> [done.used EXCEPT ![TupleKey(t)] = @ + 1], out |-> Append(done.out, t)]
        ELSE done
      InRight(t) == TupleKey(t) \in KeysOf(right)
  IN  IF all THEN FoldLeft(Use, [used |-> [key \in KeysOf(left) |-> 0], out |-> <<>>], left).out
      ELSE Deduplicated(SelectSeq(left, InRight))

SetExcept(left, right, all) ==
  LET Consume(done, t) ==
        IF done.unused[TupleKey(t)] > 0
        THEN [done EXCEPT !.unused[TupleKey(t)] = @ - 1]
        ELSE [done EXCEPT !.out = Append(@, t)]
      NotInRight(t) == TupleKey(t) \notin KeysOf(right)
  IN  IF all THEN FoldLeft(Consume, [unused |-> KeyCounts(right, KeysOf(left)), out |-> <<>>], left).out
      ELSE Deduplicated(SelectSeq(left, NotInRight))

Combined(op, all, left, right) ==
  CASE op = "UNION" -> SetUnion(left, right, all)
    [] op = "INTERSECT" -> SetIntersect(left, right, all)
    [] op = "EXCEPT" -> SetExcept(left, right, all)

-----------------------------------------------------------------------------
(* hash_agg.go.  A COUNT of all rows has no argument.                       *)

Agg(fn, arg, distinct, name) == [fn |-> fn, arg |-> <<arg>>, distinct |-> distinct, name |-> name]
CountStar(name) == [fn |-> "COUNT", arg |-> <<>>, distinct |-> FALSE, name |-> name]

\* What an aggregate is found by, and the name of its column.
AggSig(agg) == Printed(FunctionCall(agg.fn, agg.arg, FALSE))
AggName(agg) == Name("", IF agg.name = "" THEN AggSig(agg) ELSE agg.name)
AggHeader(groupBy, aggs) ==
  [k \in DOMAIN groupBy |-> PrintedName(groupBy[k])] \o [k \in DOMAIN aggs |-> AggName(aggs[k])]

NewAggState(agg) ==
  [fn |-> agg.fn, distinct |-> agg.distinct, seen |-> {}, count |-> 0, sum |-> 0,
   min |-> NullValue, max |-> NullValue]

Accumulate(state, v) ==
  IF IsError(v) \/ IsNull(v) \/ (state.distinct /\ Display(v) \in state.seen) THEN state
  ELSE [state EXCEPT !.seen = IF state.distinct THEN @ \union {Display(v)} ELSE @,
                     !.sum = IF IsInt(v) THEN @ + v.val ELSE @,
                     !.count = @ + 1,
                     !.min = IF IsNull(@) \/ Less(v, @) THEN v ELSE @,
                     !.max = IF IsNull(@) \/ Less(@, v) THEN v ELSE @]

\* An argument that cannot be evaluated is passed over.
AccumulateRow(aggs, states, t) ==
  [k \in DOMAIN aggs |->
     IF aggs[k].arg = <<>> THEN [states[k] EXCEPT !.count = @ + 1]
     ELSE Accumulate(states[k], ValueOf(aggs[k].arg[1], t))]

AggResult(state) ==
  CASE state.fn = "COUNT" -> IntValue(state.count)
    [] state.fn = "SUM" -> IF state.count = 0 THEN NullValue ELSE IntValue(state.sum)
    [] state.fn = "MIN" -> state.min
    [] state.fn = "MAX" -> state.max

NewStates(aggs) == [k \in DOMAIN aggs |-> NewAggState(aggs[k])]
GroupRow(group) == group.vals \o [k \in DOMAIN group.states |-> AggResult(group.states[k])]

\* groups and order: the groups in the order of their first rows.  The typed
\* key of a group tells apart whatever its values do.
Joining(groups, same, vals, aggs, t) ==
  LET states == IF same = {} THEN NewStates(aggs) ELSE groups[First(same)].states
      group == [vals |-> vals, states |-> AccumulateRow(aggs, states, t)]
  IN  IF same = {} THEN Append(groups, group) ELSE [groups EXCEPT ![First(same)] = group]

Grouped(groups, vals, aggs, t) ==
  Joining(groups, {g \in DOMAIN groups : groups[g].vals = vals}, vals, aggs, t)

\* A single group stands for no rows at all; the code makes it in Next.
Groups(node, groups) ==
  IF node.groupBy = <<>> /\ groups = <<>> THEN <<[vals |-> <<>>, states |-> NewStates(node.aggs)]>>
  ELSE groups

GroupValues(groupBy, t) == [k \in DOMAIN groupBy |-> ValueOf(groupBy[k], t)]
HasError(vals) == \E k \in DOMAIN vals : IsError(vals[k])

-----------------------------------------------------------------------------
\* Limit.Open (limit.go): a count or an offset, if there is one, is a number of rows.
ValidBound(bound) == bound = <<>> \/ (IsInt(Constant(bound[1])) /\ Constant(bound[1]).val >= 0)
=============================================================================
