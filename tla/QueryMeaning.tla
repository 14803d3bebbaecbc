----------------------------- MODULE QueryMeaning ---------------------------
(***************************************************************************)
(* What a query asks for, by SQL's own definitions and on the query as it  *)
(* is written: no plan, no resolved columns.  A relation is a sequence of  *)
(* columns, a Name each, and one of rows, in no particular order.          *)
(*                                                                         *)
(* asked is [legal, columns, rows, weights, skip, last]: whether the query *)
(* is one at all, its columns, all its rows, what ORDER BY makes of each,  *)
(* and the stretch of them that LIMIT and OFFSET leave.  JOIN USING keeps  *)
(* both columns, and a CTE sees those before it.                           *)
(***************************************************************************)
EXTENDS SqlMeaning, Syntax

Relation(legal, columns, rows) == [legal |-> legal, columns |-> columns, rows |-> rows]
NoRelation == Relation(FALSE, <<>>, <<>>)

\* The columns that a reference may mean: in a query there is exactly one.
Meant(ref, columns) ==
  {i \in DOMAIN columns : columns[i].column = ref.column /\ ref.table \in {"", columns[i].table}}
Clear(e, columns) == \A ref \in ColumnRefs(e) : Cardinality(Meant(ref, columns)) = 1

IsTrue(e, columns, row) == IsTruthy(EvalExpr(e, columns, row))

-----------------------------------------------------------------------------
(* Joins: the pairs of rows that go together, and on the outer sides those   *)
(* rows that have no partner.                                                *)

SharedNames(join, left, right) ==
  IF join.natural THEN {left.columns[i].column : i \in DOMAIN left.columns}
                       \intersect {right.columns[j].column : j \in DOMAIN right.columns}
  ELSE ToSet(join.using)

OfName(relation, name) == Meant(Ref("", name), relation.columns)

PairMeets(join, left, right, shared, i, j) ==
  /\ \A name \in shared :
       \E k \in OfName(left, name), m \in OfName(right, name) :
         Compares("=", left.rows[i][k], right.rows[j][m]) /\ ~IsNull(left.rows[i][k])
  /\ \A c \in DOMAIN join.cond :
       IsTrue(join.cond[c], left.columns \o right.columns, left.rows[i] \o right.rows[j])

PairRows(type, left, right, pairs) ==
  LET none(relation) == [i \in DOMAIN relation.columns |-> NullValue]
      met(i) == Pick([j \in DOMAIN right.rows |-> left.rows[i] \o right.rows[j]], {p[2] : p \in {q \in pairs : q[1] = i}})
      padLeft == [i \in DOMAIN left.rows |-> left.rows[i] \o none(right)]
      padRight == [j \in DOMAIN right.rows |-> none(left) \o right.rows[j]]
  IN  FlattenSeq([i \in DOMAIN left.rows |-> met(i)])
      \o (IF type \in {"left", "full"} THEN Pick(padLeft, DOMAIN padLeft \ {p[1] : p \in pairs}) ELSE <<>>)
      \o (IF type \in {"right", "full"} THEN Pick(padRight, DOMAIN padRight \ {p[2] : p \in pairs}) ELSE <<>>)

JoinLegal(join, left, right, shared) ==
  /\ left.legal /\ right.legal
  /\ \A name \in shared : Cardinality(OfName(left, name)) = 1 /\ Cardinality(OfName(right, name)) = 1
  /\ \A c \in DOMAIN join.cond :
       Clear(join.cond[c], left.columns \o right.columns) /\ ~HasAggregate(join.cond[c])

JoinMeaning(join, left, right) ==
  LET shared == SharedNames(join, left, right)
      pairs == {p \in (DOMAIN left.rows) \X (DOMAIN right.rows) : PairMeets(join, left, right, shared, p[1], p[2])}
  IN  IF JoinLegal(join, left, right, shared)
      THEN Relation(TRUE, left.columns \o right.columns, PairRows(join.type, left, right, pairs))
      ELSE NoRelation

-----------------------------------------------------------------------------
(* A SELECT over the relation of its FROM.  A unit is the set of rows that   *)
(* one row of the result is made of: a group, or a single row.               *)

Summing(select) ==
  select.groupBy # <<>> \/ select.having # <<>>
  \/ \E k \in DOMAIN select.columns : HasAggregate(select.columns[k].expr)

\* The expression over a unit: every aggregate is a number.
CallMeaning(call, from, unit) ==
  IF call.args = <<>> THEN IntValue(Cardinality(unit))
  ELSE AggMeaning(call.fn, call.distinct,
                  Listed([i \in DOMAIN from.rows |-> EvalExpr(call.args[1], from.columns, from.rows[i])]), unit)

RECURSIVE OverUnit(_, _, _)
OverUnit(e, from, unit) ==
  IF e.kind = "call" THEN Lit(CallMeaning(e, from, unit))
  ELSE WithParts(e, Listed([k \in DOMAIN Parts(e) |-> OverUnit(Parts(e)[k], from, unit)]))

\* One row stands for the unit; all have the same values where that matters.
UnitRow(from, unit) ==
  IF unit = {} THEN [i \in DOMAIN from.columns |-> NullValue] ELSE from.rows[First(unit)]

UnitValue(e, from, unit) == EvalExpr(OverUnit(e, from, unit), from.columns, UnitRow(from, unit))

Units(select, from) ==
  LET Holds(e, i) == IsTrue(e, from.columns, from.rows[i])
      kept == {i \in DOMAIN from.rows : \A k \in DOMAIN select.where : Holds(select.where[k], i)}
      key(i) == Listed([k \in DOMAIN select.groupBy |-> EvalExpr(select.groupBy[k], from.columns, from.rows[i])])
      keys == Listed([i \in DOMAIN from.rows |-> key(i)])
      units == IF ~Summing(select) THEN {{i} : i \in kept}
               ELSE IF select.groupBy = <<>> THEN {kept}
               ELSE {{j \in kept : keys[j] = keys[i]} : i \in kept}
  IN  {unit \in units : \A k \in DOMAIN select.having : IsTruthy(UnitValue(select.having[k], from, unit))}

\* The items of the list: * are all columns.
ItemsOf(select, from) ==
  LET all == [i \in DOMAIN from.columns |-> Item(Ref(from.columns[i].table, from.columns[i].column), NoName)]
  IN  FlattenSeq([k \in DOMAIN select.columns |->
        IF select.columns[k].expr = Star THEN all ELSE <<select.columns[k]>>])

\* The value of an item on every unit; windows look at all of them.
ItemMeaning(e, from, units) ==
  LET tuples == Listed([u \in DOMAIN units |-> Tuple(UnitRow(from, units[u]), from.columns)])
      window == Window(e.fn, e.args, e.partition, e.order, e.frame, "")
      wide == WindowsMeaning(<<window>>, tuples, from.columns)
  IN  IF e.kind = "over" THEN [u \in DOMAIN units |-> Last(wide[u].row)]
      ELSE [u \in DOMAIN units |-> UnitValue(e, from, units[u])]

\* An ORDER BY key is an item, by its alias or its expression, or one more expression.
SortsBy(e, items) ==
  {k \in DOMAIN items : e \in {Ref("", items[k].name.column), items[k].expr}}

KeyMeaning(e, items, vals, from, unit) ==
  IF SortsBy(e, items) # {} THEN vals[First(SortsBy(e, items))] ELSE UnitValue(e, from, unit)

UnitWeights(select, items, vals, from, unit) ==
  LET key(k) == Weight(select.orderBy[k], KeyMeaning(select.orderBy[k].expr, items, vals, from, unit))
  IN  Listed([k \in DOMAIN select.orderBy |-> key(k)])

\* The rows of the list with their weights, as pairs; DISTINCT keeps one of each.
DistinctPairs(pairs) == Pick(pairs, {u \in DOMAIN pairs : \A v \in 1 .. u - 1 : pairs[v] # pairs[u]})

PairsOf(select, items, rows, from, units) ==
  Listed([u \in DOMAIN units |-> <<rows[u], UnitWeights(select, items, rows[u], from, units[u])>>])

Transposed(columns, units) ==
  Listed([u \in DOMAIN units |-> Listed([k \in DOMAIN columns |-> columns[k][u]])])

ListMeaning(select, items, from, units) ==
  LET columns == Listed([k \in DOMAIN items |-> Listed(ItemMeaning(items[k].expr, from, units))])
      pairs == PairsOf(select, items, Transposed(columns, units), from, units)
  IN  IF select.distinct THEN DistinctPairs(pairs) ELSE pairs

-----------------------------------------------------------------------------
(* Which SELECTs are queries at all.                                         *)

RECURSIVE OutsideAggregates(_)
OutsideAggregates(e) ==
  IF e.kind = "column" THEN {e} ELSE IF e.kind = "call" THEN {}
  ELSE UNION {OutsideAggregates(Parts(e)[k]) : k \in DOMAIN Parts(e)}

\* Over groups a column that no aggregate takes up is one of those grouped by.
OverGroups(select, e, columns) ==
  LET grouped == UNION {Meant(ref, columns) : ref \in UNION {ColumnRefs(select.groupBy[k]) : k \in DOMAIN select.groupBy}}
  IN  Summing(select) => \A ref \in OutsideAggregates(e) : Meant(ref, columns) \subseteq grouped

SelectLegal(select, items, columns) ==
  LET keys == [k \in DOMAIN select.orderBy |-> select.orderBy[k].expr]
      further == SelectSeq(keys, LAMBDA e : SortsBy(e, items) = {})
      perRow == select.where \o select.groupBy
      perUnit == [k \in DOMAIN items |-> items[k].expr] \o select.having \o further
  IN  /\ \A k \in DOMAIN perRow :
           Clear(perRow[k], columns) /\ ~HasAggregate(perRow[k]) /\ ~HasWindow(perRow[k])
      /\ \A k \in DOMAIN perUnit :
           Clear(perUnit[k], columns) /\ OverGroups(select, perUnit[k], columns)

-----------------------------------------------------------------------------
Asked(legal, columns, pairs, skip, last) ==
  [legal |-> legal, columns |-> columns, rows |-> [k \in DOMAIN pairs |-> pairs[k][1]],
   weights |-> [k \in DOMAIN pairs |-> pairs[k][2]], skip |-> skip, last |-> last]

Nothing == Asked(FALSE, <<>>, <<>>, 0, 0)

NumberOf(bound, default) == IF bound = <<>> THEN default ELSE bound[1].value.val
ItemName(item) == IF item.name # NoName THEN item.name.column
                  ELSE IF item.expr.kind = "column" THEN item.expr.column ELSE "?"

CutOff(select, items, pairs) ==
  LET skip == NumberOf(select.offset, 0)
      last == IF select.limit = <<>> THEN Len(pairs) ELSE skip + NumberOf(select.limit, 0)
  IN  Asked(TRUE, [k \in DOMAIN items |-> ItemName(items[k])], pairs,
            skip, IF last > Len(pairs) THEN Len(pairs) ELSE last)

\* Units in the order of their first rows: windows tell equal rows apart by it.
InOrder(units, from) ==
  LET unitOf(i) == {unit \in units : unit # {} /\ First(unit) = i}
      firsts == Pick([i \in DOMAIN from.rows |-> i], {i \in DOMAIN from.rows : unitOf(i) # {}})
  IN  IF units = {{}} THEN <<{}>> ELSE [k \in DOMAIN firsts |-> CHOOSE unit \in unitOf(firsts[k]) : TRUE]

OverFrom(select, from, items) ==
  IF from.legal /\ SelectLegal(select, items, from.columns)
  THEN CutOff(select, items, ListMeaning(select, items, from, Listed(InOrder(Units(select, from), from))))
  ELSE Nothing

\* The rows between skip and last; where ORDER BY leaves a choice, some of them.
Taken(asked) ==
  LET order == Ranked(asked.weights)
  IN  [k \in 1 .. (IF asked.last < asked.skip THEN 0 ELSE asked.last - asked.skip) |-> asked.rows[order[asked.skip + k]]]

Aliased(asked, alias) ==
  Relation(asked.legal, [k \in DOMAIN asked.columns |-> Name(alias, asked.columns[k])], Taken(asked))

RECURSIVE SelectMeaning(_, _)

RefMeaning(ref, ctes) ==
  LET named == Named(ctes, ref.name)
      k == CHOOSE n \in named : \A m \in named : m <= n
      inner == IF ref.subquery # <<>> THEN ref.subquery[1] ELSE ctes[k].select
      known == IF ref.subquery # <<>> THEN ctes ELSE SubSeq(ctes, 1, k - 1)
  IN  IF ref.subquery # <<>> \/ named # {} THEN Aliased(SelectMeaning(inner, known), RefAlias(ref))
      ELSE IF ref.name \in DOMAIN Columns
           THEN Relation(TRUE, [i \in DOMAIN Columns[ref.name] |-> Name(RefAlias(ref), Columns[ref.name][i])],
                         Contents[ref.name])
      ELSE NoRelation

FromMeaning(select, ctes) ==
  LET first == IF select.from = <<>> THEN Relation(TRUE, <<>>, <<(<<>>)>>) ELSE RefMeaning(select.from[1], ctes)
  IN  FoldLeft(LAMBDA left, join : JoinMeaning(join, left, RefMeaning(join.table, ctes)), first, select.joins)

OverRelation(select, from) == OverFrom(select, from, ItemsOf(select, from))
SelectMeaning(select, ctes) == OverRelation(select, FromMeaning(select, ctes))

SetOpMeaning(query, left, right) ==
  LET tuples(asked) == [k \in DOMAIN Taken(asked) |-> Tuple(Taken(asked)[k], <<>>)]
      rows == Rows(SetMeaning(query.op, query.all, Listed(tuples(left)), Listed(tuples(right))))
  IN  IF left.legal /\ right.legal
      THEN Asked(TRUE, left.columns, [k \in DOMAIN rows |-> <<rows[k], <<>>>>], 0, Len(rows))
      ELSE Nothing

RECURSIVE MeaningWith(_, _)
MeaningWith(query, ctes) ==
  IF query.kind = "select" THEN SelectMeaning(query, ctes)
  ELSE SetOpMeaning(query, MeaningWith(query.left, ctes), SelectMeaning(query.right, ctes))

\* What the query asks for.
QueryAsks(query) == MeaningWith(query, With(query))

-----------------------------------------------------------------------------
TimesIn(rows, row) == Cardinality({k \in DOMAIN rows : rows[k] = row})

\* Rows of one weight stand at certain places of the whole order; those that the
\* stretch from skip to last has taken of them are among them, as often or less.
Fits(asked, rows) ==
  LET weights == ToSet(asked.weights)
      before(w) == Cardinality({k \in DOMAIN asked.weights : Lower(asked.weights[k], w)})
      alike(w) == SelectSeq([k \in DOMAIN asked.rows |-> k], LAMBDA k : asked.weights[k] = w)
      full(w) == [k \in DOMAIN alike(w) |-> asked.rows[alike(w)[k]]]
      places(w) == {k \in DOMAIN rows : asked.skip + k - before(w) \in DOMAIN alike(w)}
      given(w) == Pick(rows, places(w))
  IN  /\ Len(rows) = IF asked.last < asked.skip THEN 0 ELSE asked.last - asked.skip
      /\ \A w \in weights : \A k \in places(w) :
           TimesIn(given(w), rows[k]) <= TimesIn(full(w), rows[k])
=============================================================================
