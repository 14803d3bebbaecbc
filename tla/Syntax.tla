------------------------------- MODULE Syntax -------------------------------
(***************************************************************************)
(* Queries as the parser hands them over (ast/nodes.go): SELECT statements *)
(* and their set operations.  WITH stands before the first SELECT of a     *)
(* query only, its queries are SELECTs, and subqueries stand in FROM only. *)
(* <<>> is what is not there: a clause, a condition, a FROM.               *)
(***************************************************************************)
EXTENDS Windows, Expressions

\* A table or a common table expression, or a derived table.
TableRef(name, alias) == [name |-> name, alias |-> alias, subquery |-> <<>>]
Derived(select, alias) == [name |-> "", alias |-> alias, subquery |-> <<select>>]
RefAlias(ref) == IF ref.alias = "" THEN ref.name ELSE ref.alias

JoinOn(type, ref, cond) ==
  [type |-> type, table |-> ref, cond |-> <<cond>>, using |-> <<>>, natural |-> FALSE]
CrossJoin(ref) == [type |-> "cross", table |-> ref, cond |-> <<>>, using |-> <<>>, natural |-> FALSE]
JoinUsing(type, ref, columns) ==
  [type |-> type, table |-> ref, cond |-> <<>>, using |-> columns, natural |-> FALSE]
NaturalJoin(type, ref) ==
  [type |-> type, table |-> ref, cond |-> <<>>, using |-> <<>>, natural |-> TRUE]

CTE(name, select) == [name |-> name, select |-> select]

\* SELECT columns FROM from; the other clauses are set with EXCEPT.
Select(columns, from) ==
  [kind |-> "select", ctes |-> <<>>, distinct |-> FALSE, columns |-> columns, from |-> <<from>>,
   joins |-> <<>>, where |-> <<>>, groupBy |-> <<>>, having |-> <<>>, orderBy |-> <<>>,
   limit |-> <<>>, offset |-> <<>>]
Combination(op, all, left, right) ==
  [kind |-> "setop", op |-> op, all |-> all, left |-> left, right |-> right]

\* The tables of FROM and JOIN, in their order.
TableRefs(select) == select.from \o [k \in DOMAIN select.joins |-> select.joins[k].table]

\* The WITH of a query, which stands before its first SELECT.
RECURSIVE With(_)
With(query) == IF query.kind = "setop" THEN With(query.left) ELSE query.ctes

\* The query of the last common table expression of that name.
Named(ctes, name) == {k \in DOMAIN ctes : ctes[k].name = name}
CteSelect(ctes, name) ==
  ctes[CHOOSE k \in Named(ctes, name) : \A j \in Named(ctes, name) : j <= k].select

-----------------------------------------------------------------------------
\* The aggregates that analyzer and builder both know and the executor computes.
Aggregates == {"COUNT", "SUM", "MIN", "MAX"}

\* containsAggregate and exprHasAggregate: a window function is none.
RECURSIVE HasAggregate(_)
HasAggregate(e) ==
  e.kind = "call" \/ (e.kind # "over" /\ \E k \in DOMAIN Parts(e) : HasAggregate(Parts(e)[k]))

\* containsWindowFunc
RECURSIVE HasWindow(_)
HasWindow(e) == e.kind = "over" \/ \E k \in DOMAIN Parts(e) : HasWindow(Parts(e)[k])

\* The columns an expression names.
RECURSIVE ColumnRefs(_)
ColumnRefs(e) ==
  IF e.kind = "column" THEN {e} ELSE UNION {ColumnRefs(Parts(e)[k]) : k \in DOMAIN Parts(e)}
=============================================================================
