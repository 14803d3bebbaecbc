------------------------------ MODULE Analyzer ------------------------------
(***************************************************************************)
(* internal/analyzer/analyzer.go: the tables and columns of a query are    *)
(* looked up, * is written out, and queries that cannot be planned are     *)
(* refused.  The code writes what it finds into the query; here Analyze    *)
(* returns [ok, query], the query with its columns resolved.               *)
(*                                                                         *)
(* Names are lower case: the code compares them without their case.        *)
(***************************************************************************)
EXTENDS Syntax

Accepted(query) == [ok |-> TRUE, query |-> query]
Refused(query) == [ok |-> FALSE, query |-> query]

-----------------------------------------------------------------------------
(* A scope is a function from aliases to sequences of column names.          *)

Holders(scope, column) == {alias \in DOMAIN scope : column \in ToSet(scope[alias])}

\* The tables a column may mean: resolveColumn wants exactly one.
Candidates(ref, scope) ==
  IF ref.table = "" THEN Holders(scope, ref.column) ELSE Holders(scope, ref.column) \intersect {ref.table}

\* Mutant: the first of several tables is taken.
ResolvableFirst(ref, scope) == Candidates(ref, scope) # {}

Resolvable(ref, scope) == Cardinality(Candidates(ref, scope)) = 1

\* Where aggregates are not allowed: PARTITION BY and ORDER BY of every window,
\* and the whole expression unless allowAgg.
RECURSIVE AggregatesFit(_, _)
AggregatesFit(e, allowAgg) ==
  /\ e.kind = "call" => allowAgg
  /\ \A k \in DOMAIN Parts(e) :
       AggregatesFit(Parts(e)[k], IF e.kind = "over" THEN k <= Len(e.args) ELSE allowAgg)

CanResolve(e, scope, allowAgg) ==
  AggregatesFit(e, allowAgg) /\ \A ref \in ColumnRefs(e) : Resolvable(ref, scope)

CanResolveAll(exprs, scope, allowAgg) ==
  \A k \in DOMAIN exprs : CanResolve(exprs[k], scope, allowAgg)

\* resolveExpr
RECURSIVE Resolved(_, _)
Resolved(e, scope) ==
  IF e.kind = "column"
  THEN [e EXCEPT !.resolved = CHOOSE alias \in Candidates(e, scope) : TRUE]
  ELSE WithParts(e, Listed([k \in DOMAIN Parts(e) |-> Resolved(Parts(e)[k], scope)]))

ResolvedAll(exprs, scope) == Listed([k \in DOMAIN exprs |-> Resolved(exprs[k], scope)])

-----------------------------------------------------------------------------
(* The SELECT list.                                                          *)

\* The columns of all tables, in the order of FROM and JOIN.
StarItems(select, scope) ==
  LET refs == TableRefs(select)
      ofRef(ref) == [k \in DOMAIN scope[RefAlias(ref)] |->
                       Item(Col(RefAlias(ref), scope[RefAlias(ref)][k]), NoName)]
  IN  FlattenSeq([k \in DOMAIN refs |-> ofRef(refs[k])])

\* expandStar
Expanded(select, scope) ==
  FlattenSeq([k \in DOMAIN select.columns |->
    IF select.columns[k].expr = Star THEN StarItems(select, scope) ELSE <<select.columns[k]>>])

\* selectColName; the column of a CTE that is called so is not always found again.
LowerFunction == [COUNT |-> "count", SUM |-> "sum", MIN |-> "min", MAX |-> "max"]
SelectColName(item, k) ==
  IF item.name # NoName THEN item.name.column
  ELSE CASE item.expr.kind = "column" -> item.expr.column
         [] item.expr.kind = "call" -> LowerFunction[item.expr.fn]
         [] OTHER -> "col" \o ToString(k - 1)

\* extractSelectColumns, when * has been written out.
SelectColumns(select) == [k \in DOMAIN select.columns |-> SelectColName(select.columns[k], k)]

\* Aggregates and other items stand together only over groups, and then a column
\* must be one that the rows are grouped by: its bare name is enough.
GroupedByName(select, ref) ==
  \E k \in DOMAIN select.groupBy :
    select.groupBy[k].kind = "column" /\ select.groupBy[k].column = ref.column

ListFitsGroups(select) ==
  LET hasAgg == \E k \in DOMAIN select.columns : HasAggregate(select.columns[k].expr)
      Plain(k) == ~HasAggregate(select.columns[k].expr)
  IN  hasAgg => \A k \in DOMAIN select.columns : Plain(k) =>
        /\ select.groupBy # <<>>
        /\ select.columns[k].expr.kind = "column" => GroupedByName(select, select.columns[k].expr)

\* A bare name in ORDER BY that is an alias of the list is not resolved.
IsAlias(e, columns) ==
  e.kind = "column" /\ e.table = "" /\ \E k \in DOMAIN columns : columns[k].name = Name("", e.column)

-----------------------------------------------------------------------------
(* analyzeSelect.  ctes are the queries of WITH, and busy those of them that *)
(* are being looked into.                                                    *)

Exprs(items) == [k \in DOMAIN items |-> items[k].expr]
JoinConds(select) == FlattenSeq([k \in DOMAIN select.joins |-> select.joins[k].cond])

CanAnalyze(select, scope, columns) ==
  LET sortKeys == SelectSeq(Exprs(select.orderBy), LAMBDA e : ~IsAlias(e, columns))
      plain == JoinConds(select) \o select.where \o select.groupBy \o select.limit \o select.offset
  IN  /\ CanResolveAll(plain, scope, FALSE)
      /\ CanResolveAll(select.having \o Exprs(columns) \o sortKeys, scope, TRUE)
      /\ \A k \in DOMAIN select.where : ~HasWindow(select.where[k])
      /\ ListFitsGroups([select EXCEPT !.columns = columns])

Annotated(select, scope, columns) ==
  LET ofJoin(join) == [join EXCEPT !.cond = ResolvedAll(@, scope)]
      ofSpec(spec) == IF IsAlias(spec.expr, columns) THEN spec
                      ELSE [spec EXCEPT !.expr = Resolved(@, scope)]
  IN  [select EXCEPT
         !.columns = [k \in DOMAIN columns |-> Item(Resolved(columns[k].expr, scope), columns[k].name)],
         !.joins = [k \in DOMAIN @ |-> ofJoin(@[k])],
         !.where = ResolvedAll(@, scope),
         !.groupBy = ResolvedAll(@, scope),
         !.having = ResolvedAll(@, scope),
         !.orderBy = [k \in DOMAIN @ |-> ofSpec(@[k])]]

AnalyzeIn(select, scope, columns) ==
  IF CanAnalyze(select, scope, columns) THEN Accepted(Annotated(select, scope, columns))
  ELSE Refused(select)

RECURSIVE AnalyzeSelect(_, _, _)

IsCte(ref, ctes) == ref.subquery = <<>> /\ Named(ctes, ref.name) # {}
AnalyzeCte(ref, ctes, busy) == AnalyzeSelect(CteSelect(ctes, ref.name), ctes, busy \union {ref.name})

\* resolveTableRef: whether the table is there, and the columns it has.  Nothing
\* is known of the columns of a derived table.
RefFound(ref, ctes, busy) ==
  IF ref.subquery # <<>> THEN AnalyzeSelect(ref.subquery[1], ctes, busy).ok
  ELSE IF IsCte(ref, ctes) THEN ref.name \notin busy /\ AnalyzeCte(ref, ctes, busy).ok
  ELSE ref.name \in DOMAIN Columns

RefColumns(ref, ctes, busy) ==
  IF ref.subquery # <<>> THEN <<>>
  ELSE IF IsCte(ref, ctes) THEN SelectColumns(AnalyzeCte(ref, ctes, busy).query)
  ELSE Columns[ref.name]

\* A second table of the same alias takes the place of the first.
Scope(refs, ctes, busy) ==
  LET aliases == {RefAlias(refs[k]) : k \in DOMAIN refs}
      last(alias) == CHOOSE k \in DOMAIN refs :
                       RefAlias(refs[k]) = alias /\ \A j \in DOMAIN refs : RefAlias(refs[j]) = alias => j <= k
  IN  [alias \in aliases |-> RefColumns(refs[last(alias)], ctes, busy)]

\* The query of a derived table is analyzed in its place.
RefAnalyzed(ref, ctes, busy) ==
  IF ref.subquery = <<>> THEN ref ELSE [ref EXCEPT !.subquery = <<AnalyzeSelect(@[1], ctes, busy).query>>]

RefsAnalyzed(select, ctes, busy) ==
  [select EXCEPT !.from = [k \in DOMAIN @ |-> RefAnalyzed(@[k], ctes, busy)],
                 !.joins = [k \in DOMAIN @ |-> [@[k] EXCEPT !.table = RefAnalyzed(@, ctes, busy)]]]

AnalyzeOver(select, scope) == AnalyzeIn(select, scope, Expanded(select, scope))

AnalyzeSelect(select, ctes, busy) ==
  IF \E k \in DOMAIN TableRefs(select) : ~RefFound(TableRefs(select)[k], ctes, busy) THEN Refused(select)
  ELSE AnalyzeOver(RefsAnalyzed(select, ctes, busy), Scope(TableRefs(select), ctes, busy))

-----------------------------------------------------------------------------
\* The queries of WITH, each as the analysis of a reference to it leaves it.
CtesAnalyzed(ctes) ==
  [k \in DOMAIN ctes |-> [ctes[k] EXCEPT !.select = AnalyzeSelect(@, ctes, {ctes[k].name}).query]]

RECURSIVE AnalyzeStatement(_, _)
AnalyzeStatement(query, ctes) ==
  IF query.kind = "select"
  THEN LET here == AnalyzeSelect(query, ctes, {})
       IN  [here EXCEPT !.query.ctes = CtesAnalyzed(@)]
  ELSE LET left == AnalyzeStatement(query.left, ctes)
           right == AnalyzeSelect(query.right, ctes, {})
       IN  [ok |-> left.ok /\ right.ok,
            query |-> [query EXCEPT !.left = left.query, !.right = right.query]]

\* Analyze
Analyzed(query) == AnalyzeStatement(query, With(query))
=============================================================================
