----------------------------- MODULE Expressions ----------------------------
(***************************************************************************)
(* Expressions (ast/nodes.go), what they evaluate to on a row and its      *)
(* header (operators/expression.go), and how they print (ast/printer.go):  *)
(* EvalExpr and PrintExpr are the values a .cfg gives to the parameters    *)
(* Evaluated and Printed of Tuples.                                        *)
(***************************************************************************)
EXTENDS Tuples

Lit(v) == [kind |-> "literal", value |-> v]
\* A column as it is written; resolved is the table the analyzer has found.
Ref(table, column) == [kind |-> "column", table |-> table, column |-> column, resolved |-> ""]
Col(table, column) == [Ref(table, column) EXCEPT !.resolved = table]
Bin(op, left, right) == [kind |-> "binary", op |-> op, left |-> left, right |-> right]
Un(op, arg) == [kind |-> "unary", op |-> op, arg |-> arg]
IsNullExpr(arg) == [kind |-> "isnull", arg |-> arg, negated |-> FALSE]
InList(arg, list, negated) == [kind |-> "in", arg |-> arg, list |-> list, negated |-> negated]
Between(arg, low, high, negated) ==
  [kind |-> "between", arg |-> arg, low |-> low, high |-> high, negated |-> negated]
When(cond, result) == [cond |-> cond, result |-> result]
Case(whens, else) == [kind |-> "case", whens |-> whens, else |-> else]
WindowCall(fn, args, partition, order, frame) ==
  [kind |-> "over", fn |-> fn, args |-> args, partition |-> partition, order |-> order,
   frame |-> frame]
Star == [kind |-> "star"]

-----------------------------------------------------------------------------
\* The operands of an expression, and the expression with others.
Parts(e) ==
  CASE e.kind = "binary" -> <<e.left, e.right>>
    [] e.kind \in {"unary", "isnull"} -> <<e.arg>>
    [] e.kind = "between" -> <<e.arg, e.low, e.high>>
    [] e.kind = "in" -> <<e.arg>> \o e.list
    [] e.kind = "call" -> e.args
    [] e.kind = "case" ->
         FlattenSeq([k \in DOMAIN e.whens |-> <<e.whens[k].cond, e.whens[k].result>>]) \o <<e.else>>
    [] e.kind = "over" -> e.args \o e.partition \o [k \in DOMAIN e.order |-> e.order[k].expr]
    [] OTHER -> <<>>

WithParts(e, parts) ==
  CASE e.kind = "binary" -> [e EXCEPT !.left = parts[1], !.right = parts[2]]
    [] e.kind \in {"unary", "isnull"} -> [e EXCEPT !.arg = parts[1]]
    [] e.kind = "between" -> [e EXCEPT !.arg = parts[1], !.low = parts[2], !.high = parts[3]]
    [] e.kind = "in" -> [e EXCEPT !.arg = parts[1], !.list = Tail(parts)]
    [] e.kind = "call" -> [e EXCEPT !.args = parts]
    [] e.kind = "case" ->
         [e EXCEPT !.whens = [k \in DOMAIN @ |-> When(parts[2 * k - 1], parts[2 * k])],
                   !.else = parts[Len(parts)]]
    [] e.kind = "over" ->
         LET n == Len(e.args)
             m == n + Len(e.partition)
         IN  [e EXCEPT !.args = SubSeq(parts, 1, n), !.partition = SubSeq(parts, n + 1, m),
                       !.order = [k \in DOMAIN @ |-> [@[k] EXCEPT !.expr = parts[m + k]]]]
    [] OTHER -> e

-----------------------------------------------------------------------------
(* Evaluation                                                                *)

\* The three steps of lookupColumnInTuple: the table the analyzer has found, the
\* table as written if any or a name without one, and any table's column.
Lookup(ref, header, row) ==
  LET same == {i \in DOMAIN header : header[i].column = ref.column}
      exact == {i \in same : ref.resolved # "" /\ header[i].table = ref.resolved}
      own == {i \in same : ref.table = "" \/ header[i].table \in {ref.table, ""}}
      others == {i \in same : header[i].table # ""}
  IN  IF exact # {} THEN row[First(exact)]
      ELSE IF own # {} THEN row[First(own)]
      ELSE IF others # {} THEN row[First(others)]
      ELSE Unresolved

\* An item of the list that cannot be evaluated is passed over.
EvalIn(e, v, items) ==
  IF IsError(v) \/ IsNull(v) THEN v
  ELSE IF \E k \in DOMAIN items : Comparable(v, items[k]) /\ items[k].val = v.val
       THEN BoolValue(~e.negated)
  ELSE IF NullValue \in ToSet(items) THEN NullValue
  ELSE BoolValue(e.negated)

\* vs: the operand and its two bounds.
EvalBetween(e, vs) ==
  LET failing == {k \in 1 .. 3 : IsError(vs[k])}
  IN  IF failing # {} THEN vs[First(failing)]
      ELSE IF Comparable(vs[1], vs[2]) /\ Comparable(vs[1], vs[3])
           THEN BoolValue((vs[2].val <= vs[1].val /\ vs[1].val <= vs[3].val) # e.negated)
      ELSE NullValue

\* Aggregates and window functions have no value of their own: "unknown function".
RECURSIVE EvalExpr(_, _, _)
EvalExpr(e, header, row) ==
  CASE e.kind = "literal" -> e.value
    [] e.kind = "column" -> Lookup(e, header, row)
    [] e.kind = "binary" -> Binary(e.op, EvalExpr(e.left, header, row), EvalExpr(e.right, header, row))
    [] e.kind = "unary" -> Unary(e.op, EvalExpr(e.arg, header, row))
    [] e.kind = "isnull" ->
         LET v == EvalExpr(e.arg, header, row) IN IF IsError(v) THEN v ELSE BoolValue(IsNull(v) # e.negated)
    [] e.kind = "in" ->
         EvalIn(e, EvalExpr(e.arg, header, row), Listed([k \in DOMAIN e.list |-> EvalExpr(e.list[k], header, row)]))
    [] e.kind = "between" -> EvalBetween(e, Listed([k \in 1 .. 3 |-> EvalExpr(Parts(e)[k], header, row)]))
    [] e.kind = "case" ->
         LET conds == Listed([k \in DOMAIN e.whens |-> EvalExpr(e.whens[k].cond, header, row)])
             stops == {k \in DOMAIN conds : IsError(conds[k]) \/ IsTruthy(conds[k])}
         IN  IF stops = {} THEN EvalExpr(e.else, header, row)
             ELSE IF IsError(conds[First(stops)]) THEN conds[First(stops)]
             ELSE EvalExpr(e.whens[First(stops)].result, header, row)
    [] e.kind \in {"call", "over"} -> Unresolved

-----------------------------------------------------------------------------
(* Printing                                                                  *)

Dotted(table, column) == IF table = "" THEN column ELSE table \o "." \o column

PrintValue(v) ==
  IF IsNull(v) THEN "NULL"
  ELSE IF IsBool(v) THEN IF v = TrueValue THEN "TRUE" ELSE "FALSE" ELSE ToString(v.val)

Commas(texts) == FoldLeft(LAMBDA all, text : all \o ", " \o text, Head(texts), Tail(texts))

\* PrintExpr: a CASE is not spelled out, nor is DISTINCT.
RECURSIVE PrintExpr(_)
PrintExpr(e) ==
  LET parts == [k \in DOMAIN Parts(e) |-> PrintExpr(Parts(e)[k])]
      not == IF e.negated THEN "NOT " ELSE ""
  IN  CASE e.kind = "literal" -> PrintValue(e.value)
        [] e.kind = "column" -> Dotted(e.table, e.column)
        [] e.kind = "binary" -> "(" \o parts[1] \o " " \o e.op \o " " \o parts[2] \o ")"
        [] e.kind = "unary" -> "(" \o e.op \o " " \o parts[1] \o ")"
        [] e.kind = "isnull" -> parts[1] \o " IS " \o not \o "NULL"
        [] e.kind = "in" -> parts[1] \o " " \o not \o "IN (" \o Commas(Tail(parts)) \o ")"
        [] e.kind = "between" -> parts[1] \o " " \o not \o "BETWEEN " \o parts[2] \o " AND " \o parts[3]
        [] e.kind = "call" -> e.fn \o "(" \o (IF parts = <<>> THEN "*" ELSE Commas(parts)) \o ")"
        [] e.kind = "case" -> "CASE..."
        [] e.kind = "over" -> "<*ast.WindowFuncExpr>"

=============================================================================
