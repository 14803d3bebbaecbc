-------------------------- MODULE StatementAnswers --------------------------
(***************************************************************************)
(* What the statements of Statements promise.  Meaning says, without       *)
(* buffers, counters or calls, which tuples a plan stands for when its     *)
(* scans found what they found: SQL's own definitions, on values and not   *)
(* on how they read.  fails: an error lies behind the tuples.  opens:      *)
(* there are tuples at all; an error below an operator that reads all its  *)
(* input leaves none.                                                      *)
(***************************************************************************)
EXTENDS Statements, SqlMeaning

Stream(opens, tuples, fails) == [opens |-> opens, tuples |-> tuples, fails |-> fails]
Closed == Stream(FALSE, <<>>, TRUE)

\* The tuples before the first that is Bad.
Before(tuples, Bad(_)) ==
  LET bad == {i \in DOMAIN tuples : Bad(tuples[i])}
  IN  IF bad = {} THEN tuples ELSE SubSeq(tuples, 1, First(bad) - 1)

-----------------------------------------------------------------------------
FoundBy(s, n) ==
  LET seen == {i \in DOMAIN scanned[s] : scanned[s][i].node = n}
  IN  IF seen = {} THEN Closed ELSE Stream(TRUE, scanned[s][First(seen)].tuples, FALSE)

\* The tuples of an operator that reads all its input in Open.
Whole(child, tuples) == IF child.opens /\ ~child.fails THEN Stream(TRUE, tuples, FALSE) ELSE Closed

Width(s, n) == Len(ops[s][n].schema)

\* One of these expressions has no value on one of the tuples.
SomeFails(exprs, tuples) ==
  \E k \in DOMAIN exprs : \E i \in DOMAIN tuples : IsError(ValueOf(exprs[k], tuples[i]))

RECURSIVE Meaning(_, _)
Meaning(s, n) ==
  LET node == script[s].nodes[n]
      child == Meaning(s, node.kids[1])
      other == Meaning(s, node.kids[2])
      ts == child.tuples
      schema == ops[s][n].schema
      FilterFails(t) == IsError(ValueOf(node.pred, t))
      Holds(t) == IsTruthy(ValueOf(node.pred, t))
      ItemFails(t) == \E k \in DOMAIN node.items : IsError(ValueOf(node.items[k].expr, t))
      Selected(Bad(_)) == Stream(child.opens, Before(ts, Bad), child.fails \/ Before(ts, Bad) # ts)
      skip == IF node.offset = <<>> THEN 0 ELSE Constant(node.offset[1]).val
      limit == IF node.count = <<>> THEN Len(ts) ELSE Constant(node.count[1]).val
      bounded == ValidBound(node.count) /\ ValidBound(node.offset)
  IN  CASE node.kind = "scan" -> FoundBy(s, n)
        [] node.kind = "constant" -> Stream(TRUE, <<Tuple(<<>>, <<>>)>>, FALSE)
        [] node.kind = "empty" -> Stream(TRUE, <<>>, FALSE)
        [] node.kind = "filter" -> [Selected(FilterFails) EXCEPT !.tuples = SelectSeq(@, Holds)]
        [] node.kind = "project" ->
             [Selected(ItemFails) EXCEPT !.tuples = [i \in DOMAIN @ |->
                Tuple([k \in DOMAIN node.items |-> ValueOf(node.items[k].expr, @[i])], schema)]]
        [] node.kind = "distinct" ->
             [child EXCEPT !.tuples = Pick(@, {i \in DOMAIN @ : CopiesUpTo(@, i) = 1})]
        [] node.kind = "limit" ->
             IF ~child.opens \/ ~bounded THEN Closed
             ELSE Stream(TRUE, Pick(ts, {i \in DOMAIN ts : skip < i /\ i <= skip + limit}),
                         child.fails /\ (node.count = <<>> \/ (limit > 0 /\ Len(ts) < skip + limit)))
        [] node.kind = "sort" ->
             IF SomeFails([k \in DOMAIN node.specs |-> node.specs[k].expr], ts) THEN Closed
             ELSE Whole(child, SortMeaning(node.specs, ts))
        [] node.kind = "setop" ->
             IF ~child.opens \/ child.fails \/ Width(s, node.kids[1]) # Width(s, node.kids[2]) THEN Closed
             ELSE Whole(other, SetMeaning(node.op, node.all, ts, other.tuples))
        [] node.kind = "aggregate" ->
             LET groups == GroupMeaning(node, ts, schema)
             IN  IF \E g \in DOMAIN groups : HasError(groups[g].row) THEN Closed ELSE Whole(child, groups)
        [] node.kind = "window" ->
             LET wide == WindowsMeaning(node.windows, ts, schema)
             IN  IF \/ \E w \in Range(node.windows) : SomeFails(w.partition \o OrderExprs(w), ts)
                    \/ \E i \in DOMAIN wide : HasError(wide[i].row)
                 THEN Closed ELSE Whole(child, wide)
        [] node.kind = "explain" ->
             IF node.analyze THEN Whole(child, <<Tuple(<<IntValue(Len(ts))>>, schema)>>)
             ELSE Stream(TRUE, <<>>, FALSE)
        [] node.kind = "insert" ->
             LET fails == \/ ops[s][n].heap = ""   \* its table was gone
                          \/ node.kids # <<>> /\ child.fails
                          \/ \E k \in DOMAIN node.values : \E i \in DOMAIN node.values[k] :
                               IsError(Constant(node.values[k][i]))
                 count == IF node.kids # <<>> THEN Len(ts) ELSE Len(node.values)
             IN  Stream(node.kids # <<>> => child.opens, IF fails THEN <<>> ELSE <<Affected(count)>>, fails)
        [] node.kind \in {"update", "delete"} ->
             LET found == FoundBy(s, n)
                 where == IF node.where = <<>> THEN Lit(TrueValue) ELSE node.where[1]
                 holds == {i \in DOMAIN found.tuples : IsTruthy(ValueOf(where, found.tuples[i]))}
                 AssignFails(t) == /\ node.kind = "update"
                                   /\ \E k \in DOMAIN node.assigns :
                                        /\ Name(node.table, node.assigns[k].column) \in Range(t.schema)
                                        /\ IsError(ValueOf(node.assigns[k].value, t))
                 fails == \/ ~found.opens
                          \/ \E i \in DOMAIN found.tuples : IsError(ValueOf(where, found.tuples[i]))
                          \/ \E i \in holds : AssignFails(found.tuples[i])
             IN  Stream(TRUE, IF fails THEN <<>> ELSE <<Affected(Cardinality(holds))>>, fails)

Answering == {"scan", "constant", "empty", "insert", "update", "delete", "explain"} \union Streaming \union Draining

-----------------------------------------------------------------------------
(* Properties.                                                               *)

\* A statement that answers has answered what its plan means, in that order; one
\* that reports an error has met one, and has found no row that is wrong before
\* it.  The operators are those of Volcano (executor.go:27-73 and the operators).
Agrees(s, meaning) ==
  /\ pc[s] = "answered" =>
       meaning.opens /\ ~meaning.fails /\ Rows(answer[s]) = Rows(meaning.tuples)
  /\ pc[s] = "failed" =>
       meaning.opens /\ meaning.fails /\ Rows(answer[s]) = Rows(meaning.tuples)
  /\ pc[s] = "expired" => meaning.opens /\ IsPrefix(Rows(answer[s]), Rows(meaning.tuples))
  /\ pc[s] = "open failed" => ~meaning.opens

AnswersMeanPlans ==
  \A s \in Stmt :
    pc[s] \in {"answered", "failed", "expired", "open failed"} /\ script[s].nodes[1].kind \in Answering =>
      Agrees(s, Meaning(s, 1))

\* What an INSERT or a DELETE answers is the number of rows it has changed: when all
\* have answered, these numbers account for the length of every heap that was there
\* from the start, also when statements ran at once (insert.go:64-87, delete.go:43-79).
Changed(s, t, kind) ==
  IF pc[s] = "answered" /\ script[s].nodes[1].kind = kind /\ script[s].nodes[1].table = t
  THEN answer[s][1].row[1].val ELSE 0

CountsAddUp ==
  (\A s \in Stmt : pc[s] \in {"answered", "absent"}) =>
    \A t \in DOMAIN Contents \intersect DOMAIN storage : storage[t] = t =>
      Len(heap[t]) = Len(Contents[t]) + SumOver(Stmt, LAMBDA s : Changed(s, t, "insert"))
                                      - SumOver(Stmt, LAMBDA s : Changed(s, t, "delete"))

\* A statement answers what its plan means, of what it has read and has written.
AnswersMeanThePlan == AnswersMeanPlans /\ CountsAddUp

\* Every statement ends: no operator waits for a row for ever.
StatementsEnd == \A s \in Stmt : <>Ended(s)
=============================================================================
