---------------------------- MODULE SqlMeaning ------------------------------
(***************************************************************************)
(* What SQL means by ORDER BY, the set operations, GROUP BY and windows,    *)
(* said once for whole sequences of tuples: by numbers of copies, weights   *)
(* and sets of places, and not by the loops, buckets and sorts of Tuples    *)
(* and Windows, whose results are compared with it.                         *)
(***************************************************************************)
EXTENDS Windows, Expressions

Copies(tuples, row) == Cardinality({i \in DOMAIN tuples : tuples[i].row = row})
CopiesUpTo(tuples, i) == Copies(SubSeq(tuples, 1, i), tuples[i].row)

-----------------------------------------------------------------------------
(* An ORDER BY key as a number: NULL is beyond every value.                  *)

Weight(spec, v) ==
  LET far == 1000
      first == IF spec.nulls = "default" THEN ~spec.ascending ELSE spec.nulls = "first"
  IN  IF IsNull(v) THEN IF first THEN -far ELSE far
      ELSE IF spec.ascending THEN v.val ELSE -v.val

Weights(specs, t) == Listed([k \in DOMAIN specs |-> Weight(specs[k], ValueOf(specs[k].expr, t))])

Lower(v, w) == \E k \in DOMAIN v : v[k] < w[k] /\ \A j \in 1 .. k - 1 : v[j] = w[j]

\* The places of seq of weights in their order, equal ones as they come.
Ranked(weights) ==
  Listed([p \in DOMAIN weights |-> CHOOSE i \in DOMAIN weights :
     Cardinality({j \in DOMAIN weights : Lower(weights[j], weights[i])
                                         \/ (weights[j] = weights[i] /\ j < i)}) = p - 1])

SortMeaning(specs, tuples) ==
  LET order == Ranked(Listed([i \in DOMAIN tuples |-> Weights(specs, tuples[i])]))
  IN  Listed([p \in DOMAIN order |-> tuples[order[p]]])

-----------------------------------------------------------------------------
SetMeaning(op, all, left, right) ==
  LET both == left \o right
      other(i) == Copies(right, left[i].row)
  IN  CASE op = "UNION" -> Pick(both, {i \in DOMAIN both : all \/ CopiesUpTo(both, i) = 1})
        [] op = "INTERSECT" ->
             Pick(left, {i \in DOMAIN left : CopiesUpTo(left, i) <= IF all THEN other(i)
                                             ELSE IF other(i) > 0 THEN 1 ELSE 0})
        [] op = "EXCEPT" ->
             Pick(left, {i \in DOMAIN left : IF all THEN CopiesUpTo(left, i) > other(i)
                                             ELSE other(i) = 0 /\ CopiesUpTo(left, i) = 1})

SumOver(places, val(_)) == MapThenFoldSet(LAMBDA a, b : a + b, 0, val, LAMBDA S : CHOOSE x \in S : TRUE, places)

\* The aggregate of the values at some places; distinct ones count once.  An argument
\* that cannot be evaluated leaves no value, but its error.
AggMeaning(fn, distinct, vals, places) ==
  LET failing == {vals[i] : i \in places} \intersect Errors
      known == {i \in places : ~IsNull(vals[i])}
      counted == IF distinct THEN {i \in known : \A j \in known : vals[j] = vals[i] => i <= j} ELSE known
      numbers == {vals[i].val : i \in known}
  IN  IF failing # {} THEN CHOOSE v \in failing : TRUE
      ELSE CASE fn = "COUNT" -> IntValue(Cardinality(counted))
             [] fn = "SUM" -> IF known = {} THEN NullValue ELSE IntValue(SumOver(counted, LAMBDA i : vals[i].val))
             [] fn = "MIN" -> IF known = {} THEN NullValue
                              ELSE IntValue(CHOOSE n \in numbers : \A m \in numbers : n <= m)
             [] fn = "MAX" -> IF known = {} THEN NullValue
                              ELSE IntValue(CHOOSE n \in numbers : \A m \in numbers : m <= n)

GroupsMeaning(node, tuples, keys, schema) ==
  LET members(i) == {j \in DOMAIN keys : keys[j] = keys[i]}
      value(agg, places) ==
        IF agg.arg = <<>> THEN IntValue(Cardinality(places))
        ELSE AggMeaning(agg.fn, agg.distinct,
                        Listed([j \in DOMAIN tuples |-> ValueOf(agg.arg[1], tuples[j])]), places)
      row(vals, places) == Tuple(vals \o [k \in DOMAIN node.aggs |-> value(node.aggs[k], places)], schema)
      order == SetToSortSeq({i \in DOMAIN keys : \A j \in members(i) : i <= j}, <)
  IN  IF node.groupBy = <<>> THEN <<row(<<>>, DOMAIN tuples)>>
      ELSE [g \in DOMAIN order |-> row(keys[order[g]], members(order[g]))]

GroupMeaning(node, tuples, schema) ==
  LET key(t) == Listed([k \in DOMAIN node.groupBy |-> ValueOf(node.groupBy[k], t)])
  IN  GroupsMeaning(node, tuples, Listed([i \in DOMAIN tuples |-> key(tuples[i])]), schema)

-----------------------------------------------------------------------------
(* Windows.  A frame is the set of the partition's rows between two bounds;  *)
(* the default is RANGE BETWEEN UNBOUNDED PRECEDING AND CURRENT ROW: the     *)
(* rows before this one and its peers, all rows when nothing orders them.    *)

Ahead(places, weight, q) ==
  {p \in places : Lower(weight[p], weight[q]) \/ (weight[p] = weight[q] /\ p < q)}
PlaceOf(places, weight, q) == Cardinality(Ahead(places, weight, q)) + 1

FrameMeaning(w, part, weight, r) ==
  LET behind(q) == PlaceOf(part, weight, q) - PlaceOf(part, weight, r)
      reaches(bound, q, sign) ==
        CASE bound.kind = "preceding" -> sign * (behind(q) + bound.n) >= 0
          [] bound.kind = "following" -> sign * (behind(q) - bound.n) >= 0
          [] bound.kind = "current" ->
               sign * behind(q) >= 0 \/ (w.frame[1].mode = "RANGE" /\ weight[q] = weight[r])
          [] OTHER -> TRUE
  IN  IF w.frame = <<>> THEN {q \in part : behind(q) <= 0 \/ weight[q] = weight[r]}
      ELSE {q \in part : reaches(w.frame[1].start, q, 1) /\ reaches(w.frame[1].end, q, -1)}

\* The row at place k of some rows, if there is one.
RowAt(places, weight, k) == {q \in places : PlaceOf(places, weight, q) = k}

TileMeaning(total, tiles, place) ==
  CHOOSE b \in 1 .. tiles :
    LET upTo(n) == n * (total \div tiles) + IF n < total % tiles THEN n ELSE total % tiles
    IN  upTo(b - 1) < place /\ place <= upTo(b)

WindowMeaning(w, tuples, weight, part, frame, r) ==
  LET arg(k) == w.args[k].value.val
      place == PlaceOf(part, weight, r)
      below == {weight[q] : q \in {p \in part : Lower(weight[p], weight[r])}}
      found == CASE w.fn = "LAG" -> RowAt(part, weight, place - arg(2))
                 [] w.fn = "LEAD" -> RowAt(part, weight, place + arg(2))
                 [] w.fn = "FIRST_VALUE" -> RowAt(frame, weight, 1)
                 [] w.fn = "LAST_VALUE" -> RowAt(frame, weight, Cardinality(frame))
                 [] w.fn = "NTH_VALUE" -> RowAt(frame, weight, arg(2))
  IN  CASE w.fn = "ROW_NUMBER" -> IntValue(place)
        [] w.fn = "RANK" -> IntValue(Cardinality({q \in part : weight[q] \in below}) + 1)
        [] w.fn = "DENSE_RANK" -> IntValue(Cardinality(below) + 1)
        [] w.fn = "NTILE" -> IntValue(TileMeaning(Cardinality(part), arg(1), place))
        [] w.fn \in {"SUM", "COUNT", "MIN", "MAX"} ->
             IF w.args = <<>> THEN IntValue(Cardinality(frame))
             ELSE AggMeaning(w.fn, FALSE, [q \in DOMAIN tuples |-> ValueOf(w.args[1], tuples[q])], frame)
        [] OTHER -> IF found # {} THEN ValueOf(w.args[1], tuples[CHOOSE q \in found : TRUE])
                    ELSE IF w.fn \in {"LAG", "LEAD"} THEN w.args[3].value ELSE NullValue

InPart(w, tuples, weight, part, r) ==
  WindowMeaning(w, tuples, weight, part, FrameMeaning(w, part, weight, r), r)

ColumnMeaning(w, tuples, weight, keys) ==
  Listed([r \in DOMAIN tuples |-> InPart(w, tuples, weight, {q \in DOMAIN keys : keys[q] = keys[r]}, r)])

KeyOf(exprs, t) == Listed([k \in DOMAIN exprs |-> ValueOf(exprs[k], t)])

WindowsMeaning(windows, tuples, schema) ==
  LET column(w) == ColumnMeaning(w, tuples, Listed([r \in DOMAIN tuples |-> Weights(w.order, tuples[r])]),
                                 Listed([r \in DOMAIN tuples |-> KeyOf(w.partition, tuples[r])]))
      columns_ == Listed([k \in DOMAIN windows |-> column(windows[k])])
  IN  Listed([r \in DOMAIN tuples |->
         Tuple(tuples[r].row \o [k \in DOMAIN windows |-> columns_[k][r]], schema)])
=============================================================================
