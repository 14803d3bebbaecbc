------------------------------- MODULE Windows ------------------------------
(***************************************************************************)
(* operators/window.go: the columns that WindowOp adds to the tuples it    *)
(* has buffered.  Each window splits the tuples into partitions, sorts     *)
(* each partition, and gives every row a value computed from the sorted    *)
(* partition.  Positions count from 1; the code counts from 0.             *)
(***************************************************************************)
EXTENDS Tuples

Panicked == [type |-> "error", val |-> 2]   \* an index or a slice out of range

Bound(kind, n) == [kind |-> kind, n |-> n]
Frame(mode, start, end) == <<[mode |-> mode, start |-> start, end |-> end]>>
NoFrame == <<>>

Window(fn, args, partition, order, frame, name) ==
  [fn |-> fn, args |-> args, partition |-> partition, order |-> order, frame |-> frame,
   name |-> name]

DisplayedKey(exprs, t) == Listed([k \in DOMAIN exprs |-> Display(ValueOrNull(exprs[k], t))])
OrderExprs(w) == [k \in DOMAIN w.order |-> w.order[k].expr]

-----------------------------------------------------------------------------
(* Partitions, as sequences of places in the buffer, and their order.        *)

PlacesByKey(keys) ==
  LET firsts == SetToSortSeq({r \in DOMAIN keys : \A q \in DOMAIN keys : keys[q] = keys[r] => r <= q}, <)
  IN  Listed([p \in DOMAIN firsts |-> SetToSortSeq({r \in DOMAIN keys : keys[r] = keys[firsts[p]]}, <)])

PartitionRows(w, tuples) ==
  PlacesByKey(Listed([r \in DOMAIN tuples |-> DisplayedKey(w.partition, tuples[r])]))

\* Unlike Sort, this comparator has no place for NULL: it compares with nothing.
KeyBefore(specs, vs, us) ==
  LET telling == {k \in DOMAIN specs : Ordered(vs[k], us[k]) /\ vs[k].val # us[k].val}
      k == First(telling)
  IN  telling # {} /\ IF specs[k].ascending THEN vs[k].val < us[k].val ELSE vs[k].val > us[k].val

OrderKey(specs, t) == Listed([k \in DOMAIN specs |-> ValueOrNull(specs[k].expr, t)])

WindowBefore(specs, t, u) == KeyBefore(specs, OrderKey(specs, t), OrderKey(specs, u))

SortPartition(w, tuples, part) ==
  LET smaller(i) == {j \in DOMAIN part : WindowBefore(w.order, tuples[part[j]], tuples[part[i]])}
  IN  SliceStable(Listed([i \in DOMAIN part |-> smaller(i)]), part)

-----------------------------------------------------------------------------
(* Peers, ranks and frames of place i in a sorted partition whose ORDER BY   *)
(* keys are keys.                                                            *)

RunStarts(keys) == {i \in DOMAIN keys : i = 1 \/ keys[i] # keys[i - 1]}

RankOf(keys, dense, i) ==
  LET before == {j \in RunStarts(keys) : j <= i}
  IN  IF dense THEN Cardinality(before) ELSE CHOOSE j \in before : \A k \in before : k <= j

ResolveBound(bound, i, n) ==
  CASE bound.kind = "unbounded preceding" -> 1
    [] bound.kind = "preceding" -> i - bound.n
    [] bound.kind = "current" -> i
    [] bound.kind = "following" -> i + bound.n
    [] bound.kind = "unbounded following" -> n

\* RANGE takes the current row's peers in, on the side whose bound is CURRENT ROW.
PeersFrom(keys, i) == CHOOSE j \in 1 .. i : (\A k \in j .. i : keys[k] = keys[i])
                                            /\ (j = 1 \/ keys[j - 1] # keys[i])
PeersTo(keys, i) == CHOOSE j \in i .. Len(keys) : (\A k \in i .. j : keys[k] = keys[i])
                                                  /\ (j = Len(keys) \/ keys[j + 1] # keys[i])

ResolveFrame(w, keys, i) ==
  LET n == Len(keys)
      frame == w.frame[1]
      peers == frame.mode = "RANGE" /\ w.order # <<>>
      start == IF peers /\ frame.start.kind = "current" THEN PeersFrom(keys, i)
               ELSE ResolveBound(frame.start, i, n)
      end == IF peers /\ frame.end.kind = "current" THEN PeersTo(keys, i)
             ELSE ResolveBound(frame.end, i, n)
  IN  IF w.frame = NoFrame THEN [start |-> 1, end |-> i]
      ELSE [start |-> IF start < 1 THEN 1 ELSE start, end |-> IF end > n THEN n ELSE end]

\* sortedIdxs[frame.start : frame.end+1]
CanSlice(frame) == frame.start <= frame.end + 1

-----------------------------------------------------------------------------
AggOf(w, inFrame, known) ==
  LET Plus(sum, v) == IF IsInt(v) THEN sum + v.val ELSE sum
      Lower(m, v) == IF IsNull(m) \/ Less(v, m) THEN v ELSE m
      Higher(m, v) == IF IsNull(m) \/ Less(m, v) THEN v ELSE m
  IN  CASE w.fn = "COUNT" -> IntValue(IF w.args = <<>> THEN Len(inFrame) ELSE Len(known))
        [] w.fn = "SUM" -> IF known = <<>> THEN NullValue ELSE IntValue(FoldLeft(Plus, 0, known))
        [] w.fn = "MIN" -> FoldLeft(Lower, ZeroValue, known)
        [] w.fn = "MAX" -> FoldLeft(Higher, ZeroValue, known)

WindowAgg(w, inFrame) ==
  AggOf(w, inFrame, SelectSeq([k \in DOMAIN inFrame |-> ValueOrNull(w.args[1], inFrame[k])],
                              LAMBDA v : ~IsNull(v)))

Argument(w, k, default) ==
  IF k > Len(w.args) THEN default
  ELSE LET v == Constant(w.args[k]) IN IF IsInt(v) THEN v.val ELSE default

\* The place in the partition whose row is looked at, for the functions that have one.
PlaceLookedAt(w, frame, i) ==
  CASE w.fn = "LAG" -> i - Argument(w, 2, 1)
    [] w.fn = "LEAD" -> i + Argument(w, 2, 1)
    [] w.fn = "FIRST_VALUE" -> frame.start
    [] w.fn = "LAST_VALUE" -> frame.end
    [] w.fn = "NTH_VALUE" -> frame.start + Argument(w, 2, 0) - 1
    [] OTHER -> i

NTile(buckets, i, n) == (((i - 1) * IF buckets < 1 THEN 1 ELSE buckets) \div n) + 1

Defaulted(v) == IF IsError(v) THEN NullValue ELSE v

\* arg: the first argument on the row looked at, if that is a row of the partition.
ValueAt(w, part, keys, frame, inFrame, place, arg, i) ==
  CASE w.fn = "ROW_NUMBER" -> IntValue(i)
    [] w.fn = "RANK" -> IntValue(RankOf(keys, FALSE, i))
    [] w.fn = "DENSE_RANK" -> IntValue(RankOf(keys, TRUE, i))
    [] w.fn = "NTILE" -> IntValue(NTile(Argument(w, 1, 1), i, Len(part)))
    [] w.fn \in {"LAG", "LEAD"} ->
         IF place \in DOMAIN part THEN arg
         ELSE IF Len(w.args) > 2 THEN Defaulted(Constant(w.args[3]))
         ELSE NullValue
    [] w.fn \in {"FIRST_VALUE", "LAST_VALUE"} -> IF place \in DOMAIN part THEN arg ELSE Panicked
    [] w.fn = "NTH_VALUE" ->
         IF ~CanSlice(frame) THEN Panicked
         ELSE IF place \in frame.start .. frame.end THEN arg ELSE NullValue
    [] w.fn \in {"SUM", "COUNT", "MIN", "MAX"} ->
         IF CanSlice(frame) THEN WindowAgg(w, inFrame) ELSE Panicked
    [] OTHER -> NullValue

ArgumentAt(w, tuples, part, place) ==
  IF w.args # <<>> /\ place \in DOMAIN part THEN ValueOf(w.args[1], tuples[part[place]]) ELSE NullValue

\* The value of the row at place i of the sorted partition part.
WindowValue(w, tuples, part, keys, frame, place, i) ==
  ValueAt(w, part, keys, frame,
          [k \in 1 .. frame.end - frame.start + 1 |-> tuples[part[frame.start + k - 1]]],
          place, ArgumentAt(w, tuples, part, place), i)

FrameValue(w, tuples, part, keys, frame, i) ==
  WindowValue(w, tuples, part, keys, frame, PlaceLookedAt(w, frame, i), i)

ValueWithKeys(w, tuples, part, keys, i) ==
  FrameValue(w, tuples, part, keys, ResolveFrame(w, keys, i), i)

ValueInPart(w, tuples, part, r) ==
  ValueWithKeys(w, tuples, part,
    Listed([k \in DOMAIN part |-> DisplayedKey(OrderExprs(w), tuples[part[k]])]),
    CHOOSE i \in DOMAIN part : part[i] = r)

ColumnOf(w, tuples, parts) ==
  [r \in DOMAIN tuples |->
     ValueInPart(w, tuples, CHOOSE part \in {parts[p] : p \in DOMAIN parts} : r \in ToSet(part), r)]

SortedParts(w, tuples, parts) ==
  Listed([p \in DOMAIN parts |-> SortPartition(w, tuples, parts[p])])

\* computeWindow: the column of one window, by place in the buffer.
WindowColumn(w, tuples) == ColumnOf(w, tuples, SortedParts(w, tuples, PartitionRows(w, tuples)))

WindowColumns(windows, tuples) ==
  Listed([k \in DOMAIN windows |-> Listed(WindowColumn(windows[k], tuples))])

WindowSchema(windows, schema) ==
  schema \o [k \in DOMAIN windows |-> Name("", windows[k].name)]

WindowTuples(windows, columns, tuples, schema) ==
  [r \in DOMAIN tuples |->
     Tuple(tuples[r].row \o [k \in DOMAIN windows |-> columns[k][r]], WindowSchema(windows, schema))]
=============================================================================
