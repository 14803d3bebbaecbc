---------------------------- MODULE MCStatements ----------------------------
(* Two small tables with duplicates and NULLs, every operator on them and on *)
(* every other operator, and statements that write, one by one and at once.  *)
EXTENDS StatementAnswers

CONSTANTS s1, s2, s3

Zero == IntValue(0)
One == IntValue(1)
Two == IntValue(2)

\* What the operators take from Expressions.
MCEvaluated(e, header, row) == EvalExpr(e, header, row)
MCPrinted(e) == PrintExpr(e)

MCColumns == [a |-> <<"id", "x">>, b |-> <<"id", "x">>]
MCContents ==
  [a |-> <<<<One, Two>>, <<Zero, NullValue>>, <<One, Zero>>, <<One, Two>>>>,
   b |-> <<<<One, Two>>, <<Two, NullValue>>, <<Zero, NullValue>>>>]

-----------------------------------------------------------------------------
(* Plans, put together from below.                                           *)

Below(plan, n) ==
  [i \in DOMAIN plan |-> [plan[i] EXCEPT !.kids = [k \in DOMAIN @ |-> @[k] + n]]]
On(node, plan) == <<[node EXCEPT !.kids = <<2>>]>> \o Below(plan, 1)
Both(node(_, _), left, right) == <<node(2, 2 + Len(left))>> \o Below(left, 1) \o Below(right, 1 + Len(left))

ScanA == <<SeqScan("a", "a")>>
ScanB == <<SeqScan("b", "a")>>        \* FROM b AS a: the columns have the same names
Nothing == <<Empty(<<Name("a", "id"), Name("a", "x")>>)>>

Id == Col("a", "id")
X == Col("a", "x")
PerX == Bin("/", Lit(Two), X)         \* fails where x is 0
Key(e, name) == Item(e, Name("a", name))

Asc(e, nulls) == SortSpec(e, TRUE, nulls)
Desc(e, nulls) == SortSpec(e, FALSE, nulls)

Rising == Frame("ROWS", Bound("unbounded preceding", 0), Bound("current", 0))
Peers == Frame("RANGE", Bound("unbounded preceding", 0), Bound("current", 0))
Falling == Frame("RANGE", Bound("current", 0), Bound("unbounded following", 0))
Near == Frame("ROWS", Bound("preceding", 1), Bound("following", 1))
Behind == Frame("ROWS", Bound("preceding", 3), Bound("preceding", 2))
ById == <<Asc(Id, "default")>>
Args3(e) == <<e, Lit(One), Lit(Two)>>

Ranks == <<Window("ROW_NUMBER", <<>>, <<>>, ById, <<>>, "w1"), Window("RANK", <<>>, <<>>, ById, <<>>, "w2"),
           Window("DENSE_RANK", <<>>, <<Id>>, <<Desc(Id, "default")>>, <<>>, "w3")>>
Offsets == <<Window("LAG", Args3(X), <<>>, ById, <<>>, "w1"), Window("LEAD", Args3(X), <<Id>>, <<>>, <<>>, "w2"),
             Window("NTILE", <<Lit(Two)>>, <<>>, ById, <<>>, "w3")>>
Frames == <<Window("SUM", <<X>>, <<>>, ById, Peers, "w1"), Window("COUNT", <<>>, <<>>, ById, Falling, "w2"),
            Window("FIRST_VALUE", <<X>>, <<>>, ById, Near, "w3"), Window("LAST_VALUE", <<X>>, <<>>, ById, Near, "w4"),
            Window("NTH_VALUE", <<X, Lit(Two)>>, <<>>, ById, Rising, "w5")>>
Defaults == <<Window("SUM", <<X>>, <<>>, ById, <<>>, "w1"),
              Window("COUNT", <<X>>, <<>>, <<Desc(Id, "default")>>, <<>>, "w2")>>
FailingWindow == <<Window("FIRST_VALUE", <<PerX>>, <<>>, ById, Near, "w1")>>
PanickingWindow == <<Window("SUM", <<X>>, <<>>, ById, Behind, "w1")>>

Aggs == <<CountStar("n"), Agg("COUNT", X, FALSE, "c"), Agg("COUNT", X, TRUE, "d"), Agg("SUM", X, FALSE, "s"),
          Agg("SUM", X, TRUE, "t"), Agg("MIN", X, FALSE, "l"), Agg("MAX", Bin("-", Id, X), FALSE, "h")>>

Unaries ==
  {FilterOp(0, Bin("=", X, Lit(Two))), FilterOp(0, Bin(">", PerX, Lit(Zero))),
   Projection(0, <<Key(X, "x"), Key(Bin("+", Id, Lit(One)), "id")>>), Projection(0, <<Key(PerX, "x")>>),
   Distinct(0), SortOp(0, <<Asc(X, "default"), Desc(Id, "default")>>), SortOp(0, <<Desc(X, "default")>>),
   SortOp(0, <<Asc(X, "first")>>), SortOp(0, <<Desc(X, "last"), Asc(Id, "default")>>),
   Limit(0, <<Lit(Two)>>, <<Lit(One)>>), Limit(0, <<>>, <<Lit(Two)>>), Limit(0, <<Lit(One)>>, <<>>),
   Limit(0, <<Lit(Zero)>>, <<>>), Limit(0, <<Lit(NullValue)>>, <<>>), Limit(0, <<>>, <<Lit(IntValue(-1))>>),
   HashAggregate(0, <<>>, Aggs), HashAggregate(0, <<Id>>, Aggs), HashAggregate(0, <<X>>, Aggs),
   HashAggregate(0, <<PerX>>, Aggs), WindowOp(0, Ranks), WindowOp(0, Offsets), WindowOp(0, Frames),
   WindowOp(0, FailingWindow), WindowOp(0, PanickingWindow), Explain(0, TRUE), Explain(0, FALSE)}

\* The analyzer lets an operator read the columns that its child has: after these
\* they are no longer a.id and a.x.
Renames(node) == node.kind \in {"aggregate", "explain"} \/ (node.kind = "project" /\ Len(node.items) = 1)
ReadsColumns(node) == node.kind \notin {"distinct", "limit", "explain"}
Stacked == {p \in Unaries \X Unaries : Renames(p[2]) => ~ReadsColumns(p[1])}
Count == Col("", "n")
OnGroups == {SortOp(0, <<Desc(Count, "default")>>), FilterOp(0, Bin(">", Count, Lit(One))),
             HashAggregate(0, <<Count>>, <<CountStar("m")>>)}

Chains == {On(p[1], On(p[2], ScanA)) : p \in Stacked} \union
          {On(u, On(HashAggregate(0, <<Id>>, Aggs), ScanA)) : u \in OnGroups} \union
          {On(WindowOp(0, Defaults), ScanB)} \union    \* no two rows of b have one id
          {On(u, Nothing) : u \in Unaries} \union
          {On(Projection(0, <<Key(Lit(One), "x")>>), <<ConstantScan>>)}

SetOver(op, all, left, right) == Both(LAMBDA l, r : SetOp(op, all, l, r), left, right)
OnlyX(plan) == On(Projection(1, <<Key(X, "x")>>), plan)
Failing(plan) == On(FilterOp(1, Bin("=", PerX, Lit(One))), plan)
Sets == {SetOver(op, all, p[1], p[2]) : op \in {"UNION", "INTERSECT", "EXCEPT"}, all \in BOOLEAN,
           p \in {<<ScanA, ScanB>>, <<ScanB, ScanA>>, <<OnlyX(ScanA), OnlyX(ScanB)>>, <<OnlyX(ScanA), ScanB>>,
                  <<Failing(ScanA), ScanB>>, <<ScanB, Failing(ScanA)>>, <<ScanA, Nothing>>,
                  <<ScanB, <<SeqScan("gone", "a")>>>>}}
Tall == Sets \union {On(u, p) : u \in {Distinct(0), Limit(0, <<Lit(Two)>>, <<>>)}, p \in Sets}

-----------------------------------------------------------------------------
(* Statements that write.                                                    *)

Copied == On(InsertSelect("a", <<>>, 1), ScanA)
Values_ == <<InsertValues("a", <<>>, <<<<Lit(One), Lit(Zero)>>, <<Lit(Two)>>>>)>>
Named == <<InsertValues("a", <<"x", "z", "x">>, <<<<Lit(One), Lit(Zero), Lit(Two)>>>>)>>
HalfInserted == <<InsertValues("a", <<"x">>, <<<<Lit(One)>>, <<Bin("/", Lit(One), Lit(Zero))>>>>)>>
HalfCopied == On(InsertSelect("a", <<>>, 1), OnlyX(Failing(ScanA)))
Raise == <<Update("a", <<Assign("x", Bin("+", X, Lit(One))), Assign("z", Lit(One)), Assign("id", X)>>,
                 <<Bin("=", Id, Lit(One))>>)>>
RaiseFails == <<Update("a", <<Assign("id", Lit(Zero)), Assign("x", PerX)>>, <<>>)>>
UpdateFails == <<Update("a", <<Assign("x", Lit(One))>>, <<Bin("=", PerX, Lit(One))>>)>>
RemoveOnes == <<Delete("a", <<Bin("=", Id, Lit(One))>>)>>
RemoveFails == <<Delete("a", <<Bin("=", PerX, Lit(One))>>)>>
RemoveAll == <<Delete("a", <<>>)>>
Create(t) == <<CreateTable(t, <<"id", "x">>)>>
CreateAs(t, plan) == On(CreateTableAs(t, 1), plan)

Writes == {Copied, Values_, Named, HalfInserted, HalfCopied, Raise, RaiseFails, UpdateFails, RemoveOnes,
           RemoveFails, RemoveAll}
Changes ==
  {Create("a"), Create("c"), CreateAs("c", OnlyX(ScanA)), CreateAs("c", OnlyX(Failing(ScanA))),
   CreateAs("c", <<SeqScan("gone", "a")>>)} \union
  {<<node>> : node \in {DropTable("a", FALSE), DropTable("a", TRUE), AddColumnTo("a", "z", Lit(One)),
     AddColumnTo("a", "z", PerX), AddColumnTo("a", "x", Lit(One)), DropColumnOf("a", "x"), DropColumnOf("a", "z"),
     RenameColumnOf("a", "id", "x"), RenameColumnOf("a", "z", "x"), RenameTableTo("a", "c"), RenameTableTo("b", "a"),
     RenameTableTo("a", "b")}}

Absent == Script(<<>>, {})
Scripts(one, two, three) == [s \in Stmt |-> IF s = s1 THEN one ELSE IF s = s2 THEN two ELSE three]
Requested(plan) == Scripts(Script(plan, {}), Absent, Absent)
Alone(plan) == Scripts(Absent, Script(plan, {}), Absent)
InTurn(p, q) == Scripts(Absent, Script(p, {}), Script(q, {s2}))
Beside(p, q) == Scripts(Absent, Script(p, {}), Script(q, {}))
AtOnce(p, q) == Scripts(Script(p, {}), Script(q, {}), Absent)
AfterDrop(q, r) == Scripts(Script(r, {s2, s3}), Script(<<DropTable("a", FALSE)>>, {}), Script(q, {}))

Reads == {On(Distinct(0), ScanA), On(Limit(0, <<Lit(Two)>>, <<>>), ScanA)}
MCScenarios ==
  {Requested(On(u, ScanA)) : u \in Unaries} \union
  {Alone(p) : p \in Chains \union Tall} \union
  {InTurn(p, q) : p, q \in Changes \union Writes} \union
  {Beside(<<AddColumnTo("a", "z", Lit(One))>>, Raise),
   Beside(<<DropTable("c", TRUE)>>, CreateAs("c", OnlyX(ScanA)))} \union
  {AtOnce(p, q) : p \in {Copied, HalfCopied}, q \in {Copied, Values_} \union Reads} \union
  {AfterDrop(q, <<AddColumnTo("a", "z", Lit(One))>>) :
     q \in {<<DropTable("a", FALSE)>>, Values_, Raise, ScanA, Create("a")}}
=============================================================================
