----------------------------- MODULE MCPlanner ------------------------------
(* Two tables that share column names, with NULLs, unmatched rows and        *)
(* duplicates, and queries over them.                                        *)
EXTENDS Planner

Zero == IntValue(0)
One == IntValue(1)

\* What the operators take from Expressions.
MCEvaluated(e, header, row) == EvalExpr(e, header, row)
MCPrinted(e) == PrintExpr(e)

MCColumns == [a |-> <<"id", "x">>, b |-> <<"id", "x", "y">>]
MCContents ==
  [a |-> <<<<Zero, One>>, <<One, Zero>>, <<IntValue(2), NullValue>>>>,
   b |-> <<<<One, One, NullValue>>, <<Zero, NullValue, One>>, <<One, Zero, Zero>>,
           <<IntValue(3), One, One>>>>]

OnA == Bin("=", Ref("a", "x"), Lit(One))
OnB == Bin("=", Ref("b", "x"), Lit(Zero))
OnBoth == Bin("<", Ref("a", "x"), Ref("b", "id"))
Unknown == IsNullExpr(Ref("b", "y"))
Fails == Bin("=", Bin("/", Lit(One), Lit(Zero)), Lit(One))
Always == Bin("=", Bin("+", Lit(One), Lit(Zero)), Lit(One))
NoTruth == Bin("=", Lit(NullValue), Lit(One))

Atoms == {OnA, OnB, OnBoth, Unknown, Always, NoTruth, Lit(FalseValue)}
Negated == {Un("NOT", p) : p \in Atoms}
Preds == Atoms \union Negated \union
  {Bin(op, p, q) : op \in {"AND", "OR"}, p \in Atoms, q \in Atoms \union Negated} \union
  {Un("NOT", Un("NOT", Bin("AND", p, q))) : p, q \in Atoms} \union {Fails, Bin("AND", Lit(FalseValue), Fails)}

Chains == {Bin(op, p, Bin(op2, q, r)) : op, op2 \in {"AND", "OR"}, p \in {OnA, OnBoth, Un("NOT", OnA)},
                                        q \in {OnB, Always, NoTruth}, r \in {OnA, OnB, Unknown, Lit(FalseValue)}}

-----------------------------------------------------------------------------
(* FROM clauses, as pairs of a table and its joins.                          *)

A == TableRef("a", "")
B == TableRef("b", "")
SameId(t, u) == Bin("=", Ref(t, "id"), Ref(u, "id"))
FromA(joins) == [first |-> A, joins |-> joins]
AB == FromA(<<JoinOn("inner", B, SameId("a", "b"))>>)
AOuterB == FromA(<<JoinOn("left", B, SameId("a", "b"))>>)
Plus(from, join) == [from EXCEPT !.joins = Append(@, join)]
ABC == Plus(AB, JoinOn("inner", TableRef("a", "c"), SameId("b", "c")))
Froms == {AB, AOuterB, ABC}

Where(from, columns, preds) == [Select(columns, from.first) EXCEPT !.joins = from.joins, !.where = preds]

Labelled(n, e) == Item(e, Name("", n))
Bare(e) == Item(e, NoName)
Leading == Case(<<When(Bin("=", Lit(One), Lit(Zero)), Lit(Zero)), When(Lit(TrueValue), Ref("a", "x"))>>,
                Lit(One))
Items == <<Labelled("ax", Ref("a", "x")), Labelled("sum", Bin("+", Ref("b", "x"), Bin("+", Lit(One), Lit(One)))),
           Labelled("case", Leading)>>
All == <<Bare(Star)>>

Selects == {Where(from, Items, <<p>>) : from \in Froms, p \in Preds \union Chains}

\* A CASE whose constant condition does not come first.
MCLateTrue ==
  {Select(<<Labelled("case", Case(<<When(OnA, Lit(Zero)), When(Always, Lit(One))>>, Lit(NullValue)))>>, A)}

\* SELECT * FROM a JOIN b ON a.x = b.x JOIN b AS c ON a.id < b.id AND b.id < c.id
MCThreeWay ==
  LET less(t, u) == Bin("<", Ref(t, "id"), Ref(u, "id"))
      ab == FromA(<<JoinOn("inner", B, Bin("=", Ref("a", "x"), Ref("b", "x")))>>)
  IN  {Where(Plus(ab, JoinOn("inner", TableRef("b", "c"), Bin("AND", less("a", "b"), less("b", "c")))), All, <<>>)}

-----------------------------------------------------------------------------
(* Joins of all kinds.                                                       *)

Types == {"inner", "left", "right", "full"}
Conds == {SameId("a", "b"), Bin("AND", SameId("a", "b"), OnA), Bin("<", Ref("a", "id"), Ref("b", "x")), OnB}
Second == {JoinOn(type, B, cond) : type \in Types, cond \in Conds}
          \union {JoinUsing(type, B, names) : type \in Types, names \in {<<"id">>, <<"x", "id">>}}
          \union {NaturalJoin(type, B) : type \in Types} \union {CrossJoin(B)}
Third == {JoinOn("inner", TableRef("a", "c"), Bin("AND", SameId("b", "c"), Bin("=", Ref("c", "x"), Lit(One)))),
          JoinOn("left", TableRef("a", "c"), SameId("a", "c")), CrossJoin(TableRef("a", "c"))}
Fourth == JoinOn("inner", TableRef("b", "d"), SameId("a", "d"))

Trees == {FromA(<<j>>) : j \in Second}
         \union {FromA(<<j, k>>) : j \in {JoinOn(t, B, SameId("a", "b")) : t \in Types}, k \in Third}
Stars == {Where(from, All, <<p>>) : from \in Trees, p \in {OnA, Un("NOT", OnB), Unknown}}
         \union {Where(Plus(ABC, Fourth), All, <<p>>) : p \in {OnA, OnBoth}}

-----------------------------------------------------------------------------
(* Groups, DISTINCT, ORDER BY and LIMIT.                                     *)

Count == FunctionCall("COUNT", <<>>, FALSE)
Agg1(fn, e) == FunctionCall(fn, <<e>>, FALSE)
CountX == FunctionCall("COUNT", <<Ref("b", "x")>>, TRUE)
More(n) == Bin(">", Count, Lit(IntValue(n)))

AggItems == {<<Bare(Count)>>, <<Labelled("n", Count), Bare(Agg1("SUM", Ref("b", "id")))>>,
             <<Labelled("n", Bin("+", Count, Agg1("MAX", Ref("b", "x")))), Labelled("m", CountX)>>,
             <<Labelled("n", Case(<<When(More(1), Agg1("MIN", Ref("b", "x")))>>, Lit(NullValue)))>>}
Havings == {<<>>, <<More(1)>>, <<Un("NOT", IsNullExpr(Agg1("MIN", Ref("b", "y"))))>>}
Grouped1 == {[Where(from, <<Labelled("g", Ref("a", "x"))>> \o items, where) EXCEPT
                !.groupBy = <<Ref("a", "x")>>, !.having = having, !.orderBy = order] :
               from \in {AB, AOuterB}, items \in AggItems, where \in {<<>>, <<Un("NOT", OnB)>>},
               having \in Havings \union {<<OnA>>},
               order \in {<<>>, <<SortSpec(Ref("", "g"), FALSE, "default")>>}}
Totals == {[Where(AB, items, where) EXCEPT !.having = having] :
             items \in AggItems, where \in {<<>>, <<Un("NOT", OnB)>>, <<NoTruth>>}, having \in Havings}

Orders == {<<>>} \union {<<SortSpec(Ref("", "x"), asc, nulls)>> : asc \in BOOLEAN, nulls \in {"default", "first", "last"}}
          \union {<<SortSpec(Ref("b", "y"), TRUE, "default"), SortSpec(Ref("b", "x"), FALSE, "default")>>}
Limits == {<<<<>>, <<>>>>, <<<<Lit(One)>>, <<>>>>, <<<<Lit(IntValue(2))>>, <<Lit(One)>>>>, <<<<Lit(Zero)>>, <<>>>>}
Sorts == {[Select(<<Bare(Ref("", "x")), Bare(Ref("b", "y"))>>, B) EXCEPT
             !.distinct = distinct, !.orderBy = order, !.limit = limit[1], !.offset = limit[2]] :
            distinct \in BOOLEAN, order \in Orders, limit \in Limits}

-----------------------------------------------------------------------------
(* WITH, derived tables, windows, set operations.                            *)

With1(p) == CTE("d", [Select(<<Labelled("bid", Ref("b", "id")), Labelled("bx", Ref("", "x"))>>, B) EXCEPT !.where = <<p>>])
OnD(type) == FromA(<<JoinOn(type, TableRef("d", ""), Bin("=", Ref("a", "id"), Ref("d", "bid")))>>)
Ctes == {[Where(OnD(type), <<Labelled("ax", Ref("a", "x")), Labelled("bx", Ref("", "bx"))>>, <<q>>) EXCEPT
            !.ctes = <<With1(p)>>] :
           type \in {"inner", "left"}, p \in {OnB, Unknown, Always, NoTruth},
           q \in {OnA, Always, Bin("AND", OnA, Bin("=", Ref("d", "bx"), Lit(Zero)))}}

\* CTEs that aggregate, sort and look into one another, and a derived table.
Sums == CTE("s", [Where(AB, <<Labelled("g", Ref("a", "x")), Labelled("n", Count)>>, <<>>) EXCEPT
                    !.groupBy = <<Ref("a", "x")>>, !.having = <<More(0)>>])
Tops(p) == CTE("t", [Select(All, TableRef("s", "")) EXCEPT !.where = <<p>>, !.limit = <<Lit(One)>>,
                       !.orderBy = <<SortSpec(Ref("", "g"), FALSE, "last")>>])
Chained == {[Where([first |-> TableRef("t", "u"), joins |-> <<JoinOn(type, A, Bin("=", Ref("u", "g"), Ref("a", "x")))>>],
                   items, where) EXCEPT !.ctes = <<Sums, Tops(p)>>] :
              type \in Types, items \in {All, <<Bare(Ref("", "id")), Bare(Ref("u", "n"))>>}, where \in {<<>>, <<OnA>>},
              p \in {Always, Bin("<", Ref("", "g"), Lit(One))}}
Deriveds == {Where(FromA(<<JoinOn(type, Derived(Select(<<Bare(Ref("", "x"))>>, B), "d"), cond)>>), <<Bare(Count)>>, where) :
               type \in Types, cond \in {OnA, Always}, where \in {<<>>, <<OnA>>}}

ById == SortSpec(Ref("", "id"), TRUE, "default")
WindowItems1 == {Labelled("w", WindowCall("RANK", <<>>, <<>>, <<ById>>, NoFrame)),
                 Bare(WindowCall("COUNT", <<>>, <<Ref("b", "y")>>, <<ById>>,
                                 Frame("RANGE", Bound("unbounded preceding", 0), Bound("current", 0)))),
                 Labelled("w", WindowCall("SUM", <<Ref("", "id")>>, <<Ref("", "x")>>, <<ById>>,
                                          Frame("ROWS", Bound("preceding", 1), Bound("current", 0)))),
                 Bare(WindowCall("LAG", <<Ref("", "id"), Lit(One), Lit(Zero)>>, <<Ref("b", "x")>>, <<ById>>, NoFrame))}
Windows1 == {[Select(<<Labelled("bx", Ref("b", "x")), w, v>>, B) EXCEPT !.where = where, !.orderBy = order] :
               w \in WindowItems1, v \in {Bare(WindowCall("DENSE_RANK", <<>>, <<>>, <<ById>>, NoFrame))},
               where \in {<<>>, <<Un("NOT", OnB)>>}, order \in {<<>>, <<SortSpec(Ref("", "bx"), TRUE, "first")>>}}
            \union
            {[Where(AB, <<Labelled("g", Ref("a", "x")), Bare(Count),
                          Bare(WindowCall("RANK", <<>>, <<>>, <<SortSpec(Ref("a", "x"), asc, "default")>>, NoFrame))>>, <<>>)
                EXCEPT !.groupBy = <<Ref("a", "x")>>, !.having = having] : asc \in BOOLEAN, having \in Havings}

Arms == {Select(<<Bare(Ref("", "x"))>>, B), Where(AB, <<Bare(Ref("a", "x"))>>, <<OnA>>),
         [Where(AB, <<Bare(Count)>>, <<>>) EXCEPT !.groupBy = <<Ref("a", "id")>>],
         [Select(<<Bare(Ref("", "x"))>>, B) EXCEPT !.distinct = TRUE, !.where = <<Unknown>>]}
Ops == {"UNION", "INTERSECT", "EXCEPT"}
SetOps == {Combination(op, all, p, q) : op \in Ops, all \in BOOLEAN, p, q \in Arms}
          \union {Combination(op, all, Combination(op2, all2, p, q), q) :
                    op, op2 \in Ops, all, all2 \in BOOLEAN, p, q \in {Select(<<Bare(Ref("", "x"))>>, B), Select(<<Bare(Ref("", "id"))>>, A)}}

-----------------------------------------------------------------------------
(* What is no query, and what looks as if it were none.                      *)

NoQueries ==
  LET Of(columns) == Where(AB, columns, <<>>)
      unknown == Select(All, TableRef("c", ""))
      column(ref) == Of(<<Bare(ref)>>)
  IN  {unknown, Where(FromA(<<CrossJoin(TableRef("c", ""))>>), All, <<>>),
       Combination("UNION", FALSE, Select(All, A), unknown), Select(<<Bare(Count)>>, Derived(unknown, "d")),
       column(Ref("", "id")), column(Ref("", "y")), column(Ref("", "z")), column(Ref("a", "y")), column(Ref("c", "x")),
       Of(<<Bare(Ref("a", "x")), Bare(Count)>>), Where(AB, <<Bare(Count)>>, <<More(0)>>),
       Where(AB, All, <<Bin("=", WindowCall("RANK", <<>>, <<>>, <<ById>>, NoFrame), Lit(One))>>),
       Where(AB, <<Bare(Ref("a", "x"))>>, <<Bin("=", Ref("", "x"), Lit(One))>>),
       [Of(<<Bare(Ref("a", "x"))>>) EXCEPT !.orderBy = <<ById>>],
       [Of(<<Labelled("id", Ref("a", "x"))>>) EXCEPT !.orderBy = <<ById>>],
       [Of(<<Bare(Ref("a", "id")), Bare(Count)>>) EXCEPT !.groupBy = <<Ref("a", "x")>>],
       [Of(<<Bare(Count)>>) EXCEPT !.groupBy = <<Ref("", "x")>>], [Of(<<Bare(Count)>>) EXCEPT !.groupBy = <<Count>>],
       [Select(All, TableRef("d", "")) EXCEPT !.ctes = <<CTE("d", unknown)>>],
       [Select(All, TableRef("d", "")) EXCEPT !.ctes = <<CTE("e", Select(All, B))>>],
       [Select(<<Bare(Ref("", "y"))>>, TableRef("d", "")) EXCEPT !.ctes = <<With1(OnB)>>]}

MCQueries == Selects \union Stars \union Grouped1 \union Totals \union Sorts \union Ctes \union Chained
             \union Deriveds \union Windows1 \union SetOps \union NoQueries
=============================================================================
