------------------------------- MODULE Planner ------------------------------
(***************************************************************************)
(* A query on its way to a plan, as api/handler.go:87-108 takes it: the    *)
(* analyzer, the logical builder, the optimizer.  The analyzer may refuse  *)
(* it; the optimizer goes on rewriting what has been built.                *)
(***************************************************************************)
EXTENDS Optimizer, Analyzer, LogicalBuilder, QueryMeaning

CONSTANT Queries

VARIABLES query,
          stage,    \* "parsed", "analyzed", "rejected" or "planned"
          asked     \* what the query asks for

vars == <<query, stage, asked, optimizer>>

NoOutcome == [rows |-> <<>>, errors |-> {}]

Init ==
  /\ query \in Queries
  /\ stage = "parsed"
  /\ asked \in {QueryAsks(query)}
  /\ plan = OneRow /\ given = OneRow
  /\ round = 1 /\ nextRule = 1 /\ anyChanged = FALSE
  /\ done = FALSE /\ ordered = FALSE
  /\ expected = NoOutcome /\ answer = NoOutcome

Analyze ==
  /\ stage = "parsed"
  /\ \E result \in {Analyzed(query)} :
       /\ query' = result.query
       /\ stage' = IF result.ok THEN "analyzed" ELSE "rejected"
  /\ UNCHANGED <<asked, optimizer>>

BuildPlan ==
  /\ stage = "analyzed"
  /\ \E p \in {Built(query)} : \E result \in {Outcomes(p)} : Start(p, result)
  /\ stage' = "planned"
  /\ UNCHANGED <<query, asked>>

Rewrite == stage = "planned" /\ Optimize /\ UNCHANGED <<query, stage, asked>>

Next == Analyze \/ BuildPlan \/ Rewrite

\* The planner never waits.  Every step of Next is an Advance, and until the query
\* is refused or its joins are ordered there is one; Advance says so without the
\* rules, to be cheap to evaluate.
loop == <<stage, nextRule, done, ordered>>
Advance ==
  \/ stage = "parsed" /\ stage' \in {"analyzed", "rejected"} /\ UNCHANGED <<nextRule, done, ordered>>
  \/ stage = "analyzed" /\ stage' = "planned" /\ UNCHANGED <<nextRule, done, ordered>>
  \/ stage = "planned" /\ Turn /\ UNCHANGED stage

Spec == Init /\ [][Next]_vars /\ WF_loop(Advance)

-----------------------------------------------------------------------------
\* The analyzer refuses exactly what is no query (analyzer.go:157-324).  What it
\* lets pass finds all its columns and leaves no aggregate or window uncomputed,
\* when it is built and however it is rewritten; and unless the evaluation of a
\* row fails, its answer is one that SQL allows: the rows asked for, as often as
\* asked, sorted and cut off where asked.
AnswersMeanTheQuery ==
  /\ stage \in {"analyzed", "planned"} => asked.legal
  /\ stage = "rejected" => ~asked.legal
  /\ stage = "planned" =>
       /\ Unresolved \notin expected.errors \union answer.errors
       /\ expected.errors = {} /\ answer.errors = {} => Fits(asked, answer.rows)

\* Planning ends: with the query refused, or with the joins in their order,
\* although a rule may report a change in every round.
PlanningEnds == <>(stage = "rejected" \/ ordered)
=============================================================================
