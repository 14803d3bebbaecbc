----------------------------- MODULE Optimizer ------------------------------
(***************************************************************************)
(* optimizer.go:34-70: the rules in their order, round after round, until  *)
(* a round reports no change or MaxRounds of them have passed; then, when  *)
(* there are statistics, the order of the joins.  One action is one        *)
(* application of a rule, or the reordering.                               *)
(***************************************************************************)
EXTENDS JoinOrder

CONSTANTS MaxRounds,    \* maxIterations, 10 in the code
          SettledAfter  \* the rounds that change a plan

ASSUME RoundsAssumption ==
  MaxRounds \in Nat \ {0} /\ SettledAfter \in 0 .. MaxRounds

VARIABLES plan, round, nextRule, anyChanged,
          done,         \* the rules are through
          ordered,      \* and so are the joins
          given,        \* the plan at the start
          expected,     \* and its answer
          answer        \* the answer of plan

optimizer == <<plan, round, nextRule, anyChanged, done, ordered, given, expected, answer>>

\* The optimizer takes up the plan p; the answer of p is given with it.
Start(p, result) ==
  /\ plan' = p /\ given' = p
  /\ expected' = result /\ answer' = result
  /\ UNCHANGED <<round, nextRule, anyChanged, done, ordered>>

\* The rows and the errors of an answer.
Outcomes(p) ==
  LET outcome(result) == [rows |-> Rows(result.tuples), errors |-> result.errors] IN outcome(Answer(p))

ApplyRule ==
  /\ ~done /\ nextRule <= Len(DefaultRules)
  /\ \E result \in {Apply(DefaultRules[nextRule], plan)} :
       \E new \in {IF result.changed THEN result.plan ELSE plan} :
         /\ plan' = new
         /\ anyChanged' = (anyChanged \/ result.changed)
         /\ answer' = IF new = plan THEN answer ELSE Outcomes(new)
  /\ nextRule' = nextRule + 1
  /\ UNCHANGED <<round, done, ordered, given, expected>>

\* Mutant: rounds are not counted.
NextRoundUncounted ==
  /\ ~done /\ nextRule > Len(DefaultRules)
  /\ anyChanged /\ round < MaxRounds
  /\ nextRule' = 1 /\ anyChanged' = FALSE
  /\ UNCHANGED <<plan, round, done, ordered, given, expected, answer>>

NextRound ==
  /\ ~done /\ nextRule > Len(DefaultRules)
  /\ anyChanged /\ round < MaxRounds
  /\ round' = round + 1 /\ nextRule' = 1 /\ anyChanged' = FALSE
  /\ UNCHANGED <<plan, done, ordered, given, expected, answer>>

Return ==
  /\ ~done /\ nextRule > Len(DefaultRules)
  /\ ~anyChanged \/ round >= MaxRounds
  /\ done' = TRUE
  /\ UNCHANGED <<plan, round, nextRule, anyChanged, ordered, given, expected, answer>>

\* Without statistics the plan stays as it is.
OrderJoins ==
  /\ done /\ ~ordered
  /\ \E new \in {plan} \union Reordered(plan) :
       /\ plan' = new
       /\ answer' = IF new = plan THEN answer ELSE Outcomes(new)
  /\ ordered' = TRUE
  /\ UNCHANGED <<round, nextRule, anyChanged, done, given, expected>>

Optimize == ApplyRule \/ NextRound \/ Return \/ OrderJoins

\* Every step of Optimize is a Turn, and until the joins are ordered there is
\* one; Turn says so without the rules, to be cheap to evaluate.
Turn ==
  \/ ~done /\ nextRule' \in {nextRule + 1, 1} /\ UNCHANGED <<done, ordered>>
  \/ ~done /\ done' = TRUE /\ UNCHANGED <<nextRule, ordered>>
  \/ done /\ ~ordered /\ ordered' = TRUE /\ UNCHANGED <<nextRule, done>>

-----------------------------------------------------------------------------
\* How often each row is there.
Counts(rows) == [row \in Range(rows) |-> Cardinality({i \in DOMAIN rows : rows[i] = row})]

RECURSIVE FollowsOrder(_)
FollowsOrder(p) ==
  p.kind \in {"limit", "window"} \/ \E i \in DOMAIN Children(p) : FollowsOrder(Children(p)[i])

\* Whatever the rules have done so far, the plan still gives the rows of the
\* plan it started from, in the same order and under the same names; another
\* order of the joins may only put the rows in another order, and so change what
\* a LIMIT or a window, which follow that order, make of them.  An evaluation
\* error may go away or come up: a folded x AND FALSE no longer evaluates x, and
\* a predicate that sinks below a join meets rows that the join would have
\* dropped.
AnswersAlike ==
  /\ Schema(plan) = Schema(given)
  /\ expected.errors = {} /\ answer.errors = {} =>
       IF ordered THEN FollowsOrder(plan) \/ Counts(answer.rows) = Counts(expected.rows)
       ELSE answer.rows = expected.rows

\* A plan that finds all its columns never loses one of them, neither to a
\* projection that leaves it out nor by sinking to the other side of a join.
ColumnsStay ==
  Unresolved \notin expected.errors => Unresolved \notin answer.errors

\* All conjuncts of the ON conditions of a plan.
RECURSIVE OnConjuncts(_)
OnConjuncts(p) ==
  (IF p.kind = "join" /\ p.cond # <<>> THEN Conjuncts(p.cond[1]) ELSE <<>>)
  \o FlattenSeq(Listed([i \in DOMAIN Children(p) |-> OnConjuncts(Children(p)[i])]))

\* However the joins are ordered, no part of an ON condition is lost on the way
\* and none is put on two joins (join_order.go:203-242).
ConditionsKept ==
  [][ordered' # ordered => Counts(OnConjuncts(plan')) = Counts(OnConjuncts(plan))]_optimizer

\* The nodes that the rules reach: rebuildNode drops what changed below a set
\* operation, and a change below an outer join is not reported.
RECURSIVE Reached(_)
Reached(p) ==
  {p} \union
  IF Rebuildable(p) /\ (p.kind = "join" => p.type = "inner")
  THEN UNION {Reached(Children(p)[i]) : i \in DOMAIN Children(p)} ELSE {}

\* When the rules are done, no filter is left that is constant, stands on
\* another filter, or stands on an inner join with a conjunct that one side
\* of the join could have judged.
FiltersSunk ==
  done /\ ~ordered => \A f \in Reached(plan) : f.kind = "filter" =>
    /\ f.child.kind # "filter"
    /\ ~IsBoolLit(f.pred, TRUE) /\ ~IsBoolLit(f.pred, FALSE)
    /\ f.child.kind = "join" /\ f.child.type = "inner" =>
         \A i \in DOMAIN Conjuncts(f.pred), side \in {f.child.left, f.child.right} :
           ~CanSubsume(Conjuncts(f.pred)[i], SchemaTables(Schema(side)))

\* After SettledAfter rounds the plan no longer changes: the rounds that follow,
\* which a filter on a table forces by being reported as a change every time,
\* only repeat it.
Settles == [][round > SettledAfter /\ ~done => plan' = plan]_optimizer
=============================================================================
