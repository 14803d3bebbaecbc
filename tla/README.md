# Verification of the query engine

TLA+ modules of the query engine in `src/`: a Go process that answers SQL over
HTTP from tables held in memory. TLC checks the modules on small instances and
TLAPS proves, for every value of the constants, the theorems listed below.

## 1. The system

    HTTP request -> parser -> analyzer -> logical plan -> rule optimizer (fixed
    point) -> cost-based join order -> physical plan -> Volcano operators over
    heap tables -> reply

| part | source | state it keeps | operations | what makes it correct |
|---|---|---|---|---|
| HTTP handlers | `api/handler.go`, `api/server.go` | the statistics map under its own RWMutex | query, explain, schema, stats, create table, seed | registries agree; acknowledged tables and rows stay; every request answered |
| Catalog | `internal/catalog/catalog.go` | map name -> `*Table`, one RWMutex | Register, Lookup, List, Drop, AddColumn, DropColumn, RenameColumn, RenameTable | no entry replaced by Register; columns consistent with the rows |
| Storage, heaps | `internal/storage` | map name -> `*HeapTable`, one RWMutex; rows under a mutex per heap | CreateTable, GetTable, DropTable, RenameTable; Insert, Scan, UpdateWhere, DeleteWhere, column changes | each call atomic; no deadlock through callbacks; compaction loses and repeats no row |
| Seed | `internal/storage/seed.go` | none | Seed, Reset | the seed tables are complete afterwards |
| Statistics | `internal/stats` | none | Collect, histogram | counts agree with the heap; buckets cover the values |
| Executor | `internal/executor` | per-query context (deadline, CTEs, outer tuple, depth) | Execute, RunSelect, buildOperator | deadline honoured, subqueries see the outer row |
| Operators | `internal/executor/operators` | per-operator cursors, hash tables, buffers | Open, Next, Close | the rows the relational operator promises; children closed |
| Expressions | `operators/expression.go`, `catalog/types.go` | LIKE pattern cache | EvalExpr, Compare, arithmetic | three-valued logic; integer overflow reported |
| Optimizer | `internal/optimizer` | none | rules to a fixed point, join order by dynamic programming, cost model | same answer as the unoptimised plan; termination; least cost among the trees it looks at |
| Planners | `internal/planner` | CTE scope, plan-id counter | Build, ToJSON | CTE cycles refused; scopes restored |
| Analyzer, parser, lexer | `internal/analyzer`, `internal/parser`, `internal/lexer`, `internal/ast` | scopes; token cursor | Analyze, Parse | grammar and name resolution |
| Web front end | `web/` | a zustand store | submit, show plan | - |

How they interact: every request runs on a goroutine of its own. Handlers share
the catalog, the storage, the heaps and the statistics map, each under a
separate lock that no handler holds across two calls, except that `UpdateWhere`
and `DeleteWhere` call back into the executor while they hold a heap's write
lock. A query builds its own operators; they reach shared state only through
`Storage.GetTable` and the heap methods. Nothing is persisted: a restart starts
from the seed data.

What is hard: interleavings of handlers between their locked calls; look-ups
that are stale when used (plan built from one `*Table`, heap fetched by name
later); partial failure (multi-step DDL, a multi-row INSERT, a failing `Open`);
the deadline, looked at only between rows of the root operator; callbacks under
a lock; NULL in joins and predicates; an optimizer that must not change answers.
`PROJECT.json` lists each of these under "hazards" with the line where it bites
and the properties that would catch it going wrong.

Paths below are relative to `src/internal` unless they start with `api/`.

## 2. The modules

| module | models | kind |
|---|---|---|
| `CatalogRegistry`, `StorageRegistry` | `catalog/catalog.go`, `storage/storage.go`: each method as an action on the shared map | components |
| `SchemaServer` | the handlers of `api/handler.go` as concurrent requests over the two registries | composition |
| `SchemaServerProofs` | typing; user tables, listings and the seed tables | proofs |
| `RWMutex` | `sync.RWMutex`, from how `heap.go` uses it (external) | component |
| `TableCalls`, `AtomicTable` | what a heap promises: each method takes effect at one instant | abstract specification |
| `HeapTable`, `HeapTableProofs` | `storage/heap.go:15-78`, one loop turn or lock operation a step | component, refinement proof |
| `StatementLocks`, `StatementLocksProofs` | which locks UPDATE, DELETE, INSERT, SELECT and their subqueries take, in which order | component, deadlock proof |
| `JoinCursor` | what any join operator promises through Open, Next, Close | abstract specification |
| `JoinInput` | the children of a join: opened and closed how often, failing where | shared state |
| `NestedLoopJoin`, `NestedLoopJoinProofs` | `executor/operators/nl_join.go` | component, refinement proof |
| `KeyedJoin` | what the two joins by key share: cells, the key look-up, the children | shared state |
| `HashJoin`, `SortMergeJoin` | `executor/operators/hash_join.go`, `sort_merge_join.go` | components |
| `KeyedJoins` | the two over the same inputs, one of them at work | composition |
| `KeyedJoinsProofs`, `MergeJoinProofs` | what both release and what the hash join returns; the sort and the merge; that both return the join by their keys, and where that is the join `JoinCursor` asks for | refinement proof |
| `Values` | `catalog/types.go` and the operators of `expression.go` on ints, Booleans, NULL | pure operators |
| `Expressions` | the kinds of expression, how they are evaluated on a row, the texts aggregates are found again by | reference definition |
| `Plans` | the logical plans of queries, their schemas and their answers | reference definition |
| `Rules` | the four rules of `optimizer/rule` | pure operators |
| `JoinOrder` | `optimizer/cost/join_order.go`: taking a tree of joins apart, and the trees the dynamic program may put in its place | pure operators |
| `Optimizer` | `optimizer/optimizer.go:34-70`, one rule application a step, then the reordering | component |
| `Syntax` | queries as the parser hands them over: SELECT with its clauses, WITH, set operations (`ast/nodes.go`) | data |
| `Analyzer` | `analyzer/analyzer.go`: scopes, columns, `*`, what is refused | pure operators |
| `LogicalBuilder` | `planner/logical/builder.go`: the plan of an analyzed query | pure operators |
| `SqlMeaning`, `QueryMeaning` | what SQL means by sorting, groups, windows and set operations, and by a query as it is written | reference definition |
| `Planner` | analyzer, builder and optimizer, one after another (`api/handler.go:87-108`) | composition |
| `Tuples`, `Windows` | the buffers of sort, set operations, aggregation, and of window functions | pure operators |
| `Volcano` | the operators that read, each with Open, Next and Close, and Execute's row loop | component |
| `Statements`, `StatementsProofs` | the operators that write, DDL, and statements from planning to their end; proofs about these and about `Values` | component, invariant proof |
| `TablesProofs` | what statements leave behind in catalog and storage | invariant proof |
| `StatementAnswers` | what a plan and a statement stand for, by sets and sequences | reference definition, properties |

`MC*.tla` hold the constants of the runs. A definition whose comment starts
with "Mutant:" is not part of the model: it is a plausible bug, and the property
it is paired with in `PROJECT.json` is violated when it takes the place of the
definition it mutates.

### SchemaServer

`catalog` and `store` are the two maps, `rows` what lies in each heap ever
allocated, `statsMap` the map `RefreshStats` swaps in. The rest is per request:
`pc` where its handler stands, `target`, `plan`, `held` its local variables,
`pos`, `nth`, `todo` its loop counters. A step is one locked call
(`CreateRegister` is `cat.Register`, `CreateStorage` is `store.CreateTable`,
and so on), so that every interleaving at that grain is a behaviour. `acked`
records which 201 replies preceded a request; no step reads it. A request that
times out between rows, a VALUES expression that fails, a panic in
`MustGetTable` are steps of their own. A *user table* is one whose name no seed
table has.

### HeapTable and StatementLocks

In `HeapTable` a goroutine announces itself to the mutex, acquires it, and
handles one row a step; DeleteWhere compacts the slice while it ranges over it.
`before` remembers the rows at the time the writer got the lock. In
`StatementLocks` the rows are only counted: `pc`, `left` and `next` say where a
statement is, `shape` which tables it and its subqueries go to. A writer that
waits holds new readers up, as Go's mutex does.

### The joins

A state variable is the field of the same name. Rows are known by position, 0 is
the NULL padding. `Turn` is one turn of the loop of `Next`. `delivered` and
`returned` record what the caller got; `Close` may come at any time after a
successful `Open`. Children fail in `Open`, in `Next`, or not at all.
In the joins by key rows have cells, because the key is looked up by column name
with the fall-backs of `lookupColumnInTuple`. `KeyedJoins` starts in either
operator, so that one run asks the same of both: they are two implementations of
`JoinCursor`, and the properties that name a field of one of them say so.

### From a query to its plan

`Planner` takes a query from the parser to a plan nothing rewrites any more.
`query` is the tree the analyzer writes into, `stage` says who has had it,
`asked` is a history: what `QueryMeaning` says the query as parsed asks for.
`Analyze` is `Analyzer.Analyze`, `BuildPlan` is `Builder.Build`, and `Rewrite` is
a step of `Optimizer`, whose variables are those of the loop of `optimizer.go`
(`plan`, `round`, `nextRule`, `anyChanged`) and the answer of the plan it was
given, `expected`, beside that of the plan as it is, `answer`.

`Analyzer` and `LogicalBuilder` are the sequential code they model, as operators:
each returns what the code writes into the tree or the plan. In both, WITH is a
sequence of queries that references look into. The builder finds a call to an
aggregate again by its text, as `buildAggSigMap` does; `Expressions` has that
text (`PrintExpr`) and the value of an expression on a row (`EvalExpr`). The
operators know both as parameters of `Tuples`, `Printed` and `Evaluated`, to which
every configuration gives these two: they are recursive, and what is proved of the
operators holds whatever an expression evaluates to.

`Answer` is the sequence of rows the operators of a plan return, with the errors
they would meet. `Rules` gives for each rule the plan and the report of a
change, which differ: `Push` reports a change for every filter that stands on a
scan, `rebuildNode` drops what changed below a set operation, and the change
below an outer join is not reported. Expressions are literals, columns, binary
and unary operators, IS NULL, IN lists, BETWEEN, searched CASE, calls to
aggregates and window calls; CASE and window calls stand for all those kinds the
walkers of the rules do not go into. When the rules have settled, `OrderJoins`
picks any tree that `JoinOrder` allows: the cost model compares floats, so that
which of them is least is left open, and every property is asked of all of them.

`QueryMeaning` and `SqlMeaning` say nothing about plans. They work on the query
as it is written, by sets of places, numbers of copies and relations of columns
and rows: a group is the set of rows that agree on its keys, an outer join is the
matches and those rows of a side that have none, a sorted answer is one that
never goes down. They also say when a query is none: an unknown or ambiguous
name, a column that is no group's, an aggregate where there are no groups yet.

### Volcano, Statements, StatementAnswers

A plan is a sequence of nodes, its root first. The Go call stack of a statement
is `stack`, a sequence of frames; a frame is a method of an operator, the step it
is at and the child it is busy with. What a method returns waits in `reply`.
`ops` has the fields of each operator, `pc` says how far `Execute` is. One action
is what one operator does between two calls of its children, so that statements
interleave wherever they touch the tables, and an error travels up the stack
through each operator's own error path, closing the children that operator
closes and no others.

`catalog` and `storage` map names to tables and heaps; a table's columns lie in
`columns`, because ALTER TABLE changes them under the plans that hold the table.
DROP, RENAME and the column changes take two steps, the catalog's and the
storage's; CREATE TABLE AS a third, in which it looks its heap up again, by name. A
panic, of a frame that ends before it starts or of an UPDATE that gets between the two
steps of ADD COLUMN, takes the whole stack away. A *script* is a plan and the
statements that come before it: INSERT
and SELECT may run at once, as requests do, and the rest one after another, as
the tests do, with a DROP TABLE that another statement gets into (a re-seed), an
UPDATE that gets into ADD COLUMN, and a DROP TABLE that gets into CREATE TABLE AS.
`Hurried` are the statements whose deadline may pass; it is looked at between
two rows of the root. `scanned` is a history: what each SCAN, UPDATE and DELETE
found in the heap. `StatementAnswers` says from it, without stacks, loops or
buffers, what the answer has to be. The plan lines of EXPLAIN are text and left out; of EXPLAIN ANALYZE only the count of
rows is kept.

## 3. The runs

| run | instance | what it shows |
|---|---|---|
| `tables` | one CREATE, one re-seed of two tables, one two-row INSERT, any names | acknowledged rows and tables stay; no nil heap is used; statistics never count a row a scan would miss; the re-seed restores its tables; every request is answered |
| `acks` | two CREATEs, INSERT, SELECT, listing; one user and one seed name | at most one CREATE wins and 409 is answered only while the winner's table stands; registries agree; rows lie in the table they were planned for; what starts after the 201 finds the table |
| `rollback` (violated) | CREATE on a seed name, two re-seeds | the rollback of a failed CREATE removes another request's table |
| `heap` | three goroutines, any of seven calls, up to three rows before | each method is atomic, compaction is sound, calls return |
| `stmt_ordered` | three statements of four shapes over two tables and the storage mutex | with tables ordered, statements never all wait, and each ends |
| `stmt_self` (violated) | DELETE whose subquery reads the same table | it waits for ever |
| `nl_answer` | five join types, 0 to 2 rows a side, every match relation and fault | each row of the answer once, then EOF; children closed once; Next returns |
| `keyed_answer` | both joins by key, INNER, LEFT and, for the merge, RIGHT, 0 to 2 rows a side with NULLs (three for the merge, with NULL keys as `Mergeable` allows), the faults of the children; conditions and values as `MCMeantAssumption` has it, see section 4 | the same for hash and merge join, and that the merge takes back what it opened |
| `opt_answers` | 1,923 queries over two tables | see below |
| `opt_late` (violated) | `CASE WHEN a.x = 1 THEN 0 WHEN 1 = 1 THEN 1 END` | the first branch is lost |
| `opt_order` (violated) | an ON condition that names three tables, in a join of three | in every order it is put on the join of two of them, where it cannot be evaluated, and all rows are lost |
| `statements` | 1,557 scripts of one to three statements over two tables | see below |

The instance of `nl_answer` is in its cfg; the others have an MC module.

`opt_answers` checks that the analyzer refuses exactly what is no query, and that
the plan of every other one, as built and after every step of the optimizer, has
an answer that the query allows: the rows it asks for, each as often, in the
order it asks for (`AnswersMeanTheQuery`). It checks after every application of
a rule, and after the reordering, that the plan has the rows and names of the
plan it started from (`AnswersAlike`), that no column has gone (`ColumnsStay`),
that a join tree keeps each of its conditions (`ConditionsKept`), at the end
that no constant filter is left, none stands on another and none stands on an
inner join one side of which could judge it (`FiltersSunk`), that two rounds
settle a plan (`Settles`) and that planning ends (`PlanningEnds`). An evaluation
error is allowed to appear or disappear: a folded `x AND FALSE` no longer
evaluates x, and a predicate below a join meets rows the join would have
dropped; a column, an aggregate or a window that nothing has computed is never
allowed.

`statements` checks that an answer is what the plan stands for in SQL
(`AnswersMeanThePlan`: rows and order, the error or its absence, a prefix of it
when time runs out). The reference is SQL's where the code departs from it: the
default frame of a window takes the peers of the row in, and an argument or a key
that cannot be evaluated is an error. The scripts keep out of these cases, see
section 6; with a script that has one of them the property is violated. The run also
checks that no operator is left open but below an
operator whose Open gave up (`NothingLeftOpen`), that INSERT, UPDATE and DELETE
report as many rows as they changed (also part of `AnswersMeanThePlan`), that between
statements the rows of a heap are as wide as the
table's columns (`RowsAligned`), that an operator is opened,
pulled and closed in that order and not twice (`LifeCycle`), and that statements
end (`StatementsEnd`).

### The bounds, and why they are enough

- *Requests and statements.* Two requests of a kind that conflict are needed
  for every race of the handlers, and the proofs cover any number of them for
  user tables. Seed tables are checked with two tables, so that a walk over them
  can be overtaken in the middle.
- *Rows.* Two rows a side show a match before, after and without a partner, and
  repeated rows. `heap` has three rows, so that a kept row follows a removed one
  and precedes another. The proofs lift both bounds.
- *Integers.* `MaxInt = 3` in `opt_answers`, because the literals of its plans
  add up to 2, and 100 in `statements`, where sums stay far below it; the guards
  against overflow are proved for every `MaxInt`.
- *Tables of `opt_answers`.* They share column names, have NULLs, duplicates,
  rows with no partner on either side, and one is joined twice.
- *Queries.* Every pair of predicates, negated or not, under AND and OR, in WHERE
  over one table, an inner and an outer join and a join of three; joins of two to
  four tables of every type, by ON, USING, NATURAL and CROSS; groups and totals
  with HAVING and ORDER BY; DISTINCT, ORDER BY with its NULL rules, LIMIT and
  OFFSET; WITH over filters, groups and limits, and a CTE that looks into another;
  derived tables; windows over tables and over groups; UNION, INTERSECT and
  EXCEPT, nested to the left; and 21 queries that are none, or look as if they were. What the families
  leave out because code and SQL disagree there, or SQL has several answers, is
  listed in section 6.
- *Relations of a join tree.* `MaxJoinRelations = 3` where the code has 10
  (`join_order.go`): trees of two and three relations are reordered, one of four
  is beyond the bound and has to stay as it is.
- *Statements.* Tables of four and three rows, with duplicates, NULLs and a zero
  to divide by; every reading operator on every other whose columns it can read, on
  an empty relation and, DISTINCT and LIMIT, on set operations; every two writing
  statements in turn; INSERT beside INSERT or
  SELECT, a DROP that another statement gets into, UPDATE beside ADD COLUMN and
  CREATE TABLE AS beside DROP. Two statements are enough
  for a plan made before a change and used after it, and a third looks at what is
  left.
- *Rounds.* `MaxRounds = 4` where the code has 10: `Settles` says that the
  plan does not change after two, so that further rounds repeat it.
- *`MaxRows` of StatementLocks* bounds the rows a statement evaluates its
  expressions on; 2 lets a subquery run twice.

### Fairness

A goroutine that can take a step does: weak fairness of the steps of each
request (`SchemaServer`), of each caller (`HeapTable`), of each statement
(`StatementLocks`, `Statements`), of the loops of a join and of `Planner`, which is
a sequential program.
`Statements` and `Planner` spell out when a step is possible and what it changes,
which is the same condition and cheap to evaluate. That is what the Go scheduler
gives; `sync.RWMutex` lets nobody starve because a waiting
writer holds later readers up and lets the readers in when it is done, which
`RWMutex` models. Nobody owes a call: requests need not arrive, and the caller
of a join need not call `Next` or `Close`.

## 4. What is proved

| theorem | says | along which argument |
|---|---|---|
| `SchemaServerProofs!TypeCorrect`, `NoNilDereference` | typing; no method is called on a nil heap | typing carries what `pc` says of `held` |
| `SchemaServerProofs!UserCorrect` and the eight that follow from it | for any number of requests and tables: user tables agree in both registries, are created once, never rolled back, never lost, hold only rows planned for them, keep the rows of acknowledged INSERTs, are found after the 201, and their statistics never run ahead | `UserInv` is inductive: an entry belongs to one creator, and the creator's `pc` says how far it is. Nothing drops a user table, so what a statement looked up stays current. Seed requests touch seed names only |
| `SchemaServerProofs!ListingsComplete` | a listing shows every user table whose 201 preceded it | `ListingInv`: such a table is still to come, under the walk's hands or seen; as it stands in both registries, the walk does not skip it |
| `SchemaServerProofs!SeedTablesRestored` | a re-seed with no other re-seed and no CREATE TABLE on its names is stopped by nothing and leaves tables, heaps, rows and statistics behind, whatever statements do to the tables meanwhile | `SeedInv`: for each pass of `Reset`, what the tables before and behind the loop counter look like; who creates user tables or inserts rows disturbs none of it |
| `HeapTableProofs!HeapConsistent`, `CompactionIsSound`, `HeapIsAtomic` | the heap implements `AtomicTable` | `HeapInv`: the rows behind the loop are done, those before it are as they were. The abstract `rows` are `before` while a writer works, and a call takes effect when it gives its lock back |
| `StatementLocksProofs!LocksConsistent`, `NoDeadlock` | if tables can be ordered so that UPDATE and DELETE only read tables before their own, not all statements wait | among the writers at work take the one whose table is least; whatever it reads is free of working writers |
| `NestedLoopJoinProofs!TypeCorrect`, `JoinConsistent`, `ChildrenAreReleased`, `ImplementsJoin` | for any sizes, type, condition and fault the nested loop join implements `JoinCursor` | `NLInv`: the rows returned are the matches gone through and the padded rows of what is finished; the row about to be returned is new |
| `KeyedJoinsProofs!ChildrenAreReleased`, `MergeReleasesInOpen` | a closed join by key has closed each child once; the merge join closes what it opened before Open returns | `ReleaseInv`: how often each child is closed, by `pc` |
| `MergeJoinProofs!JoinsByKeys` | for any number of rows, any cells, condition and fault the hash join returns the join of the rows by the keys it finds and as it reads them; so does the merge join if `KeysFit` | `HashInv`: a bucket holds the rows read so far that have its key, in their order, and what was returned are the matches and padded rows of the left rows behind, less the queue. `MergeInv`: both sides are permutations sorted by key, no row behind on one side matches one ahead on the other but inside the group, and the group's pairs are returned in order. That the insertion sort sorts, and that the recursive function it is exists, are lemmas |
| `MergeJoinProofs!KeyedJoinsAnswer` | if `Meant`, that is the join the condition asks for: hash join and sort-merge join implement `JoinCursor` | on the rows of such a join two keys are equal exactly where the condition is true, and none is missing that is looked for, so that a step of the one cursor is a step of the other |
| `StatementsProofs!OperatorsLive`, `AllClosed` | for every plan, any number of statements, and whatever tables hold and expressions evaluate to: each operator is opened once and first, pulled only until its end, closed once and after Open; none is open when Execute returns after a successful Open | `LifeInv`, a frame at a time: what the step of a frame says of the states of the operator's children, before and behind the one it is at; an operator without a frame is at rest. As siblings are at rest, a step disturbs one frame and the one below. At the end the root is closed: the first operator of the plan that was open would have a parent that is new or closed, and such have no open children |
| `TablesProofs!RowsStayAligned`, `TablesInBoth` | for any plans and tables, any number of statements and every order of their steps: when no statement is at work, every row has as many values as its table has columns, and a name is in the catalog if and only if it is in the storage. Hypothesis: `Apart`, see below | `TablesInv`, with `LifeInv`. A name no statement is in the middle of defining is in both registries or in neither, and its rows fit. For each definition between its two steps the invariant says what is left to do: after ADD COLUMN's first step rows are one value short, after DROP COLUMN's one too long at the place the operator remembers, RENAME has the new name in the catalog and the old one in the storage, CREATE has no heap yet, DROP still has one. An INSERT holds the table that had its name when it began; if the name is there it still has that table, and if it was dropped its heap, if any is left, has rows as wide. No two names share a table or a heap. Most steps are shown to change no registry (`Passive`), the others to change it at the names of one definition (`Local`), which no other statement at work defines, or only another DROP TABLE drops too |
| `StatementsProofs!AddIsExact`, `SubIsExact`, `MulIsExact` | the overflow guards refuse exactly the results that do not fit | bounds of Go's truncating quotient |
| `StatementsProofs!AndSplits`, `SimplificationsKeep` | a filter may be split at AND; the simplifications of constant folding hold in three-valued logic | cases |

The assumptions are the named `ASSUME`s; TLC evaluates each on the runs.
`RolesAssumption` (a request is of one kind, what stands for "nothing" is none of
the things), `SeedAssumption` (seed names differ), `CallsAssumption`,
`NoOneAssumption`, `ShapeAssumption`, `NLShapeAssumption`, `MaxIntAssumption`,
`HoldsAssumption`, `TextAssumption`, `JoinsAssumption` say of what kind the
constants are. `PlansAssumption` is what the parser and the physical builder give: a plan is a tree
whose nodes have as many children as `Children()` of their kind, listed parents
first; one node at most writes, as below an INSERT or a CREATE TABLE AS there is a
SELECT and above a writer only EXPLAIN; lists of columns and expressions are slices.
`ContentsAssumption`: the tables there are at first have rows as wide as their columns,
as `Seed` leaves them. `StmtAssumption`: a table a statement creates is called after
the statement, and no table there is at first is called so. `GivenAssumption`: the
physical builder sends INNER and LEFT JOINs to the hash join, and no FULL JOIN to either join by key.

What else the joins by key need is no assumption but a hypothesis of their theorems,
because nothing in the code sees to it; `MCMeantAssumption` says that the instance of
`keyed_answer` meets it. Each part stands for wrong answers that section 5 lists.

- `KeysFit`, of `JoinsByKeys`, concerns the merge join only: values have an order that
  agrees with their equality (`ValuesOrdered`), and a row without a key is only where
  it does not keep rows with keys apart before sorting, nowhere if the sort is not an
  insertion sort (more than 20 rows), and never on the left of a LEFT JOIN
  (`KeysSorted`). A stable sort of rows that all have keys has one result, so that
  above 20 rows the insertion sort stands for Go's. Of the hash join nothing is
  asked: `JoinsByKeys` says what it returns for the equality written the wrong way
  round, for other conditions and for values that read alike, too. It is then not
  what the query means.
- `Meant`, of `KeyedJoinsAnswer`: the condition is none or an equality, and the column
  that each side looks up first is the one the equality means, which an equality
  written the other way round need not be (`KeysMeant`); for the hash join, values
  are equal exactly when they read alike, as those of one type other than float are
  (`DisplayTells`); for the merge join, `ValuesOrdered` and `Mergeable`, which is
  `KeysSorted` in terms of the condition's columns.

`RoundsAssumption` and `RelationsAssumption` belong to modules that are checked only.

`RowsStayAligned` and `TablesInBoth` are about behaviours in which `Apart` always holds:
while a statement defines a name, no other one at work defines it or inserts into it,
except that a DROP TABLE may run under another DROP TABLE and under INSERTs. SELECT,
UPDATE and DELETE may run under any definition, INSERTs under one another. So
re-seeding, which drops by statements, is covered with the INSERTs and re-seeds of
other requests. The API lets in no other definitions and the tests run them one after
another, but nothing in the code enforces it: an INSERT whose table gets a column under
it appends rows laid out for the columns it finds then, before or after the storage's
step has widened the others. Of the 113,247 states of the run `statements` all but
1,338 are reached with `Apart`; the others, where a statement redefines a name under a DROP
TABLE of it, or a DROP TABLE gets into a CREATE TABLE AS, are covered by `RowsAligned` as
the run checks it, which has no hypothesis.

An invariant is seldom inductive alone: each proof has a strengthening
(`UserInv`, `ListingInv`, `SeedInv`, `HeapInv`, `LockInv`, `NLInv` with typing,
`ReleaseInv`, `HashInv`, `MergeInv`, `LifeInv`, `TablesInv`). TLC has found each of them
to hold on the instance of the run that checks the property, `TablesInv` on its states
that are reached with `Apart`.

Induction over the rows of a join is by the library's facts about well-founded
relations that take a set, not an operator; so the tables, the sort and the groups of
any length are within reach.

Only model-checked: everything about liveness (the prover has no fairness), that is
`EveryRequestReplied`, `RegisteredGetsHeap`, `CallsReturn`, `StatementsEnd`,
`NextReturns`, `LoopsEnd`, `PlanningEnds`; analyzer, builder, rules and the
reordering, the meaning of a query and of a plan, whose definitions are recursive
over queries, plans and expressions, where the prover has neither
the recursion nor the induction; that a statement answers what its plan means and
reports the rows it has changed (`AnswersMeanThePlan`).

## 5. Where code and documents disagree

Shown by a run:

- `api/handler.go:361` promises a rollback "to avoid inconsistency"; it can
  remove the entry of a table another request has completed (`rollback`).
- `DELETE ... WHERE id IN (SELECT ... same table)` never ends (`stmt_self`).
- Constant folding takes a constant TRUE behind another WHEN for the whole CASE
  (`opt_late`).
- The reordering of joins puts an ON condition that names three tables on a join
  that has only two of them, and loses all rows (`opt_order`).

Read, and modelled, but not the subject of a run:

- A column that only a CASE, CAST, EXTRACT or subquery names is pruned
  (`projection_pushdown.go`); the same blind spot of `collectTables`
  (`optimizer/rule/constant_folding.go:396`) sends a predicate of such a kind to
  the left side of an inner join.
- `planAlias` (`join_order.go`) knows no table alias of the projections that
  ProjectionPushdown puts on a join's children, so that a tree it has narrowed is
  not reordered.
- `ON o.customer_id = c.id` with `customers` on the left: both sides of the hash
  join fall back to `id` and it joins on the ids.
- A join condition other than an equality is evaluated on the row of one side
  (`hash_join.go:176`); `audit2_test.go:447` knows it.
- The merge join's comment (`sort_merge_join.go:15`) says it sorts its inputs; rows
  with NULL keys stay where they were (line 92), and a LEFT JOIN drops a left
  row without a key. The builder hardly ever chooses the operator.
- `operators/README.md:33` asks a failing `Open` to close the children it has
  opened. Only `WindowOp` does (`window.go:39`); `sort.go:44`, `limit.go:38`,
  `hash_agg.go:170`, `ddl.go:47`, `set_op.go:33,39`, `nl_join.go:71` and
  `hash_join.go:53,62` do not.
- `window.go:294` calls the default frame RANGE BETWEEN UNBOUNDED PRECEDING AND
  CURRENT ROW; the code ends it at the row itself and leaves its later peers out, so
  that it is another frame wherever the order leaves ties or there is none.
- `operators/README.md:143` says "Never discard evaluation errors by returning `false`
  or `NullValue()` silently". `hash_agg.go:206-209` passes over a row whose argument
  fails, so that `SUM(2 / x)` leaves out the row where x is 0; `window.go` takes the
  argument of a window aggregate (lines 488-543), the keys of a partition
  and of its order for what came with the error; `sort.go:55-59` takes rows whose key
  fails for ties, and `ddl.go:243-248` gives rows NULL where the default of a new
  column fails.
- Frames such as `3 PRECEDING AND 2 PRECEDING` panic
  at the start of a partition. MIN and MAX start from `Value{}`, whose `IsNull`
  is false (lines 525, 541). A window's ORDER BY has no place for NULL.
- DISTINCT and the set operations tell rows apart by how they read: NULL and the
  text 'NULL' are one.
- CREATE TABLE AS leaves a partly filled table behind an error; a failing row of
  an INSERT, UPDATE or DELETE leaves what the others became. An INSERT planned
  before its table is dropped and created again writes rows of the old width. A
  CREATE TABLE between the two steps of a DROP TABLE is left without a heap.
- RENAME COLUMN accepts a name another column has; `Storage.RenameTable` replaces
  a heap of the new name.
- A predicate is pushed to the side whose schema prints the names of its tables
  (`predicate_pushdown.go`); a `LogicalSubquery` prints its alias, but the rows
  that come out of it carry no table name.
- Aggregates are found again by a text (`aggSig`) that leaves out DISTINCT and the
  inside of CASE: `COUNT(x)` beside `COUNT(DISTINCT x)`, or the sums of two CASE
  expressions, are taken for one.
- HAVING without groups or aggregates and OFFSET without LIMIT are parsed and not
  looked at (`builder.go`). `remapExpr` goes neither into BETWEEN nor into windows,
  so that an aggregate there is refused when a row is evaluated.
- ORDER BY a column the list leaves out sorts nothing: the sort stands above the
  projection, where the column is not found. GROUP BY an expression other than a
  column fails when a row is evaluated. `SELECT a.x ... GROUP BY b.x` is accepted,
  because only the bare names are compared (`analyzer.go`).
- The columns of a derived table can be selected by `*` only, `README.md:305`
  lists derived tables as a feature: the analyzer knows none of their columns.
- `USING` and `NATURAL JOIN` over two columns run as a hash join by the first, with
  the second judged on one side (see above); USING with a column that one side
  lacks becomes a cross join.
- Folding changes the header of an item that has no alias. A CTE's column that is
  called `count` or `col0` because it has no alias is known to the analyzer and
  not found by the executor.
- The right operand of a set operation in a CTE is not analyzed; WITH before a
  chain of three SELECTs is lost on the way (`parser.go:1519-1527`). A CTE that is
  called like the table it reads is refused as recursive.
- The analyzer does not take VARIANCE and STDDEV for aggregates, the builder does.
- The README says PredicatePushdown moves filters through projections; `push`
  stops at them (`predicate_pushdown.go:80-89`).
- `ARCHITECTURE.md:400` says the subquery of IN is evaluated once; `evalIn`
  runs it for each row.

## 6. What is not modelled

- Floats, dates, LIKE, functions and CAST, and of texts all but how they read;
  comparison through float64 is taken to be exact (it is up to 2^53). Simple CASE,
  `IN (subquery)` and subqueries in expressions, with the scopes and the depth they
  bring; what `StatementLocks` needs of them, the locks they take, is there.
- Averages, variances, PERCENT_RANK and CUME_DIST, which are floats.
- The types of columns, which nothing but a header and CREATE TABLE AS reads.
- Estimates and costs: which of the join trees wins is left open. Which join
  operator the physical builder takes for a join.
- The lines of EXPLAIN, histograms, the JSON of plans.
- Reading texts: lexer and parser are sequential recursive descent, in reach of
  unit tests; what they hand over is `Syntax`.
- The web front end.

Plans that the modules can express and `statements` leaves out, because code and
documents part ways there (section 5) and the reference follows SQL:

- a window aggregate without a frame whose order leaves ties, or that has none, and MIN
  and MAX as windows;
- arguments of aggregates and window aggregates, and keys of sorts, partitions and
  orders, that cannot be evaluated. Keys of groups, conditions, items of lists and
  arguments of other window functions that fail are there;
- operators that read a column their child does not have, which the analyzer refuses:
  such a column is an error of evaluation too.

Queries that the modules can express and `opt_answers` leaves out:

- because code and SQL part ways there, as section 5 has it: columns of a derived
  table by name, ORDER BY what the list leaves out, or an aggregate call, OFFSET
  without LIMIT, HAVING without groups, BETWEEN and windows over aggregates, GROUP
  BY an expression, `COUNT(x)` with `COUNT(DISTINCT x)`, columns that only a CASE
  names, unaliased items that fold and unaliased columns of a CTE that are not plain
  columns, USING with a column that is missing, ON over three tables, CTEs whose
  body is a set operation, WITH before a chain of three SELECTs;
- because the analyzer accepts what SQL refuses: columns outside the groups where
  there are no aggregates, or in HAVING, ON naming a table that comes later, the
  same alias twice;
- because the reference definition does not go that far: a CTE joined with itself,
  `NOT BETWEEN` with a NULL bound, set operations of different widths, ORDER BY and
  LIMIT inside their operands, RANGE frames without ORDER BY, and windows whose
  order leaves ties, where SQL lets the answer vary.

## 7. Plan

In this order:

1. Subqueries with their depth and the deadline they inherit, evaluated again for
   every row (`expression.go:729`).
2. CAST, LIKE and its cache, the scalar functions.
3. Estimates and costs, as far as they choose between join trees, and the physical
   builder's choice of a join operator.
