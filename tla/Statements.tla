----------------------------- MODULE Statements -----------------------------
(***************************************************************************)
(* The operators that write (insert.go, update.go, delete.go, ddl.go), and *)
(* statements from the look-up of their tables to the end of Execute.      *)
(*                                                                         *)
(* The API lets SELECT and INSERT in, which may run at once, and reseeding *)
(* drops tables under them in the two steps of DROP TABLE.  Nothing keeps  *)
(* the other statements apart; where they run one after the other, as the  *)
(* tests do, a script names the statements it comes after.  UpdateWhere    *)
(* and DeleteWhere hold the heap's lock throughout (HeapTable has them row *)
(* by row).                                                                *)
(***************************************************************************)
EXTENDS Volcano

InsertValues(table, cols, values) ==
  [kind |-> "insert", kids |-> <<>>, table |-> table, cols |-> cols, values |-> values]
InsertSelect(table, cols, kid) ==
  [kind |-> "insert", kids |-> <<kid>>, table |-> table, cols |-> cols, values |-> <<>>]
Assign(column, value) == [column |-> column, value |-> value]
Update(table, assigns, where) ==
  [kind |-> "update", kids |-> <<>>, table |-> table, assigns |-> assigns, where |-> where]
Delete(table, where) == [kind |-> "delete", kids |-> <<>>, table |-> table, where |-> where]
CreateTable(table, cols) == [kind |-> "create", kids |-> <<>>, table |-> table, cols |-> cols]
CreateTableAs(table, kid) == [kind |-> "create", kids |-> <<kid>>, table |-> table, cols |-> <<>>]
DropTable(table, ifExists) == [kind |-> "drop", kids |-> <<>>, table |-> table, ifExists |-> ifExists]
AddColumnTo(table, col, default) ==
  [kind |-> "add column", kids |-> <<>>, table |-> table, col |-> col, default |-> default]
DropColumnOf(table, col) == [kind |-> "drop column", kids |-> <<>>, table |-> table, col |-> col]
RenameColumnOf(table, col, new) ==
  [kind |-> "rename column", kids |-> <<>>, table |-> table, col |-> col, new |-> new]
RenameTableTo(table, new) == [kind |-> "rename", kids |-> <<>>, table |-> table, new |-> new]

Definitions == {"create", "drop", "add column", "drop column", "rename column", "rename"}
Kinds == {"scan", "constant", "empty", "insert", "update", "delete"} \union Streaming \union Draining
         \union Definitions
Writers == {"insert", "update", "delete"} \union Definitions
NamesTable == {"scan", "insert", "update", "delete"}   \* nodes that hold a *Table
Done == Tuple(<<Text(0)>>, <<Name("", "result")>>)     \* "CREATE TABLE t" and the like
Affected(n) == Tuple(<<IntValue(n)>>, <<Name("", "rows_affected")>>)

\* How many children a node may have.
Arities(kind) ==
  CASE kind = "setop" -> {2}
    [] kind \in (Streaming \union Draining) \ {"setop"} -> {1}
    [] kind \in {"insert", "create"} -> {0, 1}
    [] kind \in {"scan", "constant", "empty", "update", "delete"} \union (Definitions \ {"create"}) -> {0}

\* What the nodes keep in slices.
HasLists(node) ==
  /\ node.kind \in {"empty", "create"} => IsList(node.cols)
  /\ node.kind = "project" => IsList(node.items)
  /\ node.kind = "aggregate" => IsList(node.groupBy) /\ IsList(node.aggs)
  /\ node.kind = "window" => IsList(node.windows)

\* The nodes are a tree, each before its children, and one of them at most writes:
\* below an INSERT or a CREATE TABLE is a SELECT, above a writer only EXPLAIN.
IsPlan(nodes) ==
  /\ Len(nodes) \in Nat \ {0} /\ DOMAIN nodes = 1 .. Len(nodes)
  /\ \A n \in DOMAIN nodes :
       LET kids == nodes[n].kids
       IN  /\ nodes[n].kind \in Kinds
           /\ Len(kids) \in Arities(nodes[n].kind) /\ kids \in Seq(n + 1 .. Len(nodes))
  /\ \A m \in 2 .. Len(nodes) :
       \E n \in DOMAIN nodes : \E k \in DOMAIN nodes[n].kids : nodes[n].kids[k] = m
  /\ \A n, p \in DOMAIN nodes : \A k \in DOMAIN nodes[n].kids, j \in DOMAIN nodes[p].kids :
       nodes[n].kids[k] = nodes[p].kids[j] => n = p /\ k = j
  /\ \A n \in DOMAIN nodes : HasLists(nodes[n])
  /\ \A n, p \in DOMAIN nodes : {nodes[n].kind, nodes[p].kind} \subseteq Writers => n = p

ASSUME PlansAssumption ==
  \A scripts \in Scenarios : \A s \in Stmt : scripts[s].nodes = <<>> \/ IsPlan(scripts[s].nodes)

\* The tables and heaps that statements make are new ones.
ASSUME StmtAssumption == Stmt \intersect DOMAIN Columns = {}

\* A map without a key, and with a key set.
Without(map, key) == [k \in DOMAIN map \ {key} |-> map[k]]
With(map, key, value) == [k \in DOMAIN map \union {key} |-> IF k = key THEN value ELSE map[k]]

-----------------------------------------------------------------------------
Init ==
  /\ catalog = [t \in DOMAIN Columns |-> t]
  /\ columns = Columns
  /\ storage = [t \in DOMAIN Columns |-> t]
  /\ heap = Contents
  /\ script \in Scenarios
  /\ pc = [s \in Stmt |-> IF script[s].nodes = <<>> THEN "absent" ELSE "idle"]
  /\ stack = [s \in Stmt |-> <<>>]
  /\ reply = [s \in Stmt |-> NoReply]
  /\ ops = [s \in Stmt |-> [n \in DOMAIN script[s].nodes |-> Blank]]
  /\ answer = [s \in Stmt |-> <<>>]
  /\ scanned = [s \in Stmt |-> <<>>]

\* The analyzer and the builder look up the tables; the plan keeps what they find.
Begin(s) ==
  LET nodes == script[s].nodes
      naming == {n \in DOMAIN nodes : nodes[n].kind \in NamesTable}
      known == \A n \in naming : nodes[n].table \in DOMAIN catalog
  IN  /\ pc[s] = "idle"
      /\ \A r \in script[s].after : Ended(r)
      /\ \/ ~known /\ pc' = [pc EXCEPT ![s] = "rejected"] /\ UNCHANGED <<stack, reply, ops>>
         \/ /\ known
            /\ pc' = [pc EXCEPT ![s] = "opening"]
            /\ Call(s, 1, "open")
            /\ ops' = [ops EXCEPT ![s] = [n \in DOMAIN nodes |->
                 IF n \in naming THEN [Blank EXCEPT !.table = catalog[nodes[n].table]] ELSE Blank]]
      /\ UNCHANGED <<tables, script, answer, scanned>>

-----------------------------------------------------------------------------
(* INSERT                                                                    *)

OpenWriter(s) ==
  /\ Enters(s, "open", {"insert", "update", "delete"})
  /\ \/ Node(s).kids = <<>> /\ Return(s, Ok)
     \/ Node(s).kids # <<>> /\ Goto(s, "open", 1) /\ UNCHANGED ops
  /\ UNCHANGED <<tables, script, pc, answer, scanned>>

SourceOpened(s) ==
  /\ In(s, "open", "open") /\ Got(s, {"ok"}) /\ Node(s).kind = "insert"
  /\ Return(s, Ok)
  /\ UNCHANGED <<tables, script, pc, answer, scanned>>

\* Each writer works in its first Next and has nothing more to say in the second.
Emitted(s) == Op(s).pos = 1
Emitting(s) == [Op(s) EXCEPT !.pos = 1]

NoMore(s) ==
  /\ Enters(s, "next", {"insert", "update", "delete"} \union Definitions)
  /\ Emitted(s)
  /\ Return(s, Eof)
  /\ UNCHANGED <<tables, script, pc, answer, scanned>>

HeapMissing(s) ==
  /\ Enters(s, "next", {"insert", "update", "delete"}) /\ ~Emitted(s)
  /\ Node(s).table \notin DOMAIN storage
  /\ ReturnWith(s, Emitting(s), Error)
  /\ UNCHANGED <<tables, script, pc, answer, scanned>>

InsertBegins(s) ==
  /\ Enters(s, "next", {"insert"}) /\ ~Emitted(s)
  /\ Node(s).table \in DOMAIN storage
  /\ GotoWith(s, [Emitting(s) EXCEPT !.heap = storage[Node(s).table]],
              IF Node(s).kids = <<>> THEN "values" ELSE "pull", 1)
  /\ UNCHANGED <<tables, script, pc, answer, scanned>>

\* buildRow and buildRowFromValues: a column named twice takes its last value, and of
\* two columns with one name only the first is named.
BuildRow(cols, tableCols, vals) ==
  LET named(j) == {i \in DOMAIN cols \intersect DOMAIN vals : cols[i] = tableCols[j]}
      sources(j) == IF cols = <<>> THEN {j} \intersect DOMAIN vals
                    ELSE IF \E p \in 1 .. j - 1 : tableCols[p] = tableCols[j] THEN {} ELSE named(j)
      last(places) == CHOOSE i \in places : \A k \in places : k <= i
  IN  [j \in DOMAIN tableCols |-> IF sources(j) = {} THEN NullValue ELSE vals[last(sources(j))]]

InsertOne(s, vals) ==
  heap' = [heap EXCEPT ![Op(s).heap] = Append(@, BuildRow(Node(s).cols, columns[Op(s).table], vals))]

Counting(s) == [Op(s) EXCEPT !.count = @ + 1]

\* The rows before the one that cannot be evaluated stay inserted.
InsertNextValues(s) ==
  LET k == Top(s).kid
      vals == [i \in DOMAIN Node(s).values[k] |-> Constant(Node(s).values[k][i])]
  IN  /\ In(s, "next", "values")
      /\ \/ k > Len(Node(s).values) /\ Return(s, Row(Affected(Op(s).count))) /\ UNCHANGED heap
         \/ k <= Len(Node(s).values) /\ HasError(vals) /\ Return(s, Error) /\ UNCHANGED heap
         \/ /\ k <= Len(Node(s).values) /\ ~HasError(vals)
            /\ InsertOne(s, vals)
            /\ GotoWith(s, Counting(s), "values", k + 1)
      /\ UNCHANGED <<catalog, columns, storage, script, pc, answer, scanned>>

InsertPulled(s) ==
  /\ In(s, "next", "pull") /\ Node(s).kind = "insert"
  /\ \/ Got(s, {"row"}) /\ InsertOne(s, reply[s].tuple.row) /\ GotoWith(s, Counting(s), "pull", 1)
     \/ Got(s, {"eof"}) /\ Return(s, Row(Affected(Op(s).count))) /\ UNCHANGED heap
     \/ Got(s, {"error"}) /\ Return(s, Error) /\ UNCHANGED heap
  /\ UNCHANGED <<catalog, columns, storage, script, pc, answer, scanned>>

-----------------------------------------------------------------------------
(* UPDATE and DELETE: an error on one row is reported once all rows have     *)
(* been looked at, and what the others became stays.                         *)

Stored(s, row) ==
  LET cols == columns[Op(s).table]
  IN  Tuple(row, [i \in DOMAIN cols |-> Name(Node(s).table, cols[i])])

Condition(s, row) ==
  IF Node(s).where = <<>> THEN TrueValue ELSE ValueOf(Node(s).where[1], Stored(s, row))

\* The values of the assignments whose columns the table has.
Assigned(s, row) ==
  LET assigns == Node(s).assigns
      has == {k \in DOMAIN assigns : assigns[k].column \in Range(columns[Op(s).table])}
  IN  [k \in has |-> ValueOf(assigns[k].value, Stored(s, row))]

\* The assignments are done in their order.  The first that cannot be evaluated leaves
\* the row as it was; the first to a column past the end of the row panics.
AssignedPlace(s, k) ==
  LET cols == columns[Op(s).table]
  IN  First({i \in DOMAIN cols : cols[i] = Node(s).assigns[k].column})
Stops(s, row) ==
  {k \in DOMAIN Assigned(s, row) : IsError(Assigned(s, row)[k]) \/ AssignedPlace(s, k) > Len(row)}
Panics(s, row) == Stops(s, row) # {} /\ ~IsError(Assigned(s, row)[First(Stops(s, row))])

Updated(s, row) ==
  LET new == Assigned(s, row)
      sets(i) == {k \in DOMAIN new : AssignedPlace(s, k) = i}
      last(places) == CHOOSE k \in places : \A j \in places : j <= k
  IN  IF Stops(s, row) # {} THEN row
      ELSE [i \in DOMAIN row |-> IF sets(i) # {} THEN new[last(sets(i))] ELSE row[i]]

\* The rows of the heap whose condition holds, and whether an error was met.
Writing(s, kind) ==
  /\ Enters(s, "next", {kind}) /\ ~Emitted(s)
  /\ Node(s).table \in DOMAIN storage

Target(s) == heap[storage[Node(s).table]]
Matching(s) == {i \in DOMAIN Target(s) : IsTruthy(Condition(s, Target(s)[i]))}
ConditionFails(s) == \E i \in DOMAIN Target(s) : IsError(Condition(s, Target(s)[i]))

Report(s, failed) ==
  /\ ReturnWith(s, Emitting(s), IF failed THEN Error ELSE Row(Affected(Cardinality(Matching(s)))))
  /\ scanned' = [scanned EXCEPT ![s] =
                   Append(@, [node |-> Top(s).node,
                              tuples |-> [i \in DOMAIN Target(s) |-> Stored(s, Target(s)[i])]])]

\* A panic leaves the rows before it updated; UpdateWhere gives its lock up, and
\* UpdateOp.Close has nothing to do.
UpdateRows(s) ==
  LET rows == Target(s)
      panicking == {i \in Matching(s) : Panics(s, rows[i])}
      done == {i \in Matching(s) : panicking = {} \/ i < First(panicking)}
  IN  /\ Writing(s, "update")
      /\ heap' = [heap EXCEPT ![storage[Node(s).table]] =
                    [i \in DOMAIN rows |-> IF i \in done THEN Updated(s, rows[i]) ELSE rows[i]]]
      /\ \/ /\ panicking = {}
            /\ Report(s, ConditionFails(s) \/ \E i \in Matching(s) : HasError(Assigned(s, rows[i])))
            /\ UNCHANGED pc
         \/ panicking # {} /\ Panic(s) /\ UNCHANGED scanned
      /\ UNCHANGED <<catalog, columns, storage, script, answer>>

DeleteRows(s) ==
  /\ Writing(s, "delete")
  /\ heap' = [heap EXCEPT ![storage[Node(s).table]] =
                Pick(Target(s), DOMAIN Target(s) \ Matching(s))]
  /\ Report(s, ConditionFails(s))
  /\ UNCHANGED <<catalog, columns, storage, script, pc, answer>>

-----------------------------------------------------------------------------
(* CREATE TABLE                                                              *)

OpenCreate(s) ==
  /\ \/ Enters(s, "open", {"create"}) /\ Node(s).kids # <<>> /\ Goto(s, "open", 1)
     \/ Enters(s, "open", {"create"}) /\ Node(s).kids = <<>> /\ Goto(s, "register", 1)
     \/ In(s, "open", "open") /\ Got(s, {"ok"}) /\ Node(s).kind = "create" /\ Goto(s, "register", 1)
  /\ UNCHANGED <<tables, script, pc, ops, answer, scanned>>

CreatedColumns(s) ==
  IF Node(s).kids = <<>> THEN Node(s).cols
  ELSE [i \in DOMAIN KidSchema(s, 1) |-> KidSchema(s, 1)[i].column]

\* The new *Table and the new *HeapTable are called after the statement.
Register(s) ==
  /\ In(s, "open", "register")
  /\ \/ Node(s).table \in DOMAIN catalog /\ Return(s, Error) /\ UNCHANGED <<catalog, columns>>
     \/ /\ Node(s).table \notin DOMAIN catalog
        /\ catalog' = With(catalog, Node(s).table, s)
        /\ columns' = With(columns, s, CreatedColumns(s))
        /\ GotoWith(s, [Op(s) EXCEPT !.table = s, !.count = Len(CreatedColumns(s))], "create", 1)
  /\ UNCHANGED <<storage, heap, script, pc, answer, scanned>>

CreateHeap(s) ==
  /\ In(s, "open", "create")
  /\ \/ Node(s).table \in DOMAIN storage /\ Return(s, Error) /\ UNCHANGED <<storage, heap>>
     \/ /\ Node(s).table \notin DOMAIN storage
        /\ storage' = With(storage, Node(s).table, s)
        /\ heap' = With(heap, s, <<>>)
        /\ \/ Node(s).kids = <<>> /\ Return(s, Ok)
           \/ Node(s).kids # <<>> /\ Goto(s, "fetch", 1) /\ UNCHANGED ops
  /\ UNCHANGED <<catalog, columns, script, pc, answer, scanned>>

\* CREATE TABLE AS SELECT looks the heap up again, by its name.
FetchHeap(s) ==
  /\ In(s, "open", "fetch")
  /\ \/ Node(s).table \notin DOMAIN storage /\ Return(s, Error)
     \/ /\ Node(s).table \in DOMAIN storage
        /\ GotoWith(s, [Op(s) EXCEPT !.heap = storage[Node(s).table]], "pull", 1)
  /\ UNCHANGED <<tables, script, pc, answer, scanned>>

\* Its rows are as wide as the table was made; an error leaves it half filled.
FillRow(s, vals) ==
  [i \in 1 .. Op(s).count |-> IF i \in DOMAIN vals THEN vals[i] ELSE NullValue]

Fill(s) ==
  /\ In(s, "open", "pull")
  /\ \/ /\ Got(s, {"row"})
        /\ heap' = [heap EXCEPT ![Op(s).heap] = Append(@, FillRow(s, reply[s].tuple.row))]
        /\ Goto(s, "pull", 1) /\ UNCHANGED ops
     \/ Got(s, {"eof"}) /\ Return(s, Ok) /\ UNCHANGED heap
     \/ Got(s, {"error"}) /\ Return(s, Error) /\ UNCHANGED heap
  /\ UNCHANGED <<catalog, columns, storage, script, pc, answer, scanned>>

-----------------------------------------------------------------------------
(* DROP TABLE and ALTER TABLE change the catalog first, then the storage; the *)
(* catalog entry that other statements hold is changed in place.             *)

Entry(s) == catalog[Node(s).table]
Places(s) == {i \in DOMAIN columns[Entry(s)] : columns[Entry(s)][i] = Node(s).col}
Defines(s, action) ==
  Enters(s, "open", {action}) /\ Node(s).table \in DOMAIN catalog

\* Catalog.Drop, AddColumn, DropColumn, RenameColumn and RenameTable.  The operator
\* keeps the place of the column for the storage.
ToStorage(s, place) == GotoWith(s, [Op(s) EXCEPT !.count = place], "storage", 1)

Drop(s) ==
  /\ Defines(s, "drop")
  /\ catalog' = Without(catalog, Node(s).table)
  /\ ToStorage(s, 1)
  /\ UNCHANGED <<columns, storage, heap, script, pc, answer, scanned>>

AddColumn(s) ==
  /\ Defines(s, "add column") /\ Places(s) = {}
  /\ columns' = [columns EXCEPT ![Entry(s)] = Append(@, Node(s).col)]
  /\ ToStorage(s, 1)
  /\ UNCHANGED <<catalog, storage, heap, script, pc, answer, scanned>>

DropAt(seq, i) == SubSeq(seq, 1, i - 1) \o SubSeq(seq, i + 1, Len(seq))

DropColumn(s) ==
  /\ Defines(s, "drop column") /\ Places(s) # {}
  /\ columns' = [columns EXCEPT ![Entry(s)] = DropAt(@, First(Places(s)))]
  /\ ToStorage(s, First(Places(s)))
  /\ UNCHANGED <<catalog, storage, heap, script, pc, answer, scanned>>

RenameColumn(s) ==
  /\ Defines(s, "rename column") /\ Places(s) # {}
  /\ columns' = [columns EXCEPT ![Entry(s)][First(Places(s))] = Node(s).new]
  /\ Return(s, Ok)
  /\ UNCHANGED <<catalog, storage, heap, script, pc, answer, scanned>>

RenameTable(s) ==
  /\ Defines(s, "rename") /\ Node(s).new \notin DOMAIN catalog
  /\ catalog' = Without(With(catalog, Node(s).new, Entry(s)), Node(s).table)
  /\ ToStorage(s, 1)
  /\ UNCHANGED <<columns, storage, heap, script, pc, answer, scanned>>

CannotDefine(s) ==
  LET kind == Node(s).kind
  IN  /\ Enters(s, "open", Definitions \ {"create"})
      /\ \/ Node(s).table \notin DOMAIN catalog
         \/ /\ Node(s).table \in DOMAIN catalog
            /\ \/ kind = "add column" /\ Places(s) # {}
               \/ kind \in {"drop column", "rename column"} /\ Places(s) = {}
               \/ kind = "rename" /\ Node(s).new \in DOMAIN catalog
      /\ Return(s, IF kind = "drop" /\ Node(s).ifExists THEN Ok ELSE Error)
      /\ UNCHANGED <<tables, script, pc, answer, scanned>>

\* Mutant: the rows keep the values of the column.
ReshapedNot(s, row) ==
  IF Node(s).kind = "add column" THEN Append(row, ValueOrNull(Node(s).default, Tuple(<<>>, <<>>)))
  ELSE row

\* HeapTable.AddColumnDefault and DropColumnValues, on one row.
Reshaped(s, row) ==
  IF Node(s).kind = "add column" THEN Append(row, ValueOrNull(Node(s).default, Tuple(<<>>, <<>>)))
  ELSE IF Op(s).count <= Len(row) THEN DropAt(row, Op(s).count) ELSE row

\* A heap that is not there is passed over in silence.
ChangeStorage(s) ==
  LET t == Node(s).table
      kind == Node(s).kind
  IN  /\ In(s, "open", "storage")
      /\ \/ /\ kind = "drop" /\ storage' = Without(storage, t)
            /\ UNCHANGED heap
         \/ /\ kind = "rename" /\ t \in DOMAIN storage
            /\ storage' = Without(With(storage, Node(s).new, storage[t]), t)
            /\ UNCHANGED heap
         \/ /\ kind \in {"add column", "drop column"} /\ t \in DOMAIN storage
            /\ heap' = [heap EXCEPT ![storage[t]] = [i \in DOMAIN @ |-> Reshaped(s, @[i])]]
            /\ UNCHANGED storage
         \/ /\ kind # "drop" /\ t \notin DOMAIN storage
            /\ UNCHANGED <<storage, heap>>
      /\ Return(s, Ok)
      /\ UNCHANGED <<catalog, columns, script, pc, answer, scanned>>

\* The one row of a statement that defines tables.
SayDone(s) ==
  /\ Enters(s, "next", Definitions) /\ ~Emitted(s)
  /\ ReturnWith(s, Emitting(s), Row(Done))
  /\ UNCHANGED <<tables, script, pc, answer, scanned>>

-----------------------------------------------------------------------------
ReadStep(s) ==
  \/ CallChild(s) \/ OpenScan(s) \/ OpenLeaf(s) \/ OpenChildren(s) \/ ChildOpenFailed(s)
  \/ ChildOpened(s) \/ DrainRow(s) \/ DrainFailed(s) \/ CloseDrained(s) \/ ChildDrained(s)
  \/ ComputeWindows(s) \/ Aborted(s) \/ NextBuffered(s) \/ NextStreaming(s) \/ PulledEnd(s)
  \/ PulledRow(s) \/ Close(s) \/ ChildClosed(s)

WriteStep(s) ==
  \/ OpenWriter(s) \/ SourceOpened(s) \/ NoMore(s) \/ HeapMissing(s) \/ InsertBegins(s)
  \/ InsertNextValues(s) \/ InsertPulled(s) \/ UpdateRows(s) \/ DeleteRows(s)
  \/ OpenCreate(s) \/ Register(s) \/ CreateHeap(s) \/ FetchHeap(s) \/ Fill(s) \/ Drop(s)
  \/ AddColumn(s) \/ DropColumn(s) \/ RenameColumn(s) \/ RenameTable(s) \/ CannotDefine(s)
  \/ ChangeStorage(s) \/ SayDone(s)

ExecuteStep(s) == Begin(s) \/ OpenFailed(s) \/ Pull(s) \/ Finish(s) \/ Finished(s)

Step(s) == ReadStep(s) \/ WriteStep(s) \/ ExecuteStep(s)

AllEnded == (\A s \in Stmt : Ended(s)) /\ UNCHANGED vars

Next == (\E s \in Stmt : Step(s)) \/ AllEnded

\* A goroutine that can take a step in the end takes one.  This is WF_vars(Step(s))
\* with what enables a step, and what it changes, spelt out; TLC would compute
\* sorts and windows again to find out whether a step is enabled.
CanStep(s) ==
  ~Ended(s) /\ (pc[s] = "idle" => \A r \in script[s].after : Ended(r))

Moves(s) == <<pc[s], stack[s], reply[s]>>' # <<pc[s], stack[s], reply[s]>>
Fairness(s) == <>[]CanStep(s) => []<><<Moves(s)>>_vars

Spec == Init /\ [][Next]_vars /\ \A s \in Stmt : Fairness(s)

-----------------------------------------------------------------------------
(* Properties.                                                               *)

\* The life cycle of operators/README.md:20-33: Open once and first, Next only on
\* an open operator that has not reached its end, Close once and after Open.
Lawful(s) ==
  Len(stack'[s]) > Len(stack[s]) =>
    LET state == ops[s][Head(stack'[s]).node].state
    IN  CASE Head(stack'[s]).method = "open" -> state = "new"
          [] Head(stack'[s]).method = "next" -> state = "open"
          [] Head(stack'[s]).method = "close" -> state \in {"open", "spent"}

LifeCycle == [][\A s \in Stmt : Lawful(s)]_vars

\* Once Open of the root has succeeded, every operator that was opened is closed
\* again when Execute returns, whether it answers, fails or runs out of time.
NothingLeftOpen ==
  \A s \in Stmt : pc[s] \in {"answered", "failed", "expired"} =>
    \A n \in DOMAIN ops[s] : ops[s][n].state \in {"new", "closed"}

AtWork(s) == pc[s] # "idle" /\ ~Ended(s)

\* Between statements every row has a value for every column of its table, and no
\* others: "keeping heap row data aligned with the schema" (heap.go:94-95).
RowsAligned ==
  (\A s \in Stmt : ~AtWork(s)) =>
    \A t \in DOMAIN catalog \intersect DOMAIN storage :
      \A i \in DOMAIN heap[storage[t]] : Len(heap[storage[t]][i]) = Len(columns[catalog[t]])

\* Between statements a name is in the catalog if and only if it is in the storage.
RegistriesAgree == (\A s \in Stmt : ~AtWork(s)) => DOMAIN catalog = DOMAIN storage

\* No table is redefined under another statement: a name that one statement defines
\* is not at once defined by another, or inserted into, unless it is dropped only.  So
\* do the API and the tests use the engine; nothing in the code enforces it.
NamesOf(node) == {node.table} \union (IF node.kind = "rename" THEN {node.new} ELSE {})
Meet(node, other) ==
  /\ node.kind \in Definitions /\ other.kind \in Definitions \union {"insert"}
  /\ node.kind = "drop" => other.kind \notin {"drop", "insert"}
  /\ NamesOf(node) \intersect NamesOf(other) # {}
Apart ==
  \A s, r \in Stmt : s # r /\ AtWork(s) /\ AtWork(r) =>
    \A n \in DOMAIN script[s].nodes, m \in DOMAIN script[r].nodes :
      ~Meet(script[s].nodes[n], script[r].nodes[m])
=============================================================================
