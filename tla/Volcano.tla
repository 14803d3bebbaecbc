------------------------------- MODULE Volcano ------------------------------
(***************************************************************************)
(* executor.go and the operators of internal/executor/operators: a tree of *)
(* operators, each with Open, Next and Close, that Execute drives from the *)
(* root.  The calls of one statement are a stack of frames.  A frame says  *)
(* which operator runs which method, how far it has come and which of its  *)
(* children it is at; the value a method returns waits in reply until the  *)
(* caller takes it.                                                        *)
(*                                                                         *)
(* A statement is a goroutine; they share the tables.  This module has the *)
(* operators that read; Statements adds those that write.                  *)
(***************************************************************************)
EXTENDS Windows

CONSTANTS Stmt,       \* statements, a goroutine each
          Scenarios,  \* what they execute: each a function from Stmt to scripts
          Hurried     \* the statements of requests, whose deadline may pass

\* A statement's script: its plan, and the statements it comes after.
Script(nodes, after) == [nodes |-> nodes, after |-> after]

\* A plan is a sequence of nodes of planner/physical/nodes.go, its root first;
\* kids are the places of a node's children.
SeqScan(table, alias) == [kind |-> "scan", kids |-> <<>>, table |-> table, alias |-> alias]
ConstantScan == [kind |-> "constant", kids |-> <<>>]
Empty(cols) == [kind |-> "empty", kids |-> <<>>, cols |-> cols]
FilterOp(kid, pred) == [kind |-> "filter", kids |-> <<kid>>, pred |-> pred]
Projection(kid, items) == [kind |-> "project", kids |-> <<kid>>, items |-> items]
Distinct(kid) == [kind |-> "distinct", kids |-> <<kid>>]
SortOp(kid, specs) == [kind |-> "sort", kids |-> <<kid>>, specs |-> specs]
Limit(kid, count, offset) == [kind |-> "limit", kids |-> <<kid>>, count |-> count, offset |-> offset]
SetOp(op, all, left, right) == [kind |-> "setop", kids |-> <<left, right>>, op |-> op, all |-> all]
HashAggregate(kid, groupBy, aggs) ==
  [kind |-> "aggregate", kids |-> <<kid>>, groupBy |-> groupBy, aggs |-> aggs]
WindowOp(kid, windows) == [kind |-> "window", kids |-> <<kid>>, windows |-> windows]
Explain(kid, analyze) == [kind |-> "explain", kids |-> <<kid>>, analyze |-> analyze]

Streaming == {"filter", "project", "distinct", "limit"}
Draining == {"setop", "sort", "aggregate", "window", "explain"}   \* in Open

VARIABLES catalog,    \* Catalog.tables: a table for each name
          columns,    \* Table.Columns, by table
          storage,    \* Storage.tables: a heap for each name
          heap,       \* HeapTable.rows, by heap
          script,     \* what each statement executes
          pc,         \* how far Execute has come
          stack, reply,
          ops,        \* the state of each operator of each statement
          answer,     \* Result.Rows
          scanned     \* the tuples each scan, UPDATE and DELETE has found (history)

tables == <<catalog, columns, storage, heap>>
vars == <<catalog, columns, storage, heap, script, pc, stack, reply, ops, answer, scanned>>

NoReply == [kind |-> "none"]
Ok == [kind |-> "ok"]
Eof == [kind |-> "eof"]
Error == [kind |-> "error"]
Row(t) == [kind |-> "row", tuple |-> t]

\* table, heap: the *Table the plan holds and the *HeapTable the operator got.
\* pos: the place in rows, for Limit the rows skipped.  count: rows emitted or
\* affected, for DROP COLUMN the place of the column, for CREATE TABLE the number of
\* its columns.  left: the rows of a set operation's first child.
Blank == [state |-> "new", table |-> "", heap |-> "", schema |-> <<>>, rows |-> <<>>, left |-> <<>>,
          groups |-> <<>>, pos |-> 0, count |-> 0, seen |-> {}]

-----------------------------------------------------------------------------
Top(s) == Head(stack[s])
Node(s) == script[s].nodes[Top(s).node]
Op(s) == ops[s][Top(s).node]
Kid(s) == Node(s).kids[Top(s).kid]
KidSchema(s, k) == ops[s][Node(s).kids[k]].schema

In(s, method, step) == stack[s] # <<>> /\ Top(s).method = method /\ Top(s).step = step
Enters(s, method, kinds) == In(s, method, "enter") /\ Node(s).kind \in kinds
Got(s, kinds) == reply[s].kind \in kinds

Called(frames, n, method) ==
  <<[node |-> n, method |-> method, step |-> "enter", kid |-> 1]>> \o frames

Call(s, n, method) ==
  /\ stack' = [stack EXCEPT ![s] = Called(@, n, method)]
  /\ reply' = [reply EXCEPT ![s] = NoReply]

\* The state an operator is in once a method has returned r.
StateAfter(method, r, state) ==
  CASE method = "open" -> IF r = Ok THEN "open" ELSE "failed"
    [] method = "next" -> IF r.kind = "row" THEN state ELSE "spent"
    [] method = "close" -> "closed"

ReturnWith(s, op, r) ==
  /\ ops' = [ops EXCEPT ![s][Top(s).node] =
               [op EXCEPT !.state = StateAfter(Top(s).method, r, @)]]
  /\ stack' = [stack EXCEPT ![s] = Tail(@)]
  /\ reply' = [reply EXCEPT ![s] = r]

Return(s, r) == ReturnWith(s, Op(s), r)

\* The frame goes on at another step, with what it has received taken.
Goto(s, step, kid) ==
  /\ stack' = [stack EXCEPT ![s][1] = [@ EXCEPT !.step = step, !.kid = kid]]
  /\ reply' = [reply EXCEPT ![s] = NoReply]

GotoWith(s, op, step, kid) == ops' = [ops EXCEPT ![s][Top(s).node] = op] /\ Goto(s, step, kid)

\* A panic unwinds the whole statement.
Panic(s) ==
  /\ stack' = [stack EXCEPT ![s] = <<>>]
  /\ reply' = [reply EXCEPT ![s] = NoReply]
  /\ pc' = [pc EXCEPT ![s] = "panicked"]
  /\ UNCHANGED ops

-----------------------------------------------------------------------------
(* A parent calls the child it is at: op.Child.Open, Next or Close.          *)

MethodAt == [open |-> "open", drain |-> "next", pull |-> "next", close |-> "close",
             abort |-> "close"]

CallChild(s) ==
  /\ stack[s] # <<>> /\ Top(s).step \in DOMAIN MethodAt
  /\ Got(s, {"none"})
  /\ Call(s, Kid(s), MethodAt[Top(s).step])
  /\ UNCHANGED <<tables, script, pc, ops, answer, scanned>>

-----------------------------------------------------------------------------
(* Open                                                                      *)

OutputSchema(node, below) ==
  CASE node.kind = "project" -> [k \in DOMAIN node.items |-> HeaderName(node.items[k])]
    [] node.kind = "aggregate" -> AggHeader(node.groupBy, node.aggs)
    [] node.kind = "window" -> WindowSchema(node.windows, below)
    [] node.kind = "explain" -> <<Name("", "Plan")>>
    [] OTHER -> below

OpenScan(s) ==
  LET node == Node(s)
      schema == [i \in DOMAIN columns[Op(s).table] |-> Name(node.alias, columns[Op(s).table][i])]
      found == [i \in DOMAIN heap[storage[node.table]] |-> Tuple(heap[storage[node.table]][i], schema)]
  IN  /\ Enters(s, "open", {"scan"})
      /\ \/ /\ node.table \notin DOMAIN storage
            /\ Return(s, Error)
            /\ UNCHANGED scanned
         \/ /\ node.table \in DOMAIN storage
            /\ ReturnWith(s, [Op(s) EXCEPT !.schema = schema, !.rows = found], Ok)
            /\ scanned' = [scanned EXCEPT ![s] = Append(@, [node |-> Top(s).node, tuples |-> found])]
      /\ UNCHANGED <<tables, script, pc, answer>>

OpenLeaf(s) ==
  /\ \/ /\ Enters(s, "open", {"constant"})
        /\ ReturnWith(s, [Op(s) EXCEPT !.rows = <<Tuple(<<>>, <<>>)>>], Ok)
     \/ /\ Enters(s, "open", {"empty"})
        /\ ReturnWith(s, [Op(s) EXCEPT !.schema = Node(s).cols], Ok)
     \/ /\ Enters(s, "open", {"explain"}) /\ ~Node(s).analyze
        /\ Return(s, Ok)
  /\ UNCHANGED <<tables, script, pc, answer, scanned>>

OpenChildren(s) ==
  /\ Enters(s, "open", Streaming \union Draining)
  /\ Node(s).kind = "explain" => Node(s).analyze
  /\ Goto(s, "open", 1)
  /\ UNCHANGED <<tables, script, pc, ops, answer, scanned>>

ChildOpenFailed(s) ==
  /\ In(s, "open", "open") /\ Got(s, {"error"})
  /\ Return(s, Error)
  /\ UNCHANGED <<tables, script, pc, answer, scanned>>

\* All children are open: what Open does before it drains them or returns.
CannotServe(s) ==
  \/ Node(s).kind = "limit" /\ ~(ValidBound(Node(s).count) /\ ValidBound(Node(s).offset))
  \/ Node(s).kind = "setop" /\ Len(KidSchema(s, 1)) # Len(KidSchema(s, 2))

ChildOpened(s) ==
  LET opened == [Op(s) EXCEPT !.schema = OutputSchema(Node(s), KidSchema(s, 1))]
  IN  /\ In(s, "open", "open") /\ Got(s, {"ok"})
      /\ Node(s).kind \in Streaming \union Draining
      /\ \/ /\ Top(s).kid < Len(Node(s).kids)
            /\ Goto(s, "open", Top(s).kid + 1)
            /\ UNCHANGED ops
         \/ /\ Top(s).kid = Len(Node(s).kids)
            /\ \/ CannotServe(s) /\ Return(s, Error)
               \/ ~CannotServe(s) /\ Node(s).kind \in Streaming /\ ReturnWith(s, opened, Ok)
               \/ ~CannotServe(s) /\ Node(s).kind \in Draining /\ GotoWith(s, opened, "drain", 1)
      /\ UNCHANGED <<tables, script, pc, answer, scanned>>

-----------------------------------------------------------------------------
(* Open of an operator that reads all its input first.                       *)

GroupVals(s, t) == GroupValues(Node(s).groupBy, t)

DrainRow(s) ==
  LET t == reply[s].tuple
      grouping == Node(s).kind = "aggregate"
      kept == IF grouping
              THEN [Op(s) EXCEPT !.groups = Grouped(@, GroupVals(s, t), Node(s).aggs, t)]
              ELSE IF Node(s).kind = "explain" THEN [Op(s) EXCEPT !.count = @ + 1]
              ELSE [Op(s) EXCEPT !.rows = Append(@, t)]
  IN  /\ In(s, "open", "drain") /\ Got(s, {"row"}) /\ Node(s).kind \in Draining
      /\ \/ grouping /\ HasError(GroupVals(s, t)) /\ Return(s, Error)
         \/ ~(grouping /\ HasError(GroupVals(s, t))) /\ GotoWith(s, kept, "drain", Top(s).kid)
      /\ UNCHANGED <<tables, script, pc, answer, scanned>>

\* Of these operators only WindowOp closes its child when it cannot go on.
DrainFailed(s) ==
  /\ In(s, "open", "drain") /\ Got(s, {"error"}) /\ Node(s).kind \in Draining
  /\ \/ Node(s).kind = "window" /\ Goto(s, "abort", 1) /\ UNCHANGED ops
     \/ Node(s).kind # "window" /\ Return(s, Error)
  /\ UNCHANGED <<tables, script, pc, answer, scanned>>

Buffered(s) ==
  LET op == Op(s)
      node == Node(s)
      groups == Groups(node, op.groups)
  IN  CASE node.kind = "sort" -> Sorted(node.specs, op.rows)
        [] node.kind = "setop" -> Combined(node.op, node.all, op.left, op.rows)
        [] node.kind = "aggregate" -> [g \in DOMAIN groups |-> Tuple(GroupRow(groups[g]), op.schema)]
        [] node.kind = "explain" -> <<Tuple(<<IntValue(op.count)>>, op.schema)>>

DrainedAll(s) == In(s, "open", "drain") /\ Got(s, {"eof"}) /\ Node(s).kind \in Draining

CloseDrained(s) ==
  /\ DrainedAll(s) /\ Node(s).kind # "window"
  /\ Goto(s, "close", Top(s).kid)
  /\ UNCHANGED <<tables, script, pc, ops, answer, scanned>>

ChildDrained(s) ==
  /\ In(s, "open", "close") /\ Got(s, {"ok"})
  /\ \/ /\ Top(s).kid < Len(Node(s).kids)
        /\ GotoWith(s, [Op(s) EXCEPT !.left = Op(s).rows, !.rows = <<>>], "drain", Top(s).kid + 1)
     \/ /\ Top(s).kid = Len(Node(s).kids)
        /\ ReturnWith(s, [Op(s) EXCEPT !.rows = Buffered(s), !.left = <<>>, !.groups = <<>>], Ok)
  /\ UNCHANGED <<tables, script, pc, answer, scanned>>

\* computeWindow for each window.
Computed(s, cols) ==
  LET met == UNION {ToSet(cols[k]) : k \in DOMAIN cols} \intersect (Errors \union {Panicked})
      wide == WindowTuples(Node(s).windows, cols, Op(s).rows, KidSchema(s, 1))
  IN  \/ met = {} /\ ReturnWith(s, [Op(s) EXCEPT !.rows = wide], Ok) /\ UNCHANGED pc
      \/ met \intersect Errors # {} /\ Goto(s, "abort", 1) /\ UNCHANGED <<ops, pc>>
      \/ Panicked \in met /\ Panic(s)

ComputeWindows(s) ==
  /\ DrainedAll(s) /\ Node(s).kind = "window"
  /\ Computed(s, WindowColumns(Node(s).windows, Op(s).rows))
  /\ UNCHANGED <<tables, script, answer, scanned>>

Aborted(s) ==
  /\ In(s, "open", "abort") /\ Got(s, {"ok"})
  /\ Return(s, Error)
  /\ UNCHANGED <<tables, script, pc, answer, scanned>>

-----------------------------------------------------------------------------
(* Next                                                                      *)

NextBuffered(s) ==
  /\ Enters(s, "next", Draining \union {"scan", "constant", "empty"})
  /\ \/ Op(s).pos >= Len(Op(s).rows) /\ Return(s, Eof)
     \/ /\ Op(s).pos < Len(Op(s).rows)
        /\ ReturnWith(s, [Op(s) EXCEPT !.pos = @ + 1], Row(Op(s).rows[Op(s).pos + 1]))
  /\ UNCHANGED <<tables, script, pc, answer, scanned>>

\* Mutant: the limit is noticed a row late.
LimitReachedLate(s) ==
  /\ Node(s).kind = "limit" /\ Node(s).count # <<>>
  /\ Op(s).count > Constant(Node(s).count[1]).val

LimitReached(s) ==
  /\ Node(s).kind = "limit" /\ Node(s).count # <<>>
  /\ Op(s).count >= Constant(Node(s).count[1]).val

Skipping(s) ==
  Node(s).offset # <<>> /\ Op(s).pos < Constant(Node(s).offset[1]).val

NextStreaming(s) ==
  /\ Enters(s, "next", Streaming)
  /\ \/ LimitReached(s) /\ Return(s, Eof)
     \/ ~LimitReached(s) /\ Goto(s, "pull", 1) /\ UNCHANGED ops
  /\ UNCHANGED <<tables, script, pc, answer, scanned>>

\* Mutant: the end of the child is not noticed.
PulledEndAgain(s) ==
  /\ In(s, "next", "pull") /\ Got(s, {"eof", "error"}) /\ Node(s).kind \in Streaming
  /\ \/ Got(s, {"error"}) /\ Return(s, reply[s])
     \/ Got(s, {"eof"}) /\ Goto(s, "pull", 1) /\ UNCHANGED ops
  /\ UNCHANGED <<tables, script, pc, answer, scanned>>

PulledEnd(s) ==
  /\ In(s, "next", "pull") /\ Got(s, {"eof", "error"}) /\ Node(s).kind \in Streaming
  /\ Return(s, reply[s])
  /\ UNCHANGED <<tables, script, pc, answer, scanned>>

\* What a row from the child becomes: an error, a row, or nothing, and then
\* the next one is pulled.
Accepts(s, t) ==
  LET node == Node(s)
  IN  CASE node.kind = "filter" -> IsTruthy(ValueOf(node.pred, t))
        [] node.kind = "project" -> TRUE
        [] node.kind = "distinct" -> TupleKey(t) \notin Op(s).seen
        [] node.kind = "limit" -> ~Skipping(s)

Fails(s, t) ==
  LET node == Node(s)
  IN  \/ node.kind = "filter" /\ IsError(ValueOf(node.pred, t))
      \/ /\ node.kind = "project"
         /\ \E k \in DOMAIN node.items : IsError(ValueOf(node.items[k].expr, t))

Made(s, t) ==
  IF Node(s).kind # "project" THEN t
  ELSE Tuple([k \in DOMAIN Node(s).items |-> ValueOf(Node(s).items[k].expr, t)], Op(s).schema)

PulledRow(s) ==
  LET t == reply[s].tuple
      noted == CASE Node(s).kind = "distinct" -> [Op(s) EXCEPT !.seen = @ \union {TupleKey(t)}]
                 [] Node(s).kind = "limit" -> IF Skipping(s) THEN [Op(s) EXCEPT !.pos = @ + 1]
                                              ELSE [Op(s) EXCEPT !.count = @ + 1]
                 [] OTHER -> Op(s)
  IN  /\ In(s, "next", "pull") /\ Got(s, {"row"}) /\ Node(s).kind \in Streaming
      /\ \/ Fails(s, t) /\ Return(s, Error)
         \/ ~Fails(s, t) /\ Accepts(s, t) /\ ReturnWith(s, noted, Row(Made(s, t)))
         \/ ~Fails(s, t) /\ ~Accepts(s, t) /\ GotoWith(s, noted, "pull", 1)
      /\ UNCHANGED <<tables, script, pc, answer, scanned>>

-----------------------------------------------------------------------------
(* Close                                                                     *)

\* Mutant: Sort, which has closed its child in Open, closes it again.
ClosesChildAgain(node) ==
  \/ node.kind \in Streaming \union {"window", "sort"}
  \/ node.kind \in {"insert", "create"} /\ node.kids # <<>>

\* Operators that drain their children in Open have closed them there, but for
\* WindowOp.
ClosesChild(node) ==
  \/ node.kind \in Streaming \union {"window"}
  \/ node.kind \in {"insert", "create"} /\ node.kids # <<>>

Close(s) ==
  /\ In(s, "close", "enter")
  /\ \/ ClosesChild(Node(s)) /\ Goto(s, "close", 1) /\ UNCHANGED ops
     \/ ~ClosesChild(Node(s)) /\ ReturnWith(s, [Op(s) EXCEPT !.rows = <<>>], Ok)
  /\ UNCHANGED <<tables, script, pc, answer, scanned>>

ChildClosed(s) ==
  /\ In(s, "close", "close") /\ Got(s, {"ok"})
  /\ ReturnWith(s, [Op(s) EXCEPT !.rows = <<>>, !.seen = {}], Ok)
  /\ UNCHANGED <<tables, script, pc, answer, scanned>>

-----------------------------------------------------------------------------
(* Execute                                                                   *)

AtRoot(s, label) == stack[s] = <<>> /\ pc[s] = label

OpenFailed(s) ==
  /\ AtRoot(s, "opening") /\ Got(s, {"error"})
  /\ pc' = [pc EXCEPT ![s] = "open failed"]
  /\ reply' = [reply EXCEPT ![s] = NoReply]
  /\ UNCHANGED <<tables, script, stack, ops, answer, scanned>>

\* The deadline is looked at before each row.
Pull(s) ==
  /\ \/ AtRoot(s, "opening") /\ Got(s, {"ok"})
     \/ AtRoot(s, "pulling") /\ Got(s, {"row"})
  /\ \/ Call(s, 1, "next") /\ pc' = [pc EXCEPT ![s] = "pulling"]
     \/ s \in Hurried /\ Call(s, 1, "close") /\ pc' = [pc EXCEPT ![s] = "expiring"]
  /\ answer' = IF Got(s, {"row"}) THEN [answer EXCEPT ![s] = Append(@, reply[s].tuple)] ELSE answer
  /\ UNCHANGED <<tables, script, ops, scanned>>

\* Mutant: an error of Next is returned without Close.
FinishOpen(s) ==
  /\ AtRoot(s, "pulling") /\ Got(s, {"eof", "error"})
  /\ \/ Got(s, {"eof"}) /\ Call(s, 1, "close") /\ pc' = [pc EXCEPT ![s] = "answering"]
     \/ /\ Got(s, {"error"}) /\ pc' = [pc EXCEPT ![s] = "failed"]
        /\ reply' = [reply EXCEPT ![s] = NoReply] /\ UNCHANGED stack
  /\ UNCHANGED <<tables, script, ops, answer, scanned>>

\* Execute returns, and its deferred Close runs.
Finish(s) ==
  /\ AtRoot(s, "pulling") /\ Got(s, {"eof", "error"})
  /\ pc' = [pc EXCEPT ![s] = IF Got(s, {"eof"}) THEN "answering" ELSE "failing"]
  /\ Call(s, 1, "close")
  /\ UNCHANGED <<tables, script, ops, answer, scanned>>

Verdict == [answering |-> "answered", failing |-> "failed", expiring |-> "expired"]

Finished(s) ==
  /\ stack[s] = <<>> /\ pc[s] \in DOMAIN Verdict /\ Got(s, {"ok"})
  /\ pc' = [pc EXCEPT ![s] = Verdict[@]]
  /\ reply' = [reply EXCEPT ![s] = NoReply]
  /\ UNCHANGED <<tables, script, stack, ops, answer, scanned>>

Ended(s) ==
  pc[s] \in {"answered", "failed", "expired", "open failed", "rejected", "panicked", "absent"}
=============================================================================
