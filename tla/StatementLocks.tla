--------------------------- MODULE StatementLocks ---------------------------
(***************************************************************************)
(* The locks SQL statements take while they run, each on a goroutine of    *)
(* its own.  A subquery in an expression is run anew for every row the     *)
(* expression is evaluated on (evalIn, runSubquery, RunSelect), and each   *)
(* of its SeqScans takes a heap's read lock for the length of one Scan.    *)
(*                                                                         *)
(*   change   UPDATE and DELETE evaluate their expressions in the          *)
(*            callbacks of UpdateWhere and DeleteWhere, hence under the    *)
(*            write lock of their table                                    *)
(*   insert   INSERT evaluates each VALUES tuple, then takes the write     *)
(*            lock for one Insert                                          *)
(*   select   SELECT scans its table in Open, then evaluates its           *)
(*            expressions holding nothing                                  *)
(*                                                                         *)
(* The mutexes of the storage and of the catalog are taken for a map       *)
(* access alone.  They may be members of Lock that statements read.        *)
(***************************************************************************)
EXTENDS Naturals, Sequences, FiniteSets

CONSTANTS Stmt,     \* statements, one goroutine each
          Lock,     \* one RWMutex per heap
          Shape,    \* the statements that may be issued
          Rank,     \* an order of the tables
          MaxRows,  \* rows a statement evaluates its expressions on
          NoOne

\* target: the table changed or scanned.  reads: the tables the subqueries
\* of one row scan, in order.  rows: how many rows there are.
ShapeType == [kind : {"change", "insert", "select"}, target : Lock,
              reads : Seq(Lock), rows : 0 .. MaxRows]

ASSUME ShapeAssumption ==
  /\ Shape \subseteq ShapeType
  /\ Rank \in [Lock -> Nat]
  /\ MaxRows \in Nat
  /\ NoOne \notin Stmt

VARIABLES mu,       \* HeapTable.mu, by table
          pc,
          shape,    \* the statement's shape once it has begun
          left,     \* rows it has still to evaluate
          next      \* place in reads of the scan that is next, 0 for the outer scan

vars == <<mu, pc, shape, left, next>>

M == INSTANCE RWMutex WITH Goroutine <- Stmt

Goto(s, label) == pc' = [pc EXCEPT ![s] = label]

\* Mutant: an INSERT holds the write lock from the start.
UnderLockToo(s) == shape[s].kind \in {"change", "insert"}

\* Expressions are evaluated in callbacks under the table's write lock.
UnderLock(s) == shape[s].kind = "change"

Init ==
  /\ mu = [m \in Lock |-> M!Free]
  /\ pc = [s \in Stmt |-> "idle"]
  /\ shape \in [Stmt -> Shape]
  /\ left = [s \in Stmt |-> 0]
  /\ next = [s \in Stmt |-> 1]

Begin(s) ==
  /\ pc[s] = "idle"
  /\ left' = [left EXCEPT ![s] = shape[s].rows]
  /\ next' = [next EXCEPT ![s] = IF shape[s].kind = "select" THEN 0 ELSE 1]
  /\ Goto(s, IF UnderLock(s) THEN "lock" ELSE "row")
  /\ UNCHANGED <<mu, shape>>

-----------------------------------------------------------------------------
(* Scans: SeqScan.Open of the statement itself and of its subqueries *)

Scans(s)   == next[s] = 0 \/ (left[s] > 0 /\ next[s] <= Len(shape[s].reads))
Scanned(s) == IF next[s] = 0 THEN shape[s].target ELSE shape[s].reads[next[s]]

RLock(s) ==
  /\ pc[s] = "row" /\ Scans(s)
  /\ mu' = [mu EXCEPT ![Scanned(s)] = M!RLocked(@, s)]
  /\ Goto(s, "read")
  /\ UNCHANGED <<shape, left, next>>

\* Mutant: Scan does not give the lock back.
ScanKeeping(s) ==
  /\ pc[s] = "read" /\ M!Reading(mu[Scanned(s)], s)
  /\ next' = [next EXCEPT ![s] = @ + 1]
  /\ Goto(s, "row")
  /\ UNCHANGED <<mu, shape, left>>

\* The copy is made and the lock given back.
Scan(s) ==
  /\ pc[s] = "read" /\ M!Reading(mu[Scanned(s)], s)
  /\ mu' = [mu EXCEPT ![Scanned(s)] = M!RUnlocked(@, s)]
  /\ next' = [next EXCEPT ![s] = @ + 1]
  /\ Goto(s, "row")
  /\ UNCHANGED <<shape, left>>

\* A row may not need a subquery: a NULL before IN, a CASE decided before it.
Skip(s) ==
  /\ pc[s] = "row" /\ left[s] > 0 /\ next[s] \in 1 .. Len(shape[s].reads)
  /\ next' = [next EXCEPT ![s] = @ + 1]
  /\ UNCHANGED <<mu, pc, shape, left>>

Evaluated(s) == pc[s] = "row" /\ left[s] > 0 /\ next[s] > Len(shape[s].reads)

\* All expressions of a row are evaluated: an INSERT goes for the lock.
RowDone(s) ==
  /\ Evaluated(s)
  /\ IF shape[s].kind = "insert" /\ ~UnderLock(s)
     THEN Goto(s, "lock") /\ UNCHANGED <<left, next>>
     ELSE /\ left' = [left EXCEPT ![s] = @ - 1]
          /\ next' = [next EXCEPT ![s] = 1]
          /\ pc' = pc
  /\ UNCHANGED <<mu, shape>>

-----------------------------------------------------------------------------
(* The write lock of the statement's table *)

Announce(s) ==
  /\ pc[s] = "lock"
  /\ M!CanAnnounce(mu[shape[s].target])
  /\ mu' = [mu EXCEPT ![shape[s].target] = M!Announced(@, s)]
  /\ Goto(s, "wait")
  /\ UNCHANGED <<shape, left, next>>

Acquire(s) ==
  /\ pc[s] = "wait"
  /\ M!CanLock(mu[shape[s].target], s)
  /\ mu' = [mu EXCEPT ![shape[s].target] = M!Locked(@)]
  /\ Goto(s, IF UnderLock(s) THEN "row" ELSE "append")
  /\ UNCHANGED <<shape, left, next>>

Release(s) == mu' = [mu EXCEPT ![shape[s].target] = M!Unlocked(@)]

\* Insert appends the tuple and unlocks.
AppendRow(s) ==
  /\ pc[s] = "append"
  /\ Release(s)
  /\ left' = [left EXCEPT ![s] = @ - 1]
  /\ next' = [next EXCEPT ![s] = 1]
  /\ Goto(s, "row")
  /\ UNCHANGED shape

\* The rows are evaluated.  A SELECT or INSERT also ends at an error and at the
\* deadline; the callbacks of UPDATE and DELETE note the error and go on.
Ends(s) == pc[s] = "row" /\ (UnderLock(s) => left[s] = 0 /\ next[s] > 0)

\* Mutant: UpdateWhere and DeleteWhere return without Unlock.
FinishLocked(s) ==
  /\ Ends(s)
  /\ UNCHANGED mu
  /\ Goto(s, "done")
  /\ UNCHANGED <<shape, left, next>>

\* UpdateWhere and DeleteWhere unlock, the statement ends.
Finish(s) ==
  /\ Ends(s)
  /\ IF UnderLock(s) THEN Release(s) ELSE UNCHANGED mu
  /\ Goto(s, "done")
  /\ UNCHANGED <<shape, left, next>>

-----------------------------------------------------------------------------
Step(s) ==
  \/ RLock(s) \/ Scan(s) \/ Skip(s) \/ RowDone(s)
  \/ Announce(s) \/ Acquire(s) \/ AppendRow(s) \/ Finish(s)

Next == \E s \in Stmt : Begin(s) \/ Step(s)

Spec == Init /\ [][Next]_vars

\* A goroutine that can run does.
FairSpec == Spec /\ \A s \in Stmt : WF_vars(Step(s))

-----------------------------------------------------------------------------
(* Properties *)

TypeOK ==
  /\ mu \in [Lock -> M!Mutex]
  /\ pc \in [Stmt -> {"idle", "row", "read", "lock", "wait", "append", "done"}]
  /\ shape \in [Stmt -> Shape]
  /\ left \in [Stmt -> 0 .. MaxRows]
  /\ next \in [Stmt -> Nat]

Active(s) == pc[s] \notin {"idle", "done"}

\* The goroutine waits inside Lock or RLock.
Blocked(s) ==
  \/ pc[s] = "read" /\ ~M!Reading(mu[Scanned(s)], s)
  \/ pc[s] = "lock" /\ ~M!CanAnnounce(mu[shape[s].target])
  \/ pc[s] = "wait" /\ ~M!CanLock(mu[shape[s].target], s)

\* The tables can be ordered such that a subquery of an UPDATE or DELETE only
\* reads tables before the one that is changed.
Ordered ==
  \A a \in Shape : a.kind = "change" =>
    \A i \in 1 .. Len(a.reads) : Rank[a.reads[i]] < Rank[a.target]

\* Under that condition the statements never all wait for each other,
\* although a writer that waits holds new readers up.
SomeoneRuns ==
  Ordered /\ (\E s \in Stmt : Active(s)) => \E s \in Stmt : Active(s) /\ ~Blocked(s)

-----------------------------------------------------------------------------
(* The strengthening that makes SomeoneRuns inductive                        *)

\* s stands between its announcement and its Unlock on m.
Writes(s, m) ==
  /\ shape[s].target = m
  /\ \/ pc[s] \in {"wait", "append"}
     \/ UnderLock(s) /\ pc[s] \in {"row", "read"}

\* The writer a mutex knows of is the statement that stands there ...
WriterInv == \A m \in Lock, s \in Stmt : mu[m].writer = s <=> Writes(s, m)

\* ... and its readers are the statements that scan its table.
ReaderInv ==
  \A m \in Lock, s \in Stmt :
    s \in mu[m].readers \union mu[m].queued <=> pc[s] = "read" /\ Scanned(s) = m

\* A reader is queued only behind a writer; a working writer is alone.
MutexInv ==
  \A m \in Lock :
    /\ mu[m].queued # {} => mu[m].writer # NoOne
    /\ mu[m].readers \intersect mu[m].queued = {}
    /\ mu[m].locked => mu[m].writer # NoOne /\ mu[m].readers = {}
    /\ \A s \in Stmt : mu[m].writer = s => (mu[m].locked <=> pc[s] # "wait")

PlaceInv ==
  \A s \in Stmt :
    /\ pc[s] = "read" => Scans(s)
    /\ pc[s] \in {"lock", "wait"} => shape[s].kind \in {"change", "insert"}
    /\ pc[s] = "append" => shape[s].kind = "insert" /\ left[s] > 0
    /\ shape[s].kind = "insert" /\ pc[s] \in {"lock", "wait"} => left[s] > 0
    /\ shape[s].kind # "select" => next[s] # 0

LockInv == WriterInv /\ ReaderInv /\ MutexInv /\ PlaceInv

-----------------------------------------------------------------------------
(* Properties of other settings                                              *)

\* README.md documents DELETE, UPDATE and IN (SELECT ...) for WHERE without
\* restriction: a statement that has begun comes to its end.
StatementsEnd == \A s \in Stmt : Active(s) ~> pc[s] = "done"
=============================================================================
