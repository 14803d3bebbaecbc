---------------------------- MODULE SchemaServer ----------------------------
(***************************************************************************)
(* The HTTP handlers of api/handler.go over the catalog and the storage    *)
(* they share.  net/http runs every request on a goroutine of its own; the *)
(* catalog, the storage map, each heap and the statistics map have         *)
(* separate locks and no handler holds one across two calls.  A step of    *)
(* this module is one locked call of one request, so every interleaving of *)
(* the handlers at that grain is a behaviour.                              *)
(*                                                                         *)
(*   Creator   POST /api/schema/table   handleCreateTable                  *)
(*   Seeder    POST /api/schema/seed    handleSeed                         *)
(*   Inserter  POST /api/query          handleQuery with INSERT .. VALUES  *)
(*   Selector  POST /api/query          handleQuery with SELECT            *)
(*   Lister    GET  /api/schema         handleSchema                       *)
(*                                                                         *)
(* Each member of these sets is one request; a client that retries is      *)
(* another member.  The process has no persistent state: a restart is the  *)
(* initial state again.                                                    *)
(***************************************************************************)
EXTENDS Naturals, Sequences, FiniteSets

CONSTANTS Name, Creator, Seeder, Inserter, Selector, Lister,
          Boot,         \* storage.Seed called by main before the server starts
          SeedSeq,      \* the seed tables in the order seed.go lists them
          CreateNames,  \* names CREATE TABLE requests may use
          SeedRows,     \* rows inserted per seed table
          InsertRows,   \* VALUES tuples per INSERT
          NoTable, NoHeap, NoStats

Statement == Inserter \union Selector
Walker    == Seeder \union Lister
Request   == Creator \union Statement \union Walker
Owner     == Creator \union Seeder \union {Boot}
SeedNames == {SeedSeq[i] : i \in 1 .. Len(SeedSeq)}
UserNames == Name \ SeedNames

\* A *Table and a *HeapTable are allocated at most once per request and name.
Heap == Owner \X Name
Row  == [schema : Owner \union {NoTable}, by : Request \union {Boot}, k : Nat]

ASSUME RolesAssumption ==
  /\ Creator \intersect (Statement \union Walker) = {}
  /\ Seeder \intersect (Statement \union Lister) = {}
  /\ Inserter \intersect (Selector \union Lister) = {}
  /\ Selector \intersect Lister = {}
  /\ Boot \notin Request
  /\ NoTable \notin Owner
  /\ NoHeap \notin Heap
  /\ NoStats \notin SUBSET Row

ASSUME SeedAssumption ==
  /\ SeedSeq \in Seq(Name)
  /\ Len(SeedSeq) > 0
  /\ \A i, j \in 1 .. Len(SeedSeq) : SeedSeq[i] = SeedSeq[j] => i = j
  /\ SeedRows \in Nat \ {0}
  /\ InsertRows \in Nat \ {0}
  /\ CreateNames \subseteq Name

VARIABLES
  catalog, store, rows,  \* the shared registries
  statsMap,  \* Server.statsMap: the rows the statistics of a table were collected from
  pc,        \* where each request stands
  target,    \* the table a request is working on
  plan,      \* the *Table the request's plan was built with
  held,      \* *HeapTable pointers a request holds, by table
  pos,       \* index into SeedSeq of a seeder's current pass
  nth,       \* number of the row a request inserts next
  todo,      \* names of cat.List() a walker has not visited yet
  seen,      \* the rows a request has read, by table
  acked      \* tables whose 201 reply preceded the request (history)

shared == <<catalog, store, rows, statsMap>>
local  == <<target, plan, held, pos, nth, todo, seen, acked>>
vars   == <<shared, pc, local>>

Cat == INSTANCE CatalogRegistry WITH Table <- Owner
Sto == INSTANCE StorageRegistry

Goto(r, label) == pc' = [pc EXCEPT ![r] = label]

Idle(r)    == pc[r] = "idle"
Replied(r) == pc[r] \in {"ok", "rejected", "conflict", "failed", "panicked",
                         "unknownTable", "noHeap", "timeout"}

Acked == {n \in Name : \E c \in Creator : pc[c] = "ok" /\ target[c] = n}

-----------------------------------------------------------------------------
(* Initial state: main has seeded the registries and collected statistics  *)

SeedRow(o, k) == [schema |-> o, by |-> o, k |-> k]
SeedHeap(o)   == {SeedRow(o, k) : k \in 1 .. SeedRows}

Init ==
  /\ catalog = [n \in Name |-> IF n \in SeedNames THEN Boot ELSE NoTable]
  /\ store = [n \in Name |-> IF n \in SeedNames THEN <<Boot, n>> ELSE NoHeap]
  /\ rows = [h \in Heap |->
               IF h[1] = Boot /\ h[2] \in SeedNames THEN SeedHeap(Boot) ELSE {}]
  /\ statsMap = [n \in Name |-> IF n \in SeedNames THEN SeedHeap(Boot) ELSE NoStats]
  /\ pc = [r \in Request |-> "idle"]
  /\ target = [r \in Request |-> SeedSeq[1]]
  /\ plan = [r \in Request |-> NoTable]
  /\ held = [r \in Request |-> [n \in Name |-> NoHeap]]
  /\ pos = [r \in Request |-> 1]
  /\ nth = [r \in Request |-> 1]
  /\ todo = [r \in Request |-> {}]
  /\ seen = [r \in Request |-> [n \in Name |-> NoStats]]
  /\ acked = [r \in Request |-> {}]

\* A request arrives and passes decoding, parsing and authorisation; it names
\* its table, if it names one.
Arrive(r) ==
  /\ Idle(r)
  /\ \/ /\ r \in Creator
        /\ \E n \in CreateNames : target' = [target EXCEPT ![r] = n]
        /\ Goto(r, "register")
     \/ /\ r \in Statement
        /\ \E n \in Name : target' = [target EXCEPT ![r] = n]
        /\ Goto(r, "analyze")
     \/ r \in Seeder /\ target' = target /\ Goto(r, "dropCatalog")
     \/ r \in Lister /\ target' = target /\ Goto(r, "list")
  /\ acked' = [acked EXCEPT ![r] = Acked]
  /\ UNCHANGED <<shared, plan, held, pos, nth, todo, seen>>

\* A request arrives and is refused before it touches shared state: bad
\* body, parse error, unsupported statement, no column, missing seed token.
Reject(r) ==
  /\ Idle(r)
  /\ r \notin Lister
  /\ Goto(r, "rejected")
  /\ UNCHANGED <<shared, local>>

-----------------------------------------------------------------------------
(* handleCreateTable *)

\* Mutant: the duplicate is taken for success.
CreateRegisterIgnoring(c) ==
  /\ pc[c] = "register"
  /\ Cat!Register(target[c], c) \/ (Cat!Registered(target[c]) /\ catalog' = catalog)
  /\ Goto(c, "create")
  /\ UNCHANGED <<store, rows, statsMap, local>>

\* Mutant: 201 is answered without a heap.
CreateRegisterOnly(c) ==
  /\ pc[c] = "register"
  /\ \/ Cat!Register(target[c], c) /\ Goto(c, "ok")
     \/ Cat!Registered(target[c]) /\ Goto(c, "conflict") /\ catalog' = catalog
  /\ UNCHANGED <<store, rows, statsMap, local>>

\* Mutant: the 409 path cleans up as the 500 path does.
CreateRegisterCleaning(c) ==
  /\ pc[c] = "register"
  /\ \/ /\ Cat!Register(target[c], c)
        /\ Goto(c, "create")
     \/ /\ Cat!Registered(target[c])
        /\ Goto(c, "conflict")
        /\ Cat!Drop(target[c])
  /\ UNCHANGED <<store, rows, statsMap, local>>

\* cat.Register: a duplicate is answered 409.
CreateRegister(c) ==
  /\ pc[c] = "register"
  /\ \/ /\ Cat!Register(target[c], c)
        /\ Goto(c, "create")
     \/ /\ Cat!Registered(target[c])
        /\ Goto(c, "conflict")
        /\ catalog' = catalog
  /\ UNCHANGED <<store, rows, statsMap, local>>

\* store.CreateTable: answered 201, or the rollback path.
CreateStorage(c) ==
  /\ pc[c] = "create"
  /\ \/ /\ Sto!CreateTable(target[c], <<c, target[c]>>)
        /\ Goto(c, "ok")
     \/ /\ Sto!Stored(target[c])
        /\ Goto(c, "rollback")
        /\ UNCHANGED <<store, rows>>
  /\ UNCHANGED <<catalog, statsMap, local>>

\* s.cat.Drop(ct.Name), then 500.
CreateRollback(c) ==
  /\ pc[c] = "rollback"
  /\ Cat!Drop(target[c])
  /\ Goto(c, "failed")
  /\ UNCHANGED <<store, rows, statsMap, local>>

CreateStep(c) == CreateRegister(c) \/ CreateStorage(c) \/ CreateRollback(c)

-----------------------------------------------------------------------------
(* handleSeed: storage.Reset, then RefreshStats *)

SeedName(s) == SeedSeq[pos[s]]

\* Mutant: the pass does not start over.
AdvancePastEnd(s, next) ==
  /\ pos' = [pos EXCEPT ![s] = @ + 1]
  /\ IF pos[s] < Len(SeedSeq) THEN pc' = pc ELSE Goto(s, next)

\* One pass over the seed tables: stay at this label or start the next pass.
Advance(s, next) ==
  IF pos[s] < Len(SeedSeq)
  THEN pos' = [pos EXCEPT ![s] = @ + 1] /\ pc' = pc
  ELSE pos' = [pos EXCEPT ![s] = 1] /\ Goto(s, next)

\* Mutant: Reset clears the catalog.
SeedDropCatalogAll(s) ==
  /\ pc[s] = "dropCatalog"
  /\ catalog' = [n \in Name |-> NoTable]
  /\ Goto(s, "dropStore")
  /\ UNCHANGED <<store, rows, statsMap, local>>

SeedDropCatalog(s) ==
  /\ pc[s] = "dropCatalog"
  /\ Cat!Drop(SeedName(s))
  /\ Goto(s, "dropStore")
  /\ UNCHANGED <<store, rows, statsMap, local>>

SeedDropStore(s) ==
  /\ pc[s] = "dropStore"
  /\ Sto!DropTable(SeedName(s))
  /\ IF pos[s] < Len(SeedSeq)
     THEN pos' = [pos EXCEPT ![s] = @ + 1] /\ Goto(s, "dropCatalog")
     ELSE pos' = [pos EXCEPT ![s] = 1] /\ Goto(s, "seedRegister")
  /\ UNCHANGED <<catalog, statsMap, target, plan, held, nth, todo, seen, acked>>

\* registerSeedSchema stops at the first error; what it registered stays.
SeedRegister(s) ==
  /\ pc[s] = "seedRegister"
  /\ \/ /\ Cat!Register(SeedName(s), s)
        /\ Advance(s, "seedCreate")
     \/ /\ Cat!Registered(SeedName(s))
        /\ Goto(s, "failed")
        /\ UNCHANGED <<catalog, pos>>
  /\ UNCHANGED <<store, rows, statsMap, target, plan, held, nth, todo, seen, acked>>

\* insertSeedData, first loop: stops at the first error likewise.
SeedCreate(s) ==
  /\ pc[s] = "seedCreate"
  /\ \/ /\ Sto!CreateTable(SeedName(s), <<s, SeedName(s)>>)
        /\ Advance(s, "seedGet")
     \/ /\ Sto!Stored(SeedName(s))
        /\ Goto(s, "failed")
        /\ UNCHANGED <<store, rows, pos>>
  /\ UNCHANGED <<catalog, statsMap, target, plan, held, nth, todo, seen, acked>>

\* MustGetTable: a missing heap panics; the Recoverer middleware answers 500.
SeedGet(s) ==
  /\ pc[s] = "seedGet"
  /\ \/ /\ Sto!Stored(SeedName(s))
        /\ held' = [held EXCEPT ![s][SeedName(s)] = Sto!GetTable(SeedName(s))]
        /\ Advance(s, "seedInsert")
     \/ /\ ~Sto!Stored(SeedName(s))
        /\ Goto(s, "panicked")
        /\ UNCHANGED <<held, pos>>
  /\ UNCHANGED <<shared, target, plan, nth, todo, seen, acked>>

\* Mutant: the last row of each table is left out.
SeedInsertShort(s) ==
  /\ pc[s] = "seedInsert"
  /\ Sto!Insert(held[s][SeedName(s)], SeedRow(s, nth[s]))
  /\ IF nth[s] < SeedRows - 1
     THEN nth' = [nth EXCEPT ![s] = @ + 1] /\ UNCHANGED <<pc, pos>>
     ELSE nth' = [nth EXCEPT ![s] = 1] /\ Advance(s, "list")
  /\ UNCHANGED <<catalog, statsMap, target, plan, held, todo, seen, acked>>

\* The insert loops: SeedRows rows into each table through the held pointers.
SeedInsert(s) ==
  /\ pc[s] = "seedInsert"
  /\ Sto!Insert(held[s][SeedName(s)], SeedRow(s, nth[s]))
  /\ IF nth[s] < SeedRows
     THEN nth' = [nth EXCEPT ![s] = @ + 1] /\ UNCHANGED <<pc, pos>>
     ELSE nth' = [nth EXCEPT ![s] = 1] /\ Advance(s, "list")
  /\ UNCHANGED <<catalog, statsMap, target, plan, held, todo, seen, acked>>

SeedStep(s) ==
  \/ SeedDropCatalog(s) \/ SeedDropStore(s) \/ SeedRegister(s)
  \/ SeedCreate(s) \/ SeedGet(s) \/ SeedInsert(s)

-----------------------------------------------------------------------------
(* RefreshStats and handleSchema: the same walk over cat.List() *)

WalkList(w) ==
  /\ pc[w] = "list"
  /\ todo' = [todo EXCEPT ![w] = Cat!List]
  /\ Goto(w, "visit")
  /\ UNCHANGED <<shared, target, plan, held, pos, nth, seen, acked>>

\* Mutant: a visited name stays on the list.
WalkLookupAgain(w) ==
  /\ pc[w] = "visit"
  /\ \E n \in todo[w] :
       /\ target' = [target EXCEPT ![w] = n]
       /\ IF Cat!Registered(n) THEN Goto(w, "fetch") ELSE pc' = pc
  /\ UNCHANGED <<shared, plan, held, pos, nth, todo, seen, acked>>

\* cat.Lookup: a name dropped since List is skipped.
WalkLookup(w) ==
  /\ pc[w] = "visit"
  /\ \E n \in todo[w] :
       /\ todo' = [todo EXCEPT ![w] = @ \ {n}]
       /\ target' = [target EXCEPT ![w] = n]
       /\ IF Cat!Registered(n) THEN Goto(w, "fetch") ELSE pc' = pc
  /\ UNCHANGED <<shared, plan, held, pos, nth, seen, acked>>

\* Mutant: RefreshStats does not skip a table without a heap.
WalkGetNoSkip(w) ==
  /\ pc[w] = "fetch"
  /\ \/ /\ Sto!Stored(target[w])
        /\ held' = [held EXCEPT ![w][target[w]] = Sto!GetTable(target[w])]
        /\ Goto(w, "collect")
        /\ seen' = seen
     \/ /\ ~Sto!Stored(target[w])
        /\ seen' = [seen EXCEPT ![w][target[w]] = {}]
        /\ Goto(w, "visit")
        /\ held' = held
  /\ UNCHANGED <<shared, target, plan, pos, nth, todo, acked>>

\* store.GetTable: without a heap RefreshStats skips the table, handleSchema
\* lists it with a row count of zero.
WalkGet(w) ==
  /\ pc[w] = "fetch"
  /\ \/ /\ Sto!Stored(target[w])
        /\ held' = [held EXCEPT ![w][target[w]] = Sto!GetTable(target[w])]
        /\ Goto(w, "collect")
        /\ seen' = seen
     \/ /\ ~Sto!Stored(target[w])
        /\ seen' = IF w \in Lister THEN [seen EXCEPT ![w][target[w]] = {}] ELSE seen
        /\ Goto(w, "visit")
        /\ held' = held
  /\ UNCHANGED <<shared, target, plan, pos, nth, todo, acked>>

\* stats.Collect scans the heap, RowCount counts it: one lock either way.
WalkCollect(w) ==
  /\ pc[w] = "collect"
  /\ seen' = [seen EXCEPT ![w][target[w]] = Sto!Scan(held[w][target[w]])]
  /\ Goto(w, "visit")
  /\ UNCHANGED <<shared, target, plan, held, pos, nth, todo, acked>>

\* Mutant: the walk ends one name early.
WalkDoneEarly(w) ==
  /\ pc[w] = "visit"
  /\ Cardinality(todo[w]) <= 1
  /\ statsMap' = IF w \in Seeder THEN seen[w] ELSE statsMap
  /\ Goto(w, "ok")
  /\ UNCHANGED <<catalog, store, rows, local>>

\* RefreshStats swaps the whole map in; both handlers answer 200.
WalkDone(w) ==
  /\ pc[w] = "visit"
  /\ todo[w] = {}
  /\ statsMap' = IF w \in Seeder THEN seen[w] ELSE statsMap
  /\ Goto(w, "ok")
  /\ UNCHANGED <<catalog, store, rows, local>>

WalkStep(w) ==
  WalkList(w) \/ WalkLookup(w) \/ WalkGet(w) \/ WalkCollect(w) \/ WalkDone(w)

-----------------------------------------------------------------------------
(* handleQuery *)

\* analyzer.Analyze looks the table up (422 when it is not there) ...
Analyze(q) ==
  /\ pc[q] = "analyze"
  /\ Goto(q, IF Cat!Registered(target[q]) THEN "build" ELSE "unknownTable")
  /\ UNCHANGED <<shared, local>>

\* ... and the logical builder looks it up again and keeps the pointer.
Build(q) ==
  /\ pc[q] = "build"
  /\ plan' = [plan EXCEPT ![q] = Cat!Lookup(target[q])]
  /\ Goto(q, IF Cat!Registered(target[q]) THEN "open" ELSE "unknownTable")
  /\ UNCHANGED <<shared, target, held, pos, nth, todo, seen, acked>>

\* Mutant: the pointer is not looked at.
OpenUnchecked(q) ==
  /\ pc[q] = "open"
  /\ held' = [held EXCEPT ![q][target[q]] = Sto!GetTable(target[q])]
  /\ Goto(q, IF q \in Selector THEN "scan" ELSE "insert")
  /\ UNCHANGED <<shared, target, plan, pos, nth, todo, seen, acked>>

\* SeqScan.Open and InsertOp.Next fetch the heap by name; without one the
\* answer is 500, or 408 when the deadline has passed too.
Open(q) ==
  /\ pc[q] = "open"
  /\ held' = [held EXCEPT ![q][target[q]] = Sto!GetTable(target[q])]
  /\ \/ ~Sto!Stored(target[q]) /\ (Goto(q, "noHeap") \/ Goto(q, "timeout"))
     \/ Sto!Stored(target[q]) /\ q \in Selector /\ Goto(q, "scan")
     \/ Sto!Stored(target[q]) /\ q \in Inserter /\ Goto(q, "insert")
  /\ UNCHANGED <<shared, target, plan, pos, nth, todo, seen, acked>>

ScanHeap(q) ==
  /\ pc[q] = "scan"
  /\ seen' = [seen EXCEPT ![q][target[q]] = Sto!Scan(held[q][target[q]])]
  /\ Goto(q, "emit")
  /\ UNCHANGED <<shared, target, plan, held, pos, nth, todo, acked>>

\* Mutant: the last tuple is not inserted.
InsertRowShort(q) ==
  /\ pc[q] = "insert"
  /\ IF nth[q] < InsertRows
     THEN /\ Sto!Insert(held[q][target[q]], [schema |-> plan[q], by |-> q, k |-> nth[q]])
          /\ pc' = pc
     ELSE UNCHANGED <<store, rows>> /\ Goto(q, "emit")
  /\ nth' = [nth EXCEPT ![q] = @ + 1]
  /\ UNCHANGED <<catalog, statsMap, target, plan, held, pos, todo, seen, acked>>

\* One VALUES tuple, laid out for the table the plan was built with.
InsertRow(q) ==
  /\ pc[q] = "insert"
  /\ Sto!Insert(held[q][target[q]], [schema |-> plan[q], by |-> q, k |-> nth[q]])
  /\ nth' = [nth EXCEPT ![q] = @ + 1]
  /\ IF nth[q] < InsertRows THEN pc' = pc ELSE Goto(q, "emit")
  /\ UNCHANGED <<catalog, statsMap, target, plan, held, pos, todo, seen, acked>>

\* A VALUES expression fails to evaluate: the rows inserted so far stay.  The
\* answer is 500, or 408 when the deadline has passed too.
InsertError(q) ==
  /\ pc[q] = "insert"
  /\ Goto(q, "failed") \/ Goto(q, "timeout")
  /\ UNCHANGED <<shared, local>>

Emit(q) ==
  /\ pc[q] = "emit"
  /\ Goto(q, "ok")
  /\ UNCHANGED <<shared, local>>

\* ctx is looked at before the analyzer, before execution, and between the
\* rows of the root operator, hence also after an INSERT has applied its rows.
Timeout(q) ==
  /\ pc[q] \in {"analyze", "open", "emit"}
  /\ Goto(q, "timeout")
  /\ UNCHANGED <<shared, local>>

SelectStep(q) == Analyze(q) \/ Build(q) \/ Open(q) \/ ScanHeap(q) \/ Emit(q) \/ Timeout(q)
InsertStep(q) ==
  \/ Analyze(q) \/ Build(q) \/ Open(q) \/ InsertRow(q) \/ InsertError(q)
  \/ Emit(q) \/ Timeout(q)

-----------------------------------------------------------------------------
Step(r) ==
  \/ r \in Creator  /\ CreateStep(r)
  \/ r \in Seeder   /\ SeedStep(r)
  \/ r \in Walker   /\ WalkStep(r)
  \/ r \in Selector /\ SelectStep(r)
  \/ r \in Inserter /\ InsertStep(r)

Next == \E r \in Request : Arrive(r) \/ Reject(r) \/ Step(r)

Spec == Init /\ [][Next]_vars

\* The Go scheduler runs every request goroutine; clients owe nothing.
FairSpec == Spec /\ \A r \in Request : WF_vars(Step(r))

-----------------------------------------------------------------------------
(* Properties *)

Label ==
  {"idle", "register", "create", "rollback", "dropCatalog", "dropStore",
   "seedRegister", "seedCreate", "seedGet", "seedInsert", "list", "visit",
   "fetch", "collect", "analyze", "build", "open", "scan", "insert", "emit",
   "ok", "rejected", "conflict", "failed", "panicked", "unknownTable",
   "noHeap", "timeout"}

\* Every variable stays in its domain.
TypeOK ==
  /\ Cat!CatalogTypeOK
  /\ Sto!StorageTypeOK
  /\ statsMap \in [Name -> {NoStats} \union SUBSET Row]
  /\ pc \in [Request -> Label]
  /\ target \in [Request -> Name]
  /\ plan \in [Request -> Owner \union {NoTable}]
  /\ held \in [Request -> [Name -> Heap \union {NoHeap}]]
  /\ pos \in [Request -> 1 .. Len(SeedSeq)]
  /\ nth \in [Request -> Nat \ {0}]
  /\ todo \in [Request -> SUBSET Name]
  /\ seen \in [Request -> [Name -> {NoStats} \union SUBSET Row]]
  /\ acked \in [Request -> SUBSET Name]

\* No request calls a method of a nil *HeapTable: what GetTable returned is
\* looked at before the pointer is used, for each table of the seed passes too.
NoNilHeap ==
  \A r \in Request :
    /\ pc[r] \in {"collect", "scan", "insert"} => held[r][target[r]] # NoHeap
    /\ pc[r] = "seedGet" => \A i \in 1 .. pos[r] - 1 : held[r][SeedSeq[i]] # NoHeap
    /\ pc[r] = "seedInsert" => \A n \in SeedNames : held[r][n] # NoHeap

\* Register and CreateTable are two locked calls, yet for a table that is not
\* a seed table the registries agree except while its creator stands between
\* the two: a heap is always that of the registered table.
UserTablesAgree ==
  \A n \in UserNames :
    /\ Sto!Stored(n) => Cat!Registered(n) /\ store[n] = <<catalog[n], n>>
    /\ Cat!Registered(n) /\ ~Sto!Stored(n) =>
         catalog[n] \in Creator /\ pc[catalog[n]] = "create" /\ target[catalog[n]] = n

\* The rollback of handleCreateTable, which drops by name whatever is
\* registered, is never reached for such a table.
UserCreateNeverRollsBack ==
  \A c \in Creator : pc[c] = "rollback" => target[c] \in SeedNames

\* However an INSERT is delayed between planning and inserting, a row lies
\* only in a heap of the very table it was laid out for.
UserRowsFit ==
  \A n \in UserNames :
    Sto!Stored(n) => \A row \in rows[store[n]] : row.schema = catalog[n]

\* No step of any request unregisters or replaces such a table, or its heap.
UserTablesStay ==
  [][\A n \in UserNames :
       /\ Cat!Registered(n) => catalog'[n] = catalog[n]
       /\ Sto!Stored(n) => store'[n] = store[n] /\ rows[store[n]] \subseteq rows'[store[n]]]_vars

\* An INSERT answered 200 has all its rows in the heap later scans read.
AckedInsertsStay ==
  \A q \in Inserter :
    pc[q] = "ok" /\ target[q] \in UserNames =>
      \A k \in 1 .. InsertRows :
        [schema |-> plan[q], by |-> q, k |-> k] \in rows[store[target[q]]]

\* A statement that arrives after the 201 of a CREATE TABLE finds the table
\* in both registries.
StatementsSeeAckedTables ==
  \A q \in Statement :
    target[q] \in acked[q] \intersect UserNames => pc[q] \notin {"unknownTable", "noHeap"}

\* GET /api/schema lists every table whose 201 preceded the request.
ListingsShowAckedTables ==
  \A w \in Lister :
    pc[w] = "ok" => \A n \in acked[w] \intersect UserNames : seen[w][n] # NoStats

\* Of the CREATE TABLE requests for one such name at most one is answered
\* 201, and 409 is answered only while another request's table stands.
OneCreateWins ==
  /\ \A c, d \in Creator :
       /\ target[c] = target[d] /\ target[c] \in UserNames
       /\ pc[c] = "ok" /\ pc[d] = "ok"
       => c = d
  /\ \A d \in Creator :
       target[d] \in UserNames /\ pc[d] = "conflict" =>
         Cat!Registered(target[d]) /\ catalog[target[d]] # d

\* The statistics map lags behind the heaps but never counts a row of such a
\* table that a scan would not return.
StatsNeverAhead ==
  \A n \in UserNames :
    statsMap[n] # NoStats => Sto!Stored(n) /\ statsMap[n] \subseteq rows[store[n]]

-----------------------------------------------------------------------------
(* The inductive invariant behind the properties of user tables            *)

\* The registries agree, and the creator of an entry knows where it stands.
UserEntry ==
  \A n \in UserNames :
    \/ /\ ~Cat!Registered(n)
       /\ ~Sto!Stored(n)
    \/ /\ catalog[n] \in Creator
       /\ target[catalog[n]] = n
       /\ \/ pc[catalog[n]] = "create" /\ ~Sto!Stored(n)
          \/ pc[catalog[n]] = "ok" /\ store[n] = <<catalog[n], n>>

CreatorEntry ==
  \A c \in Creator : target[c] \in UserNames =>
    /\ pc[c] \in {"create", "ok"} => catalog[target[c]] = c
    /\ pc[c] = "conflict" => Cat!Registered(target[c])
    /\ pc[c] # "rollback"

\* A pointer obtained under a name is to a heap created under that name.
HeapsNamed ==
  /\ \A n \in Name : Sto!Stored(n) => store[n][2] = n
  /\ \A r \in Request, n \in Name : held[r][n] # NoHeap => held[r][n][2] = n

\* What a statement on a user table has looked up is still current.
PlanCurrent ==
  \A q \in Statement : target[q] \in UserNames =>
    /\ pc[q] \in {"build", "open"} => Cat!Registered(target[q])
    /\ pc[q] \in {"open", "scan", "insert", "emit", "ok"} =>
         Cat!Registered(target[q]) /\ plan[q] = catalog[target[q]]
    /\ pc[q] \in {"scan", "insert", "emit", "ok"} =>
         Sto!Stored(target[q]) /\ held[q][target[q]] = store[target[q]]

\* The rows an INSERT has put into a user table so far are there.
InsertedSoFar ==
  \A q \in Inserter :
    LET RowOf(k) == [schema |-> plan[q], by |-> q, k |-> k]
    IN  /\ pc[q] \in {"idle", "analyze", "build", "open"} => nth[q] = 1
        /\ target[q] \in UserNames =>
             /\ pc[q] = "insert" =>
                  \A k \in 1 .. nth[q] - 1 : RowOf(k) \in rows[store[target[q]]]
             /\ pc[q] \in {"emit", "ok"} =>
                  \A k \in 1 .. InsertRows : RowOf(k) \in rows[store[target[q]]]

\* The walk of RefreshStats reads current heaps.
WalkNeverAhead ==
  \A s \in Seeder :
    /\ pc[s] = "collect" /\ target[s] \in UserNames =>
         Sto!Stored(target[s]) /\ held[s][target[s]] = store[target[s]]
    /\ \A n \in UserNames : seen[s][n] # NoStats =>
         Sto!Stored(n) /\ seen[s][n] \subseteq rows[store[n]]

AckedStored == \A r \in Request, n \in UserNames : n \in acked[r] => Sto!Stored(n)

UserInv ==
  /\ UserEntry
  /\ CreatorEntry
  /\ HeapsNamed
  /\ PlanCurrent
  /\ UserRowsFit
  /\ InsertedSoFar
  /\ WalkNeverAhead
  /\ StatsNeverAhead
  /\ AckedStored
  /\ StatementsSeeAckedTables

-----------------------------------------------------------------------------
(* Seed tables, and liveness *)

OneSeeder == \A s, t \in Seeder : s = t

\* No CREATE TABLE request is about a seed table.
SeedNamesLeftAlone ==
  \A c \in Creator : target[c] \in SeedNames => pc[c] \in {"idle", "rejected"}

\* A seed request that runs alone of its kind, with no CREATE TABLE on a seed
\* name, is never refused by what it finds, and once it is answered 200 its own
\* tables, heaps and rows are in place and its statistics cover them, whatever
\* statements ran meanwhile.
SeedRestores ==
  OneSeeder /\ SeedNamesLeftAlone =>
    \A s \in Seeder :
      /\ pc[s] \notin {"failed", "panicked"}
      /\ pc[s] = "ok" =>
           \A n \in SeedNames :
             /\ catalog[n] = s /\ store[n] = <<s, n>>
             /\ SeedHeap(s) \subseteq rows[store[n]]
             /\ statsMap[n] # NoStats /\ SeedHeap(s) \subseteq statsMap[n]

\* Every request that arrives is answered.
EveryRequestReplied == \A r \in Request : ~Idle(r) ~> Replied(r)

\* A table that is registered gets its heap.
RegisteredGetsHeap == \A n \in UserNames : Cat!Registered(n) ~> Sto!Stored(n)

\* handler.go says that the rollback removes the catalog entry "to avoid
\* inconsistency": it does not take away the entry of a complete table, heap
\* included, that another request has put in place.
RollbackSparesOtherTables ==
  [][\A c \in Creator :
       pc[c] = "rollback" /\ pc'[c] = "failed" =>
         LET n == target[c]
         IN  catalog[n] # c /\ Cat!Registered(n) /\ store[n] = <<catalog[n], n>>
               => catalog'[n] = catalog[n]]_vars

=============================================================================
