------------------------ MODULE SchemaServerProofs ------------------------
(***************************************************************************)
(* For any sets of requests, names and seed tables: type correctness; the  *)
(* properties of user tables, from the inductive invariant UserInv; of     *)
(* listings, from ListingInv; and of the seed tables, which users may read *)
(* and insert into while a request restores them, from SeedInv.  The       *)
(* lemmas say what one step of a request r does to the registries and then *)
(* take the conjuncts of the invariants one by one: what r itself has come *)
(* to know, and what the other requests know staying true.                 *)
(***************************************************************************)
EXTENDS SchemaServer, TLAPS

\* The seed tables are names.
LEMMA SeedNamesAreNames ==
  /\ Len(SeedSeq) \in Nat \ {0}
  /\ \A i \in 1 .. Len(SeedSeq) : SeedSeq[i] \in SeedNames
  /\ SeedNames \subseteq Name
BY SeedAssumption DEF SeedNames

\* Which labels there are.
LEMMA Labels ==
  /\ "idle" \in Label /\ "register" \in Label /\ "create" \in Label
  /\ "rollback" \in Label
  /\ "dropCatalog" \in Label /\ "dropStore" \in Label /\ "seedRegister" \in Label
  /\ "seedCreate" \in Label /\ "seedGet" \in Label
  /\ "seedInsert" \in Label /\ "list" \in Label /\ "visit" \in Label
  /\ "fetch" \in Label /\ "collect" \in Label
  /\ "analyze" \in Label /\ "build" \in Label /\ "open" \in Label
  /\ "scan" \in Label /\ "insert" \in Label /\ "emit" \in Label
  /\ "ok" \in Label /\ "rejected" \in Label /\ "conflict" \in Label
  /\ "failed" \in Label /\ "panicked" \in Label
  /\ "unknownTable" \in Label /\ "noHeap" \in Label /\ "timeout" \in Label
BY DEF Label

\* Every role is a role of requests; creators and seeders own tables.
LEMMA Roles ==
  /\ \A r \in Creator : r \in Request
  /\ \A r \in Seeder : r \in Request
  /\ \A r \in Walker : r \in Request
  /\ \A r \in Statement : r \in Request
BY DEF Request, Walker, Statement

LEMMA Owners == \A r \in Creator \union Seeder : r \in Owner
BY DEF Owner

LEMMA Heaps == \A o \in Owner, n \in Name : <<o, n>> \in Heap
BY DEF Heap

\* Storing a pointer, a scan or a row keeps the shape of what holds it.
LEMMA PutHeld ==
  ASSUME held \in [Request -> [Name -> Heap \union {NoHeap}]],
         NEW r \in Request, NEW n \in Name, NEW h \in Heap \union {NoHeap}
  PROVE  [held EXCEPT ![r][n] = h] \in [Request -> [Name -> Heap \union {NoHeap}]]
OBVIOUS

LEMMA PutSeen ==
  ASSUME seen \in [Request -> [Name -> {NoStats} \union SUBSET Row]],
         NEW r \in Request, NEW n \in Name, NEW S \in {NoStats} \union SUBSET Row
  PROVE  [seen EXCEPT ![r][n] = S] \in [Request -> [Name -> {NoStats} \union SUBSET Row]]
OBVIOUS

LEMMA PutCount ==
  ASSUME pos \in [Request -> 1 .. Len(SeedSeq)], nth \in [Request -> Nat \ {0}],
         NEW r \in Request
  PROVE  /\ pos[r] < Len(SeedSeq) => [pos EXCEPT ![r] = @ + 1] \in [Request -> 1 .. Len(SeedSeq)]
         /\ [pos EXCEPT ![r] = 1] \in [Request -> 1 .. Len(SeedSeq)]
         /\ [nth EXCEPT ![r] = @ + 1] \in [Request -> Nat \ {0}]
         /\ [nth EXCEPT ![r] = 1] \in [Request -> Nat \ {0}]
<1>1. Len(SeedSeq) \in Nat \ {0}
  BY SeedNamesAreNames
<1>2. QED
  BY <1>1

LEMMA PutRow ==
  ASSUME rows \in [Heap -> SUBSET Row], NEW h, NEW row \in Row
  PROVE  [rows EXCEPT ![h] = @ \union {row}] \in [Heap -> SUBSET Row]
OBVIOUS

\* Advance leaves the loop counter in range and moves only request s.
LEMMA AdvanceType ==
  ASSUME pc \in [Request -> Label], pos \in [Request -> 1 .. Len(SeedSeq)],
         nth \in [Request -> Nat \ {0}],
         NEW s \in Request, NEW next \in Label, Advance(s, next)
  PROVE  /\ pc' \in [Request -> Label]
         /\ pos' \in [Request -> 1 .. Len(SeedSeq)]
BY PutCount DEF Advance, Goto

\* The initial state is well typed.
LEMMA InitType == Init => TypeOK
<1> SUFFICES ASSUME Init PROVE TypeOK
  OBVIOUS
<1> USE DEF Init
<1>1. catalog \in [Name -> Owner \union {NoTable}]
  BY DEF Owner
<1>2. store \in [Name -> Heap \union {NoHeap}]
  BY DEF Owner, Heap
<1>3. SeedHeap(Boot) \in SUBSET Row
  BY SeedAssumption DEF SeedHeap, SeedRow, Row, Owner
<1>4. rows \in [Heap -> SUBSET Row]
  BY <1>3
<1>5. statsMap \in [Name -> {NoStats} \union SUBSET Row]
  BY <1>3
<1>6. /\ pc \in [Request -> Label]
      /\ target \in [Request -> Name]
      /\ pos \in [Request -> 1 .. Len(SeedSeq)]
  BY SeedNamesAreNames DEF Label
<1>7. QED
  BY <1>1, <1>2, <1>4, <1>5, <1>6
  DEF TypeOK, Cat!CatalogTypeOK, Sto!StorageTypeOK

\* Every step of every request keeps the types.
LEMMA TypeStep == TypeOK /\ NoNilHeap /\ [Next]_vars => TypeOK'
<1> USE DEF Cat!CatalogTypeOK, Sto!StorageTypeOK
<1>1. ASSUME TypeOK, NEW r \in Request, Arrive(r) PROVE TypeOK'
  <2>1. pc' \in [Request -> Label]
    BY <1>1, Labels DEF Arrive, Goto, TypeOK
  <2>2. target' \in [Request -> Name]
    BY <1>1, SeedAssumption DEF Arrive, TypeOK
  <2>3. acked' \in [Request -> SUBSET Name]
    BY <1>1 DEF Arrive, Acked, TypeOK
  <2>4. QED
    BY <1>1, <2>1, <2>2, <2>3 DEF Arrive, shared, TypeOK
<1>2. ASSUME TypeOK, NEW r \in Request, Reject(r) PROVE TypeOK'
  BY <1>2, Labels DEF Reject, Goto, shared, local, TypeOK
<1>3. ASSUME TypeOK, NoNilHeap, NEW c \in Creator, CreateRegister(c) PROVE TypeOK'
  <2>1. c \in Request /\ target[c] \in Name /\ c \in Owner /\ <<c, target[c]>> \in Heap
    BY <1>3, Roles, Owners, Heaps DEF TypeOK
  <2>2. /\ pc \in [Request -> Label]
        /\ catalog \in [Name -> Owner \union {NoTable}]
    BY <1>3 DEF TypeOK
  <2>3. pc' \in [Request -> Label]
    BY <1>3, <2>1, <2>2, Labels DEF CreateRegister, Goto
  <2>4. catalog' \in [Name -> Owner \union {NoTable}]
    BY <1>3, <2>1, <2>2 DEF CreateRegister, Cat!Register
  <2>5. QED
    BY <1>3, <2>3, <2>4 DEF CreateRegister, local, TypeOK
<1>4. ASSUME TypeOK, NoNilHeap, NEW c \in Creator, CreateStorage(c) PROVE TypeOK'
  <2>1. c \in Request /\ target[c] \in Name /\ c \in Owner /\ <<c, target[c]>> \in Heap
    BY <1>4, Roles, Owners, Heaps DEF TypeOK
  <2>2. /\ pc \in [Request -> Label]
        /\ store \in [Name -> Heap \union {NoHeap}]
        /\ rows \in [Heap -> SUBSET Row]
        /\ held \in [Request -> [Name -> Heap \union {NoHeap}]]
    BY <1>4 DEF TypeOK
  <2>3. pc' \in [Request -> Label]
    BY <1>4, <2>1, <2>2, Labels DEF CreateStorage, Goto
  <2>4. store' \in [Name -> Heap \union {NoHeap}] /\ rows' \in [Heap -> SUBSET Row]
    BY <1>4, <2>1, <2>2 DEF CreateStorage, Sto!CreateTable
  <2>5. QED
    BY <1>4, <2>3, <2>4 DEF CreateStorage, local, TypeOK
<1>5. ASSUME TypeOK, NoNilHeap, NEW c \in Creator, CreateRollback(c) PROVE TypeOK'
  <2>1. c \in Request /\ target[c] \in Name /\ c \in Owner /\ <<c, target[c]>> \in Heap
    BY <1>5, Roles, Owners, Heaps DEF TypeOK
  <2>2. /\ pc \in [Request -> Label]
        /\ catalog \in [Name -> Owner \union {NoTable}]
    BY <1>5 DEF TypeOK
  <2>3. pc' \in [Request -> Label]
    BY <1>5, <2>1, <2>2, Labels DEF CreateRollback, Goto
  <2>4. catalog' \in [Name -> Owner \union {NoTable}]
    BY <1>5, <2>1, <2>2 DEF CreateRollback, Cat!Drop
  <2>5. QED
    BY <1>5, <2>3, <2>4 DEF CreateRollback, local, TypeOK
<1>6. ASSUME TypeOK, NoNilHeap, NEW s \in Seeder, SeedDropCatalog(s) PROVE TypeOK'
  <2>1. s \in Request /\ SeedName(s) \in Name /\ s \in Owner /\ <<s, SeedName(s)>> \in Heap
    BY <1>6, Roles, Owners, Heaps, SeedNamesAreNames DEF SeedName, Walker, TypeOK
  <2>2. /\ pc \in [Request -> Label]
        /\ catalog \in [Name -> Owner \union {NoTable}]
    BY <1>6 DEF TypeOK
  <2>3. pc' \in [Request -> Label]
    BY <1>6, <2>1, <2>2, Labels DEF SeedDropCatalog, Goto
  <2>4. catalog' \in [Name -> Owner \union {NoTable}]
    BY <1>6, <2>1, <2>2 DEF SeedDropCatalog, Cat!Drop
  <2>5. QED
    BY <1>6, <2>3, <2>4 DEF SeedDropCatalog, local, TypeOK
<1>7. ASSUME TypeOK, NoNilHeap, NEW s \in Seeder, SeedDropStore(s) PROVE TypeOK'
  <2>1. s \in Request /\ SeedName(s) \in Name /\ s \in Owner /\ <<s, SeedName(s)>> \in Heap
    BY <1>7, Roles, Owners, Heaps, SeedNamesAreNames DEF SeedName, Walker, TypeOK
  <2>2. /\ pc \in [Request -> Label]
        /\ store \in [Name -> Heap \union {NoHeap}]
        /\ rows \in [Heap -> SUBSET Row]
        /\ pos \in [Request -> 1 .. Len(SeedSeq)]
        /\ held \in [Request -> [Name -> Heap \union {NoHeap}]]
        /\ nth \in [Request -> Nat \ {0}]
    BY <1>7 DEF TypeOK
  <2>3. pc' \in [Request -> Label]
    BY <1>7, <2>1, <2>2, Labels DEF SeedDropStore, Goto
  <2>4. pos' \in [Request -> 1 .. Len(SeedSeq)]
    BY <1>7, <2>1, <2>2, PutCount DEF SeedDropStore
  <2>5. store' \in [Name -> Heap \union {NoHeap}] /\ rows' \in [Heap -> SUBSET Row]
    BY <1>7, <2>1, <2>2 DEF SeedDropStore, Sto!DropTable
  <2>6. QED
    BY <1>7, <2>3, <2>4, <2>5 DEF SeedDropStore, TypeOK
<1>8. ASSUME TypeOK, NoNilHeap, NEW s \in Seeder, SeedRegister(s) PROVE TypeOK'
  <2>1. s \in Request /\ SeedName(s) \in Name /\ s \in Owner /\ <<s, SeedName(s)>> \in Heap
    BY <1>8, Roles, Owners, Heaps, SeedNamesAreNames DEF SeedName, Walker, TypeOK
  <2>2. /\ pc \in [Request -> Label]
        /\ catalog \in [Name -> Owner \union {NoTable}]
        /\ pos \in [Request -> 1 .. Len(SeedSeq)]
        /\ nth \in [Request -> Nat \ {0}]
    BY <1>8 DEF TypeOK
  <2>3. /\ pc' \in [Request -> Label]
        /\ pos' \in [Request -> 1 .. Len(SeedSeq)]
    <3>1. CASE Goto(s, "failed") /\ pos' = pos
      BY <3>1, <2>1, <2>2, Labels DEF Goto
    <3>2. CASE Advance(s, "seedCreate")
      BY <3>2, <2>1, <2>2, Labels, AdvanceType
    <3>3. QED
      BY <1>8, <3>1, <3>2 DEF SeedRegister
  <2>4. catalog' \in [Name -> Owner \union {NoTable}]
    BY <1>8, <2>1, <2>2 DEF SeedRegister, Cat!Register
  <2>5. QED
    BY <1>8, <2>3, <2>4 DEF SeedRegister, TypeOK
<1>9. ASSUME TypeOK, NoNilHeap, NEW s \in Seeder, SeedCreate(s) PROVE TypeOK'
  <2>1. s \in Request /\ SeedName(s) \in Name /\ s \in Owner /\ <<s, SeedName(s)>> \in Heap
    BY <1>9, Roles, Owners, Heaps, SeedNamesAreNames DEF SeedName, Walker, TypeOK
  <2>2. /\ pc \in [Request -> Label]
        /\ store \in [Name -> Heap \union {NoHeap}]
        /\ rows \in [Heap -> SUBSET Row]
        /\ pos \in [Request -> 1 .. Len(SeedSeq)]
        /\ held \in [Request -> [Name -> Heap \union {NoHeap}]]
        /\ nth \in [Request -> Nat \ {0}]
    BY <1>9 DEF TypeOK
  <2>3. /\ pc' \in [Request -> Label]
        /\ pos' \in [Request -> 1 .. Len(SeedSeq)]
    <3>1. CASE Goto(s, "failed") /\ pos' = pos
      BY <3>1, <2>1, <2>2, Labels DEF Goto
    <3>2. CASE Advance(s, "seedGet")
      BY <3>2, <2>1, <2>2, Labels, AdvanceType
    <3>3. QED
      BY <1>9, <3>1, <3>2 DEF SeedCreate
  <2>4. store' \in [Name -> Heap \union {NoHeap}] /\ rows' \in [Heap -> SUBSET Row]
    BY <1>9, <2>1, <2>2 DEF SeedCreate, Sto!CreateTable
  <2>5. QED
    BY <1>9, <2>3, <2>4 DEF SeedCreate, TypeOK
<1>10. ASSUME TypeOK, NoNilHeap, NEW s \in Seeder, SeedGet(s) PROVE TypeOK'
  <2>1. s \in Request /\ SeedName(s) \in Name /\ s \in Owner /\ <<s, SeedName(s)>> \in Heap
    BY <1>10, Roles, Owners, Heaps, SeedNamesAreNames DEF SeedName, Walker, TypeOK
  <2>2. /\ pc \in [Request -> Label]
        /\ pos \in [Request -> 1 .. Len(SeedSeq)]
        /\ held \in [Request -> [Name -> Heap \union {NoHeap}]]
        /\ rows \in [Heap -> SUBSET Row]
        /\ store \in [Name -> Heap \union {NoHeap}]
        /\ nth \in [Request -> Nat \ {0}]
    BY <1>10 DEF TypeOK
  <2>3. /\ pc' \in [Request -> Label]
        /\ pos' \in [Request -> 1 .. Len(SeedSeq)]
    <3>1. CASE Goto(s, "panicked") /\ pos' = pos
      BY <3>1, <2>1, <2>2, Labels DEF Goto
    <3>2. CASE Advance(s, "seedInsert")
      BY <3>2, <2>1, <2>2, Labels, AdvanceType
    <3>3. QED
      BY <1>10, <3>1, <3>2 DEF SeedGet
  <2>4. held' \in [Request -> [Name -> Heap \union {NoHeap}]]
    <3>1. CASE held' = held
      BY <3>1, <2>2
    <3>2. CASE held' = [held EXCEPT ![s][SeedName(s)] = Sto!GetTable(SeedName(s))]
      <4>1. Sto!GetTable(SeedName(s)) \in Heap \union {NoHeap}
        BY <2>1, <2>2 DEF Sto!GetTable
      <4>2. QED
        BY <3>2, <4>1, <2>1, <2>2, PutHeld
    <3>3. QED
      BY <1>10, <3>1, <3>2 DEF SeedGet
  <2>5. QED
    BY <1>10, <2>3, <2>4 DEF SeedGet, shared, TypeOK
<1>11. ASSUME TypeOK, NoNilHeap, NEW s \in Seeder, SeedInsert(s) PROVE TypeOK'
  <2>1. s \in Request /\ SeedName(s) \in Name /\ s \in Owner /\ <<s, SeedName(s)>> \in Heap
    BY <1>11, Roles, Owners, Heaps, SeedNamesAreNames DEF SeedName, Walker, TypeOK
  <2>2. /\ pc \in [Request -> Label]
        /\ store \in [Name -> Heap \union {NoHeap}]
        /\ rows \in [Heap -> SUBSET Row]
        /\ pos \in [Request -> 1 .. Len(SeedSeq)]
        /\ nth \in [Request -> Nat \ {0}]
        /\ held \in [Request -> [Name -> Heap \union {NoHeap}]]
    BY <1>11 DEF TypeOK
  <2>3. /\ pc' \in [Request -> Label]
        /\ pos' \in [Request -> 1 .. Len(SeedSeq)]
    <3>1. CASE UNCHANGED <<pc, pos>>
      BY <3>1, <2>2
    <3>2. CASE Advance(s, "list")
      BY <3>2, <2>1, <2>2, Labels, AdvanceType
    <3>3. QED
      BY <1>11, <3>1, <3>2 DEF SeedInsert
  <2>4. SeedRow(s, nth[s]) \in Row
    BY <1>11, <2>1, <2>2 DEF SeedInsert, SeedRow, Row
  <2>5. store' \in [Name -> Heap \union {NoHeap}] /\ rows' \in [Heap -> SUBSET Row]
    BY <1>11, <2>1, <2>2, <2>4, PutRow DEF SeedInsert, Sto!Insert
  <2>6. nth' \in [Request -> Nat \ {0}]
    BY <1>11, <2>1, <2>2, PutCount DEF SeedInsert
  <2>7. QED
    BY <1>11, <2>3, <2>4, <2>5, <2>6 DEF SeedInsert, TypeOK
<1>12. ASSUME TypeOK, NoNilHeap, NEW w \in Walker, WalkList(w) PROVE TypeOK'
  <2>1. w \in Request /\ target[w] \in Name
    BY <1>12, Roles DEF TypeOK
  <2>2. /\ pc \in [Request -> Label]
        /\ todo \in [Request -> SUBSET Name]
    BY <1>12 DEF TypeOK
  <2>3. pc' \in [Request -> Label]
    BY <1>12, <2>1, <2>2, Labels DEF WalkList, Goto
  <2>4. todo' \in [Request -> SUBSET Name]
    BY <1>12, <2>1, <2>2 DEF WalkList, Cat!List
  <2>5. QED
    BY <1>12, <2>3, <2>4 DEF WalkList, shared, TypeOK
<1>13. ASSUME TypeOK, NoNilHeap, NEW w \in Walker, WalkLookup(w) PROVE TypeOK'
  <2>1. w \in Request /\ target[w] \in Name
    BY <1>13, Roles DEF TypeOK
  <2>2. /\ pc \in [Request -> Label]
        /\ todo \in [Request -> SUBSET Name]
        /\ target \in [Request -> Name]
    BY <1>13 DEF TypeOK
  <2>3. pc' \in [Request -> Label]
    BY <1>13, <2>1, <2>2, Labels DEF WalkLookup, Goto
  <2>4. todo' \in [Request -> SUBSET Name]
    BY <1>13, <2>1, <2>2 DEF WalkLookup
  <2>5. target' \in [Request -> Name]
    BY <1>13, <2>1, <2>2 DEF WalkLookup
  <2>6. QED
    BY <1>13, <2>3, <2>4, <2>5 DEF WalkLookup, shared, TypeOK
<1>14. ASSUME TypeOK, NoNilHeap, NEW w \in Walker, WalkGet(w) PROVE TypeOK'
  <2>1. w \in Request /\ target[w] \in Name
    BY <1>14, Roles DEF TypeOK
  <2>2. /\ pc \in [Request -> Label]
        /\ held \in [Request -> [Name -> Heap \union {NoHeap}]]
        /\ seen \in [Request -> [Name -> {NoStats} \union SUBSET Row]]
        /\ rows \in [Heap -> SUBSET Row]
        /\ store \in [Name -> Heap \union {NoHeap}]
    BY <1>14 DEF TypeOK
  <2>3. pc' \in [Request -> Label]
    BY <1>14, <2>1, <2>2, Labels DEF WalkGet, Goto
  <2>4. held' \in [Request -> [Name -> Heap \union {NoHeap}]]
    <3>1. CASE held' = held
      BY <3>1, <2>2
    <3>2. CASE held' = [held EXCEPT ![w][target[w]] = Sto!GetTable(target[w])]
      <4>1. Sto!GetTable(target[w]) \in Heap \union {NoHeap}
        BY <2>1, <2>2 DEF Sto!GetTable
      <4>2. QED
        BY <3>2, <4>1, <2>1, <2>2, PutHeld
    <3>3. QED
      BY <1>14, <3>1, <3>2 DEF WalkGet
  <2>5. seen' \in [Request -> [Name -> {NoStats} \union SUBSET Row]]
    <3>1. CASE seen' = seen
      BY <3>1, <2>2
    <3>2. CASE seen' = [seen EXCEPT ![w][target[w]] = {}]
      BY <3>2, <2>1, <2>2, PutSeen
    <3>3. QED
      BY <1>14, <3>1, <3>2 DEF WalkGet
  <2>6. QED
    BY <1>14, <2>3, <2>4, <2>5 DEF WalkGet, shared, TypeOK
<1>15. ASSUME TypeOK, NoNilHeap, NEW w \in Walker, WalkCollect(w) PROVE TypeOK'
  <2>1. w \in Request /\ target[w] \in Name
    BY <1>15, Roles DEF TypeOK
  <2>2. /\ pc \in [Request -> Label]
        /\ seen \in [Request -> [Name -> {NoStats} \union SUBSET Row]]
        /\ rows \in [Heap -> SUBSET Row]
        /\ store \in [Name -> Heap \union {NoHeap}]
        /\ held \in [Request -> [Name -> Heap \union {NoHeap}]]
    BY <1>15 DEF TypeOK
  <2>3. pc' \in [Request -> Label]
    BY <1>15, <2>1, <2>2, Labels DEF WalkCollect, Goto
  <2>4. held[w][target[w]] \in Heap
    BY <1>15, <2>1, <2>2 DEF WalkCollect, NoNilHeap
  <2>5. seen' \in [Request -> [Name -> {NoStats} \union SUBSET Row]]
    BY <1>15, <2>1, <2>2, <2>4, PutSeen DEF WalkCollect, Sto!Scan
  <2>6. QED
    BY <1>15, <2>3, <2>4, <2>5 DEF WalkCollect, shared, TypeOK
<1>16. ASSUME TypeOK, NoNilHeap, NEW w \in Walker, WalkDone(w) PROVE TypeOK'
  <2>1. w \in Request /\ target[w] \in Name
    BY <1>16, Roles DEF TypeOK
  <2>2. /\ pc \in [Request -> Label]
        /\ statsMap \in [Name -> {NoStats} \union SUBSET Row]
        /\ seen \in [Request -> [Name -> {NoStats} \union SUBSET Row]]
    BY <1>16 DEF TypeOK
  <2>3. pc' \in [Request -> Label]
    BY <1>16, <2>1, <2>2, Labels DEF WalkDone, Goto
  <2>4. statsMap' \in [Name -> {NoStats} \union SUBSET Row]
    BY <1>16, <2>1, <2>2 DEF WalkDone
  <2>5. QED
    BY <1>16, <2>3, <2>4 DEF WalkDone, local, TypeOK
<1>17. ASSUME TypeOK, NoNilHeap, NEW q \in Statement, Analyze(q) PROVE TypeOK'
  <2>1. q \in Request /\ target[q] \in Name
    BY <1>17, Roles DEF TypeOK
  <2>2. /\ pc \in [Request -> Label]
    BY <1>17 DEF TypeOK
  <2>3. pc' \in [Request -> Label]
    BY <1>17, <2>1, <2>2, Labels DEF Analyze, Goto
  <2>4. QED
    BY <1>17, <2>3 DEF Analyze, shared, local, TypeOK
<1>18. ASSUME TypeOK, NoNilHeap, NEW q \in Statement, Build(q) PROVE TypeOK'
  <2>1. q \in Request /\ target[q] \in Name
    BY <1>18, Roles DEF TypeOK
  <2>2. /\ pc \in [Request -> Label]
        /\ plan \in [Request -> Owner \union {NoTable}]
        /\ catalog \in [Name -> Owner \union {NoTable}]
    BY <1>18 DEF TypeOK
  <2>3. pc' \in [Request -> Label]
    BY <1>18, <2>1, <2>2, Labels DEF Build, Goto
  <2>4. plan' \in [Request -> Owner \union {NoTable}]
    BY <1>18, <2>1, <2>2 DEF Build, Cat!Lookup
  <2>5. QED
    BY <1>18, <2>3, <2>4 DEF Build, shared, TypeOK
<1>19. ASSUME TypeOK, NoNilHeap, NEW q \in Statement, Open(q) PROVE TypeOK'
  <2>1. q \in Request /\ target[q] \in Name
    BY <1>19, Roles DEF TypeOK
  <2>2. /\ pc \in [Request -> Label]
        /\ held \in [Request -> [Name -> Heap \union {NoHeap}]]
        /\ rows \in [Heap -> SUBSET Row]
        /\ store \in [Name -> Heap \union {NoHeap}]
    BY <1>19 DEF TypeOK
  <2>3. pc' \in [Request -> Label]
    BY <1>19, <2>1, <2>2, Labels DEF Open, Goto
  <2>4. held' \in [Request -> [Name -> Heap \union {NoHeap}]]
    BY <1>19, <2>1, <2>2, PutHeld DEF Open, Sto!GetTable
  <2>5. QED
    BY <1>19, <2>3, <2>4 DEF Open, shared, TypeOK
<1>20. ASSUME TypeOK, NoNilHeap, NEW q \in Statement, ScanHeap(q) PROVE TypeOK'
  <2>1. q \in Request /\ target[q] \in Name
    BY <1>20, Roles DEF TypeOK
  <2>2. /\ pc \in [Request -> Label]
        /\ seen \in [Request -> [Name -> {NoStats} \union SUBSET Row]]
        /\ rows \in [Heap -> SUBSET Row]
        /\ store \in [Name -> Heap \union {NoHeap}]
        /\ held \in [Request -> [Name -> Heap \union {NoHeap}]]
    BY <1>20 DEF TypeOK
  <2>3. pc' \in [Request -> Label]
    BY <1>20, <2>1, <2>2, Labels DEF ScanHeap, Goto
  <2>4. held[q][target[q]] \in Heap
    BY <1>20, <2>1, <2>2 DEF ScanHeap, NoNilHeap
  <2>5. seen' \in [Request -> [Name -> {NoStats} \union SUBSET Row]]
    BY <1>20, <2>1, <2>2, <2>4, PutSeen DEF ScanHeap, Sto!Scan
  <2>6. QED
    BY <1>20, <2>3, <2>4, <2>5 DEF ScanHeap, shared, TypeOK
<1>21. ASSUME TypeOK, NoNilHeap, NEW q \in Statement, InsertRow(q) PROVE TypeOK'
  <2>1. q \in Request /\ target[q] \in Name
    BY <1>21, Roles DEF TypeOK
  <2>2. /\ pc \in [Request -> Label]
        /\ store \in [Name -> Heap \union {NoHeap}]
        /\ rows \in [Heap -> SUBSET Row]
        /\ nth \in [Request -> Nat \ {0}]
        /\ plan \in [Request -> Owner \union {NoTable}]
        /\ held \in [Request -> [Name -> Heap \union {NoHeap}]]
        /\ pos \in [Request -> 1 .. Len(SeedSeq)]
    BY <1>21 DEF TypeOK
  <2>3. pc' \in [Request -> Label]
    BY <1>21, <2>1, <2>2, Labels DEF InsertRow, Goto
  <2>4. [schema |-> plan[q], by |-> q, k |-> nth[q]] \in Row
    BY <1>21, <2>1, <2>2 DEF InsertRow, Row
  <2>5. store' \in [Name -> Heap \union {NoHeap}] /\ rows' \in [Heap -> SUBSET Row]
    BY <1>21, <2>1, <2>2, <2>4, PutRow DEF InsertRow, Sto!Insert
  <2>6. nth' \in [Request -> Nat \ {0}]
    BY <1>21, <2>1, <2>2, PutCount DEF InsertRow
  <2>7. QED
    BY <1>21, <2>3, <2>4, <2>5, <2>6 DEF InsertRow, TypeOK
<1>22. ASSUME TypeOK, NEW q \in Statement, InsertError(q) \/ Emit(q) \/ Timeout(q) PROVE TypeOK'
  <2>1. UNCHANGED <<shared, local>> /\ \E label \in Label : pc' = [pc EXCEPT ![q] = label]
    BY <1>22, Labels DEF InsertError, Emit, Timeout, Goto
  <2>2. pc' \in [Request -> Label]
    BY <1>22, <2>1, Roles DEF TypeOK
  <2>3. QED
    BY <1>22, <2>1, <2>2 DEF shared, local, TypeOK
<1>23. ASSUME TypeOK, UNCHANGED vars PROVE TypeOK'
  BY <1>23 DEF vars, shared, local, TypeOK
<1>24. QED
  BY <1>1, <1>2, <1>3, <1>4, <1>5, <1>6, <1>7, <1>8, <1>9, <1>10, <1>11, <1>12,
     <1>13, <1>14, <1>15, <1>16, <1>17, <1>18, <1>19, <1>20, <1>21, <1>22, <1>23
  DEF Next, Step, CreateStep, SeedStep, WalkStep, SelectStep, InsertStep, Statement, Walker

\* A step of request r leaves what every other request knows alone.
OthersStay(r) ==
  \A x \in Request \ {r} :
    /\ pc'[x] = pc[x] /\ target'[x] = target[x] /\ plan'[x] = plan[x]
    /\ held'[x] = held[x] /\ pos'[x] = pos[x] /\ nth'[x] = nth[x]
    /\ todo'[x] = todo[x] /\ seen'[x] = seen[x] /\ acked'[x] = acked[x]

LEMMA StepLocal ==
  ASSUME TypeOK, NEW r \in Request, Arrive(r) \/ Reject(r) \/ Step(r)
  PROVE  OthersStay(r)
<1> USE DEF OthersStay
<1>1. /\ pc \in [Request -> Label] /\ target \in [Request -> Name]
      /\ plan \in [Request -> Owner \union {NoTable}]
      /\ held \in [Request -> [Name -> Heap \union {NoHeap}]]
      /\ pos \in [Request -> 1 .. Len(SeedSeq)] /\ nth \in [Request -> Nat \ {0}]
      /\ todo \in [Request -> SUBSET Name] /\ acked \in [Request -> SUBSET Name]
      /\ seen \in [Request -> [Name -> {NoStats} \union SUBSET Row]]
  BY DEF TypeOK
<1>2. CASE Arrive(r)
  BY <1>1, <1>2 DEF Arrive, Goto
<1>3. CASE Reject(r)
  BY <1>1, <1>3 DEF Reject, Goto, local
<1>4. CASE CreateStep(r)
  BY <1>1, <1>4 DEF CreateStep, CreateRegister, CreateStorage, CreateRollback, Goto, local
<1>5. CASE SeedStep(r)
  <2>1. CASE SeedDropCatalog(r)
    BY <1>1, <2>1 DEF SeedDropCatalog, Goto, local
  <2>2. CASE SeedDropStore(r)
    BY <1>1, <2>2 DEF SeedDropStore, Goto
  <2>3. CASE SeedRegister(r)
    BY <1>1, <2>3 DEF SeedRegister, Advance, Goto
  <2>4. CASE SeedCreate(r)
    BY <1>1, <2>4 DEF SeedCreate, Advance, Goto
  <2>5. CASE SeedGet(r)
    BY <1>1, <2>5 DEF SeedGet, Advance, Goto
  <2>6. CASE SeedInsert(r)
    BY <1>1, <2>6 DEF SeedInsert, Advance, Goto
  <2>7. QED
    BY <1>5, <2>1, <2>2, <2>3, <2>4, <2>5, <2>6 DEF SeedStep
<1>6. CASE WalkStep(r)
  <2>1. CASE WalkList(r)
    BY <1>1, <2>1 DEF WalkList, Goto
  <2>2. CASE WalkLookup(r)
    BY <1>1, <2>2 DEF WalkLookup, Goto
  <2>3. CASE WalkGet(r)
    BY <1>1, <2>3 DEF WalkGet, Goto
  <2>4. CASE WalkCollect(r)
    BY <1>1, <2>4 DEF WalkCollect, Goto
  <2>5. CASE WalkDone(r)
    BY <1>1, <2>5 DEF WalkDone, Goto, local
  <2>6. QED
    BY <1>6, <2>1, <2>2, <2>3, <2>4, <2>5 DEF WalkStep
<1>7. CASE SelectStep(r) \/ InsertStep(r)
  <2>1. CASE Analyze(r) \/ InsertError(r) \/ Emit(r) \/ Timeout(r)
    BY <1>1, <2>1 DEF Analyze, InsertError, Emit, Timeout, Goto, local
  <2>2. CASE Build(r)
    BY <1>1, <2>2 DEF Build, Goto
  <2>3. CASE Open(r)
    BY <1>1, <2>3 DEF Open, Goto
  <2>4. CASE ScanHeap(r)
    BY <1>1, <2>4 DEF ScanHeap, Goto
  <2>5. CASE InsertRow(r)
    BY <1>1, <2>5 DEF InsertRow, Goto
  <2>6. QED
    BY <1>7, <2>1, <2>2, <2>3, <2>4, <2>5 DEF SelectStep, InsertStep
<1>8. QED
  BY <1>2, <1>3, <1>4, <1>5, <1>6, <1>7 DEF Step

\* No request comes to use a nil heap pointer.
LEMMA NilStep == TypeOK /\ NoNilHeap /\ [Next]_vars => NoNilHeap'
<1> DEFINE NilFree(r) ==
      /\ pc[r] \in {"collect", "scan", "insert"} => held[r][target[r]] # NoHeap
      /\ pc[r] = "seedGet" => \A i \in 1 .. pos[r] - 1 : held[r][SeedSeq[i]] # NoHeap
      /\ pc[r] = "seedInsert" => \A n \in SeedNames : held[r][n] # NoHeap
<1>1. ASSUME TypeOK, NoNilHeap, NEW r \in Request, Arrive(r) \/ Reject(r) \/ Step(r)
      PROVE  NilFree(r)'
  <2>1. /\ pc \in [Request -> Label] /\ target \in [Request -> Name]
        /\ held \in [Request -> [Name -> Heap \union {NoHeap}]]
        /\ pos \in [Request -> 1 .. Len(SeedSeq)]
    BY <1>1 DEF TypeOK
  <2>2. NilFree(r)
    BY <1>1 DEF NoNilHeap
  <2>3. CASE Arrive(r)
    BY <2>1, <2>3 DEF Arrive, Goto
  <2>4. CASE Reject(r)
    BY <2>1, <2>4 DEF Reject, Goto
  <2>5. CASE CreateStep(r)
    BY <2>1, <2>5 DEF CreateStep, CreateRegister, CreateStorage, CreateRollback, Goto
  <2>6. CASE SeedDropCatalog(r) \/ SeedDropStore(r)
    BY <2>1, <2>6 DEF SeedDropCatalog, SeedDropStore, Goto
  <2>7. CASE SeedRegister(r)
    BY <2>1, <2>7 DEF SeedRegister, Advance, Goto
  <2>8. CASE SeedCreate(r)
    BY <2>1, <2>8 DEF SeedCreate, Advance, Goto
  <2>9. CASE SeedGet(r)
    <3>1. CASE pc'[r] = "panicked"
      BY <3>1
    <3>2. CASE /\ Sto!Stored(SeedName(r)) /\ Advance(r, "seedInsert")
               /\ held' = [held EXCEPT ![r][SeedName(r)] = Sto!GetTable(SeedName(r))]
      <4>1. /\ pos[r] \in 1 .. Len(SeedSeq) /\ Len(SeedSeq) \in Nat
            /\ held'[r][SeedSeq[pos[r]]] # NoHeap
            /\ \A n \in Name : held[r][n] # NoHeap => held'[r][n] # NoHeap
            /\ \A i \in 1 .. Len(SeedSeq) : SeedSeq[i] \in Name
        BY <2>1, <3>2, SeedNamesAreNames DEF SeedName, Sto!Stored, Sto!GetTable
      <4>2. \A i \in 1 .. pos[r] : held'[r][SeedSeq[i]] # NoHeap
        BY <2>2, <2>9, <4>1 DEF SeedGet
      <4>3. CASE pos[r] < Len(SeedSeq)
        BY <2>1, <2>9, <3>2, <4>1, <4>2, <4>3 DEF SeedGet, Advance, Goto
      <4>4. CASE ~(pos[r] < Len(SeedSeq))
        <5>1. \A n \in SeedNames : held'[r][n] # NoHeap
          BY <4>1, <4>2, <4>4 DEF SeedNames
        <5>2. pc'[r] = "seedInsert"
          BY <2>1, <3>2, <4>4 DEF Advance, Goto
        <5>3. QED
          BY <5>1, <5>2
      <4>5. QED
        BY <4>3, <4>4
    <3>3. QED
      BY <2>1, <2>9, <3>1, <3>2 DEF SeedGet, Goto
  <2>10. CASE SeedInsert(r)
    BY <2>1, <2>2, <2>10 DEF SeedInsert, Advance, Goto
  <2>11. CASE WalkList(r)
    BY <2>1, <2>11 DEF WalkList, Goto
  <2>12. CASE WalkLookup(r)
    BY <2>1, <2>12 DEF WalkLookup, Goto
  <2>13. CASE WalkGet(r)
    BY <2>1, <2>13 DEF WalkGet, Goto, Sto!Stored, Sto!GetTable
  <2>14. CASE WalkCollect(r) \/ WalkDone(r)
    BY <2>1, <2>14 DEF WalkCollect, WalkDone, Goto
  <2>15. CASE Analyze(r) \/ Build(r)
    BY <2>1, <2>15 DEF Analyze, Build, Goto
  <2>16. CASE Open(r)
    BY <2>1, <2>16 DEF Open, Goto, Sto!Stored, Sto!GetTable
  <2>17. CASE InsertRow(r)
    BY <2>1, <2>2, <2>17 DEF InsertRow, Goto
  <2>18. CASE ScanHeap(r) \/ InsertError(r) \/ Emit(r) \/ Timeout(r)
    BY <2>1, <2>18 DEF ScanHeap, InsertError, Emit, Timeout, Goto
  <2>19. QED
    BY <1>1, <2>3, <2>4, <2>5, <2>6, <2>7, <2>8, <2>9, <2>10, <2>11, <2>12,
       <2>13, <2>14, <2>15, <2>16, <2>17, <2>18
    DEF Step, SeedStep, WalkStep, SelectStep, InsertStep
<1>2. ASSUME TypeOK, NoNilHeap, NEW r \in Request, Arrive(r) \/ Reject(r) \/ Step(r)
      PROVE  NoNilHeap'
  <2>1. NilFree(r)'
    BY <1>1, <1>2
  <2>2. ASSUME NEW x \in Request \ {r} PROVE NilFree(x)'
    <3>1. NilFree(x)
      BY <1>2 DEF NoNilHeap
    <3>2. QED
      BY <3>1, <1>2, StepLocal DEF OthersStay
  <2>3. QED
    BY <2>1, <2>2 DEF NoNilHeap
<1>3. NoNilHeap /\ UNCHANGED vars => NoNilHeap'
  BY DEF NoNilHeap, vars, shared, local
<1>4. QED
  BY <1>2, <1>3 DEF Next

\* Every variable stays in its domain.
THEOREM TypeCorrect == Spec => []TypeOK
<1>1. Init => NoNilHeap
  BY Roles DEF Init, NoNilHeap
<1>2. QED
  BY <1>1, InitType, TypeStep, NilStep, PTL DEF Spec

\* Whatever is dropped and created meanwhile, no request calls a method of a
\* nil heap pointer.
THEOREM NoNilDereference == Spec => []NoNilHeap
<1>1. Init => NoNilHeap
  BY Roles DEF Init, NoNilHeap
<1>2. QED
  BY <1>1, InitType, TypeStep, NilStep, PTL DEF Spec

-----------------------------------------------------------------------------
(* User tables, listings and seed tables.                                    *)

StepOf(r) == Arrive(r) \/ Reject(r) \/ Step(r)

\* A request has one role.
LEMMA OneRole ==
  /\ \A r \in Creator : r \notin Statement /\ r \notin Walker /\ r \notin Seeder
  /\ \A r \in Statement : r \notin Walker /\ r \notin Seeder /\ r \notin Creator
  /\ \A r \in Walker : r \notin Statement /\ r \notin Creator
  /\ \A r \in Inserter : r \in Statement /\ r \notin Selector
  /\ \A r \in Selector : r \in Statement
  /\ \A r \in Seeder : r \in Walker /\ r \notin Lister
  /\ \A r \in Owner : r # NoTable
BY RolesAssumption DEF Statement, Walker

\* Who changes the registries and the heaps.
LEMMA Writers ==
  ASSUME NEW r \in Request, StepOf(r)
  PROVE  \/ UNCHANGED <<catalog, store, rows>>
         \/ r \in Creator /\ CreateStep(r)
         \/ r \in Seeder /\ SeedStep(r)
         \/ r \in Inserter /\ InsertRow(r)
<1>1. CASE Arrive(r) \/ Reject(r)
  BY <1>1 DEF Arrive, Reject, shared
<1>2. CASE WalkStep(r)
  BY <1>2 DEF WalkStep, WalkList, WalkLookup, WalkGet, WalkCollect, WalkDone, shared
<1>3. CASE SelectStep(r)
  BY <1>3 DEF SelectStep, Analyze, Build, Open, ScanHeap, Emit, Timeout, shared
<1>4. CASE r \in Inserter /\ InsertStep(r)
  BY <1>4 DEF InsertStep, Analyze, Build, Open, InsertError, Emit, Timeout, shared
<1>5. QED
  BY <1>1, <1>2, <1>3, <1>4 DEF StepOf, Step

\* The seed tables a seeder works on are no user tables.
LEMMA SeedNameIsSeed ==
  ASSUME TypeOK, NEW s \in Seeder
  PROVE  SeedName(s) \in SeedNames /\ SeedName(s) \in Name /\ s \in Request
<1>1. s \in Request
  BY Roles
<1>2. pos[s] \in 1 .. Len(SeedSeq)
  BY <1>1 DEF TypeOK
<1>3. QED
  BY <1>1, <1>2, SeedNamesAreNames DEF SeedName

\* Only creators touch the entries of user tables.
LEMMA UserEntriesLocal ==
  ASSUME TypeOK, NEW r \in Request, StepOf(r), r \notin Creator, NEW n \in UserNames
  PROVE  catalog'[n] = catalog[n] /\ store'[n] = store[n]
<1>1. /\ catalog \in [Name -> Owner \union {NoTable}]
      /\ store \in [Name -> Heap \union {NoHeap}]
      /\ n \in Name /\ n \notin SeedNames
  BY DEF TypeOK, Cat!CatalogTypeOK, Sto!StorageTypeOK, UserNames
<1>2. CASE UNCHANGED <<catalog, store, rows>>
  BY <1>2
<1>3. CASE r \in Seeder /\ SeedStep(r)
  <2>1. SeedName(r) # n
    BY <1>1, <1>3, SeedNameIsSeed
  <2>2. QED
    BY <1>1, <1>3, <2>1
    DEF SeedStep, SeedDropCatalog, SeedDropStore, SeedRegister, SeedCreate, SeedGet,
        SeedInsert, Cat!Drop, Cat!Register, Sto!DropTable, Sto!CreateTable, Sto!Insert, shared
<1>4. CASE InsertRow(r)
  BY <1>4 DEF InsertRow, Sto!Insert
<1>5. QED
  BY <1>2, <1>3, <1>4, Writers

\* What a creator does to the entries, by what it knows.
LEMMA CreatorEntries ==
  ASSUME TypeOK, UserEntry, CreatorEntry, NEW c \in Creator, StepOf(c), NEW n \in UserNames
  PROVE  \/ catalog'[n] = catalog[n] /\ store'[n] = store[n]
         \/ /\ pc[c] = "register" /\ target[c] = n /\ ~Cat!Registered(n) /\ ~Sto!Stored(n)
            /\ catalog'[n] = c /\ store'[n] = store[n]
         \/ /\ pc[c] = "create" /\ target[c] = n /\ catalog[n] = c /\ ~Sto!Stored(n)
            /\ catalog'[n] = c /\ store'[n] = <<c, n>> /\ rows' = [rows EXCEPT ![<<c, n>>] = {}]
<1>1. /\ catalog \in [Name -> Owner \union {NoTable}]
      /\ store \in [Name -> Heap \union {NoHeap}]
      /\ n \in Name
      /\ c \in Request
  BY Roles DEF TypeOK, Cat!CatalogTypeOK, Sto!StorageTypeOK, UserNames
<1>2. CASE UNCHANGED <<catalog, store, rows>>
  BY <1>2
<1>3. CASE CreateRegister(c)
  <2>1. ~Cat!Registered(n) => ~Sto!Stored(n)
    BY OneRole, Roles, Owners DEF UserEntry, Cat!Registered
  <2>2. CASE Cat!Register(target[c], c)
    BY <1>1, <1>3, <2>1, <2>2 DEF CreateRegister, Cat!Register
  <2>3. QED
    BY <1>1, <1>3, <2>2 DEF CreateRegister
<1>4. CASE CreateStorage(c)
  <2>1. pc[c] = "create" /\ UNCHANGED catalog
    BY <1>4 DEF CreateStorage
  <2>2. target[c] = n => catalog[n] = c
    BY <2>1 DEF CreatorEntry
  <2>3. CASE Sto!CreateTable(target[c], <<c, target[c]>>)
    BY <1>1, <2>1, <2>2, <2>3 DEF Sto!CreateTable
  <2>4. QED
    BY <1>4, <2>3 DEF CreateStorage
<1>5. CASE CreateRollback(c)
  <2>1. target[c] # n
    BY <1>5 DEF CreateRollback, CreatorEntry
  <2>2. QED
    BY <1>1, <1>5, <2>1 DEF CreateRollback, Cat!Drop
<1>6. c \notin Seeder /\ c \notin Inserter
  BY OneRole
<1>7. UNCHANGED <<catalog, store, rows>> \/ CreateStep(c)
  BY <1>1, <1>6, Writers
<1>8. QED
  BY <1>2, <1>3, <1>4, <1>5, <1>7 DEF CreateStep

\* User tables stay: the action of UserTablesStay.
UserTablesKept ==
  \A n \in UserNames :
    /\ Cat!Registered(n) => catalog'[n] = catalog[n]
    /\ Sto!Stored(n) => store'[n] = store[n] /\ rows[store[n]] \subseteq rows'[store[n]]

\* Only an INSERT into the table puts rows into the heap of a user table.
LEMMA UserRowsGrow ==
  ASSUME TypeOK, NoNilHeap, UserInv, NEW r \in Request, StepOf(r),
         NEW n \in UserNames, Sto!Stored(n)
  PROVE  /\ rows[store[n]] \subseteq rows'[store[n]]
         /\ \/ rows'[store[n]] = rows[store[n]]
            \/ /\ r \in Inserter /\ InsertRow(r) /\ target[r] = n
               /\ rows'[store[n]] =
                    rows[store[n]] \union {[schema |-> plan[r], by |-> r, k |-> nth[r]]}
<1>1. /\ store[n] \in Heap /\ store[n] # NoHeap /\ store[n][2] = n
      /\ n \in Name /\ n \notin SeedNames
      /\ rows \in [Heap -> SUBSET Row]
  BY DEF TypeOK, Sto!StorageTypeOK, UserNames, UserInv, HeapsNamed, Sto!Stored
<1>2. CASE UNCHANGED <<catalog, store, rows>>
  BY <1>2
<1>3. CASE r \in Creator /\ CreateStep(r)
  <2>1. CASE CreateStorage(r) /\ Sto!CreateTable(target[r], <<r, target[r]>>)
    <3>1. target[r] # n
      BY <2>1 DEF Sto!CreateTable
    <3>2. QED
      BY <1>1, <2>1, <3>1 DEF Sto!CreateTable
  <2>2. QED
    BY <1>3, <2>1 DEF CreateStep, CreateRegister, CreateStorage, CreateRollback
<1>4. CASE r \in Seeder /\ SeedStep(r)
  <2>1. SeedName(r) # n /\ SeedName(r) \in Name /\ SeedName(r) \in SeedNames
    BY <1>1, <1>4, SeedNameIsSeed
  <2>2. CASE SeedCreate(r) /\ Sto!CreateTable(SeedName(r), <<r, SeedName(r)>>)
    BY <1>1, <2>1, <2>2 DEF Sto!CreateTable
  <2>3. CASE SeedInsert(r)
    <3>1. held[r][SeedName(r)] # NoHeap
      BY <2>1, <2>3 DEF SeedInsert, NoNilHeap
    <3>2. held[r][SeedName(r)][2] = SeedName(r)
      BY <2>1, <3>1 DEF UserInv, HeapsNamed
    <3>3. QED
      BY <1>1, <2>1, <2>3, <3>2 DEF SeedInsert, Sto!Insert
  <2>4. QED
    BY <1>4, <2>2, <2>3
    DEF SeedStep, SeedDropCatalog, SeedDropStore, SeedRegister, SeedCreate, SeedGet,
        Sto!DropTable, shared
<1>5. CASE r \in Inserter /\ InsertRow(r)
  <2>1. held[r][target[r]] # NoHeap /\ target[r] \in Name
    BY <1>5 DEF InsertRow, NoNilHeap, TypeOK
  <2>2. held[r][target[r]][2] = target[r]
    BY <2>1 DEF UserInv, HeapsNamed
  <2>3. CASE target[r] = n
    <3>1. held[r][target[r]] = store[n]
      BY <1>5, <2>3, OneRole DEF InsertRow, UserInv, PlanCurrent
    <3>2. QED
      BY <1>1, <1>5, <2>3, <3>1 DEF InsertRow, Sto!Insert
  <2>4. CASE target[r] # n
    BY <1>1, <1>5, <2>2, <2>4 DEF InsertRow, Sto!Insert
  <2>5. QED
    BY <2>3, <2>4
<1>6. QED
  BY <1>2, <1>3, <1>4, <1>5, Writers

LEMMA UserTablesKeptStep ==
  ASSUME TypeOK, NoNilHeap, UserInv, NEW r \in Request, StepOf(r)
  PROVE  UserTablesKept
<1> SUFFICES ASSUME NEW n \in UserNames
             PROVE  /\ Cat!Registered(n) => catalog'[n] = catalog[n]
                    /\ Sto!Stored(n) => /\ store'[n] = store[n]
                                        /\ rows[store[n]] \subseteq rows'[store[n]]
  BY DEF UserTablesKept
<1>1. Sto!Stored(n) => rows[store[n]] \subseteq rows'[store[n]]
  BY UserRowsGrow
<1>2. /\ Cat!Registered(n) => catalog'[n] = catalog[n]
      /\ Sto!Stored(n) => store'[n] = store[n]
  BY CreatorEntries, UserEntriesLocal DEF UserInv
<1>3. QED
  BY <1>1, <1>2

\* UserEntry and CreatorEntry are kept.
LEMMA EntriesStep ==
  ASSUME TypeOK, NoNilHeap, UserInv, NEW r \in Request, StepOf(r)
  PROVE  UserEntry' /\ CreatorEntry'
<1>1. OthersStay(r)
  BY StepLocal DEF StepOf
<1>2. /\ pc \in [Request -> Label] /\ target \in [Request -> Name]
      /\ UserEntry /\ CreatorEntry /\ UserTablesKept
  BY UserTablesKeptStep DEF TypeOK, UserInv
<1>3. ASSUME NEW n \in UserNames, r \notin Creator
      PROVE  catalog'[n] = catalog[n] /\ store'[n] = store[n]
  BY <1>3, UserEntriesLocal
<1>4. CASE r \notin Creator
  <2>1. \A c \in Creator : pc'[c] = pc[c] /\ target'[c] = target[c]
    BY <1>1, <1>4, Roles DEF OthersStay
  <2>2. UserEntry'
    BY <1>2, <1>3, <1>4, <2>1 DEF UserEntry, Cat!Registered, Sto!Stored
  <2>3. CreatorEntry'
    BY <1>2, <1>3, <1>4, <2>1 DEF CreatorEntry, Cat!Registered
  <2>4. QED
    BY <2>2, <2>3
<1>5. CASE r \in Creator
  <2>1. \A c \in Creator : c # r => pc'[c] = pc[c] /\ target'[c] = target[c]
    BY <1>1, Roles DEF OthersStay
  <2>2. Arrive(r) \/ Reject(r) \/ CreateStep(r)
    BY <1>5, OneRole DEF StepOf, Step
  \* r itself: which label it leaves, which it comes to, with which table.
  <2>3. \/ pc[r] = "idle" /\ pc'[r] \in {"register", "rejected"} /\ UNCHANGED catalog
        \/ /\ target'[r] = target[r]
           /\ \/ pc[r] = "register" /\ pc'[r] = "create" /\ Cat!Register(target[r], r)
              \/ pc[r] = "register" /\ pc'[r] = "conflict" /\ Cat!Registered(target[r])
                 /\ UNCHANGED <<catalog, store>>
              \/ pc[r] = "create" /\ pc'[r] = "ok" /\ Sto!CreateTable(target[r], <<r, target[r]>>)
                 /\ UNCHANGED catalog
              \/ pc[r] = "create" /\ pc'[r] = "rollback" /\ Sto!Stored(target[r])
                 /\ UNCHANGED <<catalog, store>>
              \/ pc[r] = "rollback" /\ pc'[r] = "failed"
    <3>1. CASE Arrive(r)
      <4>1. r \notin Statement /\ r \notin Seeder /\ r \notin Lister
        BY <1>5, OneRole DEF Walker
      <4>2. QED
        BY <1>2, <3>1, <4>1 DEF Arrive, Idle, Goto, shared
    <3>2. CASE Reject(r)
      BY <1>2, <3>2 DEF Reject, Idle, Goto, shared
    <3>3. CASE CreateStep(r)
      BY <1>2, <3>3 DEF CreateStep, CreateRegister, CreateStorage, CreateRollback, Goto, local
    <3>4. QED
      BY <2>2, <3>1, <3>2, <3>3
  <2>4. ASSUME NEW n \in UserNames
        PROVE  \/ catalog'[n] = NoTable /\ store'[n] = NoHeap
               \/ /\ catalog'[n] \in Creator
                  /\ target'[catalog'[n]] = n
                  /\ \/ pc'[catalog'[n]] = "create" /\ store'[n] = NoHeap
                     \/ pc'[catalog'[n]] = "ok" /\ store'[n] = <<catalog'[n], n>>
    <3> USE DEF Cat!Registered, Sto!Stored
    <3>1. \/ catalog[n] = NoTable /\ store[n] = NoHeap
          \/ /\ catalog[n] \in Creator
             /\ target[catalog[n]] = n
             /\ \/ pc[catalog[n]] = "create" /\ store[n] = NoHeap
                \/ pc[catalog[n]] = "ok" /\ store[n] = <<catalog[n], n>>
      BY <1>2 DEF UserEntry
    <3>2. <<r, n>> # NoHeap /\ n \in Name
      BY <1>5, Owners, Heaps, RolesAssumption DEF UserNames
    <3>3. CASE catalog'[n] = catalog[n] /\ store'[n] = store[n]
      <4>1. CASE catalog[n] = r
        <5>1. r # NoTable
          BY <1>5, Owners, OneRole
        <5>2. /\ target[r] = n
              /\ \/ pc[r] = "create" /\ store[n] = NoHeap
                 \/ pc[r] = "ok"
          BY <3>1, <4>1, <5>1
        <5>3. store \in [Name -> Heap \union {NoHeap}]
          BY DEF TypeOK, Sto!StorageTypeOK
        <5>4. QED
          BY <2>3, <3>2, <3>3, <5>2, <5>3 DEF Sto!CreateTable
      <4>2. CASE catalog[n] # r
        BY <2>1, <3>1, <3>3, <4>2
      <4>3. QED
        BY <4>1, <4>2
    <3>4. CASE /\ pc[r] = "register" /\ target[r] = n /\ ~Cat!Registered(n) /\ ~Sto!Stored(n)
               /\ catalog'[n] = r /\ store'[n] = store[n]
      BY <1>5, <2>3, <3>4
    <3>5. CASE /\ pc[r] = "create" /\ target[r] = n /\ catalog[n] = r /\ ~Sto!Stored(n)
               /\ catalog'[n] = r /\ store'[n] = <<r, n>>
      BY <1>5, <2>3, <3>5
    <3>6. QED
      BY <1>2, <1>5, <3>3, <3>4, <3>5, CreatorEntries
  <2>5. ASSUME NEW c \in Creator, target'[c] \in UserNames
        PROVE  /\ pc'[c] \in {"create", "ok"} => catalog'[target'[c]] = c
               /\ pc'[c] = "conflict" => catalog'[target'[c]] # NoTable
               /\ pc'[c] # "rollback"
    <3> USE DEF Cat!Registered, Sto!Stored
    <3>1. CASE c # r
      <4>1. pc'[c] = pc[c] /\ target'[c] = target[c]
        BY <2>1, <3>1
      <4>2. /\ pc[c] \in {"create", "ok"} => catalog[target[c]] = c
            /\ pc[c] = "conflict" => catalog[target[c]] # NoTable
            /\ pc[c] # "rollback"
        BY <1>2, <2>5, <4>1 DEF CreatorEntry
      <4>3. catalog[target[c]] # NoTable => catalog'[target[c]] = catalog[target[c]]
        BY <1>2, <2>5, <4>1 DEF UserTablesKept
      <4>4. c # NoTable
        BY Owners, OneRole
      <4>5. QED
        BY <4>1, <4>2, <4>3, <4>4
    <3>2. CASE c = r
      <4>1. CASE target'[r] # target[r]
        BY <2>3, <3>2, <4>1
      <4>2. CASE target'[r] = target[r]
        <5>1. target[r] \in UserNames /\ target[r] \in Name
          BY <1>5, <1>2, <2>5, <3>2, <4>2 DEF UserNames
        <5>2. catalog \in [Name -> Owner \union {NoTable}]
          BY DEF TypeOK, Cat!CatalogTypeOK
        <5>3. pc[r] = "create" => catalog[target[r]] = r /\ store[target[r]] = NoHeap
          BY <1>2, <1>5, <5>1 DEF CreatorEntry, UserEntry
        <5>4. QED
          BY <2>3, <3>2, <4>2, <5>1, <5>2, <5>3 DEF Cat!Register
      <4>3. QED
        BY <4>1, <4>2
    <3>3. QED
      BY <3>1, <3>2
  <2>6. UserEntry'
    BY <2>4 DEF UserEntry, Cat!Registered, Sto!Stored
  <2>7. CreatorEntry'
    BY <2>5 DEF CreatorEntry, Cat!Registered
  <2>8. QED
    BY <2>6, <2>7
<1>6. QED
  BY <1>4, <1>5

\* A statement takes statement steps, a walker the others.
LEMMA StatementSteps ==
  ASSUME NEW q \in Statement, StepOf(q)
  PROVE  \/ Arrive(q) \/ Reject(q) \/ Analyze(q) \/ Build(q) \/ Open(q)
         \/ q \in Selector /\ ScanHeap(q)
         \/ q \in Inserter /\ InsertRow(q)
         \/ q \in Inserter /\ InsertError(q)
         \/ Emit(q) \/ Timeout(q)
BY OneRole DEF StepOf, Step, SelectStep, InsertStep

\* HeapsNamed is kept.
LEMMA HeapsNamedStep ==
  ASSUME TypeOK, NoNilHeap, UserInv, NEW r \in Request, StepOf(r)
  PROVE  HeapsNamed'
<1>1. /\ store \in [Name -> Heap \union {NoHeap}]
      /\ held \in [Request -> [Name -> Heap \union {NoHeap}]]
      /\ target \in [Request -> Name]
      /\ \A n \in Name : store[n] # NoHeap => store[n][2] = n
      /\ \A x \in Request, n \in Name : held[x][n] # NoHeap => held[x][n][2] = n
  BY DEF TypeOK, Sto!StorageTypeOK, UserInv, HeapsNamed, Sto!Stored
<1>2. ASSUME NEW n \in Name, store'[n] # NoHeap PROVE store'[n][2] = n
  <2>1. CASE UNCHANGED <<catalog, store, rows>>
    BY <1>1, <1>2, <2>1
  <2>2. CASE r \in Creator /\ CreateStep(r)
    BY <1>1, <1>2, <2>2
    DEF CreateStep, CreateRegister, CreateStorage, CreateRollback, Sto!CreateTable
  <2>3. CASE r \in Seeder /\ SeedStep(r)
    <3>1. SeedName(r) \in Name
      BY <2>3, SeedNameIsSeed
    <3>2. \/ store' = store
          \/ store' = [store EXCEPT ![SeedName(r)] = NoHeap]
          \/ store' = [store EXCEPT ![SeedName(r)] = <<r, SeedName(r)>>]
      BY <2>3 DEF SeedStep, SeedDropCatalog, SeedDropStore, SeedRegister, SeedCreate,
                  SeedGet, SeedInsert, Sto!DropTable, Sto!CreateTable, Sto!Insert, shared
    <3>3. QED
      BY <1>1, <1>2, <3>1, <3>2
  <2>4. CASE InsertRow(r)
    BY <1>1, <1>2, <2>4 DEF InsertRow, Sto!Insert
  <2>5. QED
    BY <2>1, <2>2, <2>3, <2>4, Writers
<1>3. \/ held' = held
      \/ \E n \in Name : held' = [held EXCEPT ![r][n] = store[n]]
  <2>1. CASE Arrive(r) \/ Reject(r) \/ CreateStep(r)
    BY <2>1 DEF Arrive, Reject, CreateStep, CreateRegister, CreateStorage, CreateRollback, local
  <2>2. CASE r \in Seeder /\ SeedStep(r)
    BY <2>2, SeedNameIsSeed
    DEF SeedStep, SeedDropCatalog, SeedDropStore, SeedRegister, SeedCreate, SeedGet,
        SeedInsert, Sto!GetTable, local
  <2>3. CASE WalkStep(r)
    BY <1>1, <2>3 DEF WalkStep, WalkList, WalkLookup, WalkGet, WalkCollect, WalkDone,
                      Sto!GetTable, local
  <2>4. CASE SelectStep(r) \/ InsertStep(r)
    BY <1>1, <2>4 DEF SelectStep, InsertStep, Analyze, Build, Open, ScanHeap, InsertRow,
                      InsertError, Emit, Timeout, Sto!GetTable, local
  <2>5. QED
    BY <2>1, <2>2, <2>3, <2>4 DEF StepOf, Step
<1>4. ASSUME NEW x \in Request, NEW n \in Name, held'[x][n] # NoHeap
      PROVE  held'[x][n][2] = n
  BY <1>1, <1>3, <1>4
<1>5. QED
  BY <1>2, <1>4 DEF HeapsNamed, Sto!Stored

\* PlanCurrent is kept.
LEMMA PlanStep ==
  ASSUME TypeOK, NoNilHeap, UserInv, NEW r \in Request, StepOf(r)
  PROVE  PlanCurrent'
<1> USE DEF Cat!Registered, Sto!Stored
<1>1. OthersStay(r) /\ UserTablesKept /\ PlanCurrent
  BY StepLocal, UserTablesKeptStep DEF StepOf, UserInv
<1>2. /\ pc \in [Request -> Label] /\ target \in [Request -> Name]
      /\ plan \in [Request -> Owner \union {NoTable}]
      /\ held \in [Request -> [Name -> Heap \union {NoHeap}]]
  BY DEF TypeOK
<1>3. ASSUME NEW q \in Statement, target'[q] \in UserNames
      PROVE  /\ pc'[q] \in {"build", "open"} => catalog'[target'[q]] # NoTable
             /\ pc'[q] \in {"open", "scan", "insert", "emit", "ok"} =>
                  catalog'[target'[q]] # NoTable /\ plan'[q] = catalog'[target'[q]]
             /\ pc'[q] \in {"scan", "insert", "emit", "ok"} =>
                  store'[target'[q]] # NoHeap /\ held'[q][target'[q]] = store'[target'[q]]
  <2>1. q \in Request
    BY Roles
  <2>2. ASSUME target'[q] = target[q]
        PROVE  /\ catalog[target[q]] # NoTable => catalog'[target[q]] = catalog[target[q]]
               /\ store[target[q]] # NoHeap => store'[target[q]] = store[target[q]]
               /\ pc[q] \in {"build", "open"} => catalog[target[q]] # NoTable
               /\ pc[q] \in {"open", "scan", "insert", "emit", "ok"} =>
                    catalog[target[q]] # NoTable /\ plan[q] = catalog[target[q]]
               /\ pc[q] \in {"scan", "insert", "emit", "ok"} =>
                    store[target[q]] # NoHeap /\ held[q][target[q]] = store[target[q]]
    BY <1>1, <1>3, <2>2 DEF UserTablesKept, PlanCurrent
  <2>3. CASE q # r
    <3>1. /\ pc'[q] = pc[q] /\ target'[q] = target[q] /\ plan'[q] = plan[q]
          /\ held'[q] = held[q]
      BY <1>1, <2>1, <2>3 DEF OthersStay
    <3>2. QED
      BY <2>2, <3>1
  <2>4. CASE q = r
    <3>1. CASE Arrive(q) \/ Reject(q)
      <4>1. q \notin Creator /\ q \notin Seeder /\ q \notin Lister
        BY OneRole DEF Walker
      <4>2. QED
        BY <1>2, <2>1, <3>1, <4>1 DEF Arrive, Reject, Goto
    <3>2. CASE Analyze(q)
      BY <1>2, <2>1, <2>2, <3>2 DEF Analyze, Goto, shared, local
    <3>3. CASE Build(q)
      BY <1>2, <2>1, <2>2, <3>3 DEF Build, Goto, shared, Cat!Lookup
    <3>4. CASE Open(q)
      BY <1>2, <2>1, <2>2, <3>4 DEF Open, Goto, shared, Sto!GetTable
    <3>5. CASE ScanHeap(q)
      BY <1>2, <2>1, <2>2, <3>5 DEF ScanHeap, Goto, shared
    <3>6. CASE InsertRow(q)
      BY <1>2, <2>1, <2>2, <3>6 DEF InsertRow, Goto
    <3>7. CASE InsertError(q) \/ Emit(q) \/ Timeout(q)
      BY <1>2, <2>1, <2>2, <3>7 DEF InsertError, Emit, Timeout, Goto, shared, local
    <3>8. QED
      BY <2>4, <3>1, <3>2, <3>3, <3>4, <3>5, <3>6, <3>7, StatementSteps
  <2>5. QED
    BY <2>3, <2>4
<1>4. QED
  BY <1>3 DEF PlanCurrent

\* UserRowsFit is kept.
LEMMA RowsFitStep ==
  ASSUME TypeOK, NoNilHeap, UserInv, NEW r \in Request, StepOf(r)
  PROVE  UserRowsFit'
<1> USE DEF Cat!Registered, Sto!Stored
<1>1. ASSUME NEW n \in UserNames, store'[n] # NoHeap, NEW row \in rows'[store'[n]]
      PROVE  row.schema = catalog'[n]
  <2>1. CASE store[n] # NoHeap
    <3>1. catalog[n] # NoTable
      BY <2>1, Owners, OneRole DEF UserInv, UserEntry
    <3>2. catalog'[n] = catalog[n] /\ store'[n] = store[n]
      BY <2>1, <3>1, UserTablesKeptStep DEF UserTablesKept
    <3>3. CASE row \in rows[store[n]]
      BY <2>1, <3>2, <3>3 DEF UserInv, UserRowsFit
    <3>4. CASE row \notin rows[store[n]]
      <4>1. r \in Inserter /\ InsertRow(r) /\ target[r] = n /\ row.schema = plan[r]
        BY <1>1, <2>1, <3>2, <3>4, UserRowsGrow
      <4>2. plan[r] = catalog[n]
        BY <4>1, OneRole DEF InsertRow, UserInv, PlanCurrent
      <4>3. QED
        BY <3>2, <4>1, <4>2
    <3>5. QED
      BY <3>3, <3>4
  <2>2. CASE store[n] = NoHeap
    <3>1. r \in Creator
      BY <1>1, <2>2, UserEntriesLocal
    <3>2. rows' = [rows EXCEPT ![store'[n]] = {}] /\ store'[n] = <<r, n>>
      BY <1>1, <2>2, <3>1, CreatorEntries DEF UserInv
    <3>3. <<r, n>> \in Heap /\ rows \in [Heap -> SUBSET Row]
      BY <3>1, Owners, Heaps DEF UserNames, TypeOK, Sto!StorageTypeOK
    <3>4. QED
      BY <1>1, <3>2, <3>3
  <2>3. QED
    BY <2>1, <2>2
<1>2. QED
  BY <1>1 DEF UserRowsFit

\* InsertedSoFar is kept.
LEMMA InsertedStep ==
  ASSUME TypeOK, NoNilHeap, UserInv, NEW r \in Request, StepOf(r)
  PROVE  InsertedSoFar'
<1> USE DEF Cat!Registered, Sto!Stored
<1> DEFINE RowOf(q, k) == [schema |-> plan[q], by |-> q, k |-> k]
<1>1. OthersStay(r) /\ UserTablesKept /\ InsertedSoFar
  BY StepLocal, UserTablesKeptStep DEF StepOf, UserInv
<1>2. /\ pc \in [Request -> Label] /\ target \in [Request -> Name]
      /\ nth \in [Request -> Nat \ {0}]
      /\ rows \in [Heap -> SUBSET Row]
      /\ InsertRows \in Nat \ {0}
  BY SeedAssumption DEF TypeOK, Sto!StorageTypeOK
<1>3. ASSUME NEW q \in Inserter
      PROVE  /\ pc'[q] \in {"idle", "analyze", "build", "open"} => nth'[q] = 1
             /\ target'[q] \in UserNames =>
                  /\ pc'[q] = "insert" =>
                       \A k \in 1 .. nth'[q] - 1 : RowOf(q, k)' \in rows'[store'[target'[q]]]
                  /\ pc'[q] \in {"emit", "ok"} =>
                       \A k \in 1 .. InsertRows : RowOf(q, k)' \in rows'[store'[target'[q]]]
  <2>1. q \in Request /\ q \in Statement /\ q \notin Selector
    BY OneRole, Roles
  <2>2. /\ pc[q] \in {"idle", "analyze", "build", "open"} => nth[q] = 1
        /\ target[q] \in UserNames =>
             /\ pc[q] = "insert" =>
                  \A k \in 1 .. nth[q] - 1 : RowOf(q, k) \in rows[store[target[q]]]
             /\ pc[q] \in {"emit", "ok"} =>
                  \A k \in 1 .. InsertRows : RowOf(q, k) \in rows[store[target[q]]]
    BY <1>1 DEF InsertedSoFar
  <2>3. ASSUME target[q] \in UserNames, pc[q] \in {"insert", "emit", "ok"}
        PROVE  /\ store[target[q]] # NoHeap /\ store'[target[q]] = store[target[q]]
               /\ rows[store[target[q]]] \subseteq rows'[store[target[q]]]
               /\ held[q][target[q]] = store[target[q]]
    <3>1. store[target[q]] # NoHeap /\ held[q][target[q]] = store[target[q]]
      BY <2>1, <2>3 DEF UserInv, PlanCurrent
    <3>2. QED
      BY <1>1, <2>3, <3>1 DEF UserTablesKept
  <2>4. CASE q # r
    <3>1. /\ pc'[q] = pc[q] /\ target'[q] = target[q] /\ plan'[q] = plan[q]
          /\ nth'[q] = nth[q]
      BY <1>1, <2>1, <2>4 DEF OthersStay
    <3>2. QED
      BY <2>2, <2>3, <3>1
  <2>5. CASE q = r
    <3>1. CASE Arrive(q) \/ Reject(q)
      <4>1. q \notin Creator /\ q \notin Seeder /\ q \notin Lister
        BY <2>1, OneRole DEF Walker
      <4>2. pc'[q] \in {"analyze", "rejected"} /\ nth'[q] = nth[q] /\ pc[q] = "idle"
        BY <1>2, <2>1, <3>1, <4>1 DEF Arrive, Reject, Idle, Goto, local
      <4>3. QED
        BY <2>2, <4>2
    <3>2. CASE Analyze(q)
      BY <1>2, <2>1, <2>2, <3>2 DEF Analyze, Goto, shared, local
    <3>3. CASE Build(q)
      BY <1>2, <2>1, <2>2, <3>3 DEF Build, Goto, shared
    <3>4. CASE Open(q)
      BY <1>2, <2>1, <2>2, <3>4 DEF Open, Goto, shared
    <3>5. CASE InsertRow(q)
      <4>1. /\ pc[q] = "insert" /\ target'[q] = target[q] /\ plan' = plan
            /\ nth'[q] = nth[q] + 1 /\ nth[q] \in Nat \ {0}
            /\ pc'[q] = IF nth[q] < InsertRows THEN "insert" ELSE "emit"
        BY <1>2, <2>1, <3>5 DEF InsertRow, Goto
      <4>2. ASSUME target[q] \in UserNames
            PROVE  \A k \in 1 .. nth[q] : RowOf(q, k) \in rows'[store'[target[q]]]
        <5>1. store[target[q]] \in Heap
          BY <2>3, <4>1, <4>2 DEF TypeOK, Sto!StorageTypeOK, UserNames
        <5>2. RowOf(q, nth[q]) \in rows'[store'[target[q]]]
          BY <1>2, <2>3, <3>5, <4>1, <4>2, <5>1 DEF InsertRow, Sto!Insert
        <5>3. \A k \in 1 .. nth[q] - 1 : RowOf(q, k) \in rows'[store'[target[q]]]
          BY <2>2, <2>3, <4>1, <4>2
        <5>4. \A k \in 1 .. nth[q] : k = nth[q] \/ k \in 1 .. nth[q] - 1
          BY <4>1
        <5>5. QED
          BY <5>2, <5>3, <5>4
      <4>3. ASSUME target'[q] \in UserNames
            PROVE  \A k \in 1 .. nth[q] : RowOf(q, k)' \in rows'[store'[target'[q]]]
        BY <4>1, <4>2, <4>3
      <4>4. nth'[q] - 1 = nth[q] /\ pc'[q] \in {"insert", "emit"}
        BY <4>1
      <4>5. pc'[q] = "emit" => \A k \in 1 .. InsertRows : k \in 1 .. nth[q]
        BY <1>2, <4>1
      <4>6. QED
        BY <4>3, <4>4, <4>5
    <3>6. CASE Emit(q)
      <4>1. /\ pc[q] = "emit" /\ pc'[q] = "ok"
            /\ UNCHANGED <<rows, store, target, plan, nth>>
        BY <1>2, <2>1, <3>6 DEF Emit, Goto, shared, local
      <4>2. QED
        BY <2>2, <4>1
    <3>7. CASE InsertError(q) \/ Timeout(q)
      BY <1>2, <2>1, <3>7 DEF InsertError, Timeout, Goto
    <3>8. QED
      BY <2>1, <2>5, <3>1, <3>2, <3>3, <3>4, <3>5, <3>6, <3>7, StatementSteps
  <2>6. QED
    BY <2>4, <2>5
<1>4. QED
  BY <1>3 DEF InsertedSoFar

\* What a walker comes to know of a user table is current.
LEMMA WalkStepKnows ==
  ASSUME TypeOK, NoNilHeap, UserInv, NEW r \in Request, StepOf(r)
  PROVE  WalkNeverAhead' /\ StatsNeverAhead'
<1> USE DEF Cat!Registered, Sto!Stored
<1>1. OthersStay(r) /\ UserTablesKept /\ WalkNeverAhead /\ StatsNeverAhead
  BY StepLocal, UserTablesKeptStep DEF StepOf, UserInv
<1>2. /\ pc \in [Request -> Label] /\ target \in [Request -> Name]
      /\ held \in [Request -> [Name -> Heap \union {NoHeap}]]
      /\ seen \in [Request -> [Name -> {NoStats} \union SUBSET Row]]
      /\ statsMap \in [Name -> {NoStats} \union SUBSET Row]
  BY DEF TypeOK
<1>3. ASSUME NEW s \in Seeder
      PROVE  /\ pc'[s] = "collect" /\ target'[s] \in UserNames =>
                  store'[target'[s]] # NoHeap /\ held'[s][target'[s]] = store'[target'[s]]
             /\ \A n \in UserNames : seen'[s][n] # NoStats =>
                  store'[n] # NoHeap /\ seen'[s][n] \subseteq rows'[store'[n]]
  <2>1. s \in Request /\ s \in Walker /\ s \notin Statement /\ s \notin Creator /\ s \notin Lister
    BY OneRole, Roles
  <2>2. /\ pc[s] = "collect" /\ target[s] \in UserNames =>
             store[target[s]] # NoHeap /\ held[s][target[s]] = store[target[s]]
        /\ \A n \in UserNames : seen[s][n] # NoStats =>
             store[n] # NoHeap /\ seen[s][n] \subseteq rows[store[n]]
    BY <1>1 DEF WalkNeverAhead
  <2>3. \A n \in UserNames : store[n] # NoHeap =>
          store'[n] = store[n] /\ rows[store[n]] \subseteq rows'[store[n]]
    BY <1>1 DEF UserTablesKept
  <2>4. CASE pc'[s] = pc[s] /\ target'[s] = target[s] /\ held'[s] = held[s] /\ seen'[s] = seen[s]
    BY <2>2, <2>3, <2>4
  <2>5. CASE pc'[s] # "collect" /\ seen'[s] = seen[s]
    BY <2>2, <2>3, <2>5
  <2>6. CASE WalkGet(s)
    BY <1>2, <2>1, <2>2, <2>3, <2>6 DEF WalkGet, Goto, shared, Sto!GetTable
  <2>7. CASE WalkCollect(s)
    <3>1. /\ pc[s] = "collect" /\ pc'[s] = "visit" /\ UNCHANGED <<store, rows>>
          /\ seen' = [seen EXCEPT ![s][target[s]] = rows[held[s][target[s]]]]
      BY <1>2, <2>1, <2>7 DEF WalkCollect, Goto, shared, Sto!Scan
    <3>2. \A n \in UserNames : n # target[s] => seen'[s][n] = seen[s][n]
      BY <1>2, <2>1, <3>1 DEF UserNames
    <3>3. target[s] \in UserNames => seen'[s][target[s]] = rows[store[target[s]]]
      BY <1>2, <2>1, <2>2, <3>1
    <3>4. QED
      BY <2>2, <3>1, <3>2, <3>3
  <2>8. CASE s # r
    BY <1>1, <2>1, <2>4, <2>8 DEF OthersStay
  <2>9. CASE s = r /\ ~WalkGet(s) /\ ~WalkCollect(s)
    <3>1. CASE Arrive(s) \/ Reject(s)
      BY <1>2, <2>1, <2>5, <3>1 DEF Arrive, Reject, Goto, local
    <3>2. CASE SeedStep(s)
      <4>1. seen'[s] = seen[s]
        BY <3>2 DEF SeedStep, SeedDropCatalog, SeedDropStore, SeedRegister, SeedCreate,
                    SeedGet, SeedInsert, local
      <4>2. pc'[s] # "collect"
        BY <1>2, <2>1, <3>2
        DEF SeedStep, SeedDropCatalog, SeedDropStore, SeedRegister, SeedCreate,
            SeedGet, SeedInsert, Advance, Goto
      <4>3. QED
        BY <2>5, <4>1, <4>2
    <3>3. CASE WalkList(s) \/ WalkLookup(s) \/ WalkDone(s)
      <4>1. seen'[s] = seen[s]
        BY <3>3 DEF WalkList, WalkLookup, WalkDone, local
      <4>2. pc'[s] # "collect"
        BY <1>2, <2>1, <3>3 DEF WalkList, WalkLookup, WalkDone, Goto
      <4>3. QED
        BY <2>5, <4>1, <4>2
    <3>4. QED
      BY <2>1, <2>9, <3>1, <3>2, <3>3, OneRole DEF StepOf, Step, WalkStep
  <2>10. QED
    BY <2>6, <2>7, <2>8, <2>9
<1>4. ASSUME NEW n \in UserNames, statsMap'[n] # NoStats
      PROVE  store'[n] # NoHeap /\ statsMap'[n] \subseteq rows'[store'[n]]
  <2>1. store[n] # NoHeap =>
          store'[n] = store[n] /\ rows[store[n]] \subseteq rows'[store[n]]
    BY <1>1 DEF UserTablesKept
  <2>2. \/ statsMap' = statsMap
        \/ r \in Seeder /\ statsMap' = seen[r]
    BY DEF StepOf, Step, Arrive, Reject, CreateStep, CreateRegister, CreateStorage,
           CreateRollback, SeedStep, SeedDropCatalog, SeedDropStore, SeedRegister,
           SeedCreate, SeedGet, SeedInsert, WalkStep, WalkList, WalkLookup, WalkGet,
           WalkCollect, WalkDone, SelectStep, InsertStep, Analyze, Build, Open,
           ScanHeap, InsertRow, InsertError, Emit, Timeout, shared
  <2>3. CASE statsMap' = statsMap
    BY <1>1, <1>4, <2>1, <2>3 DEF StatsNeverAhead
  <2>4. CASE r \in Seeder /\ statsMap' = seen[r]
    BY <1>1, <1>4, <2>1, <2>4 DEF WalkNeverAhead
  <2>5. QED
    BY <2>2, <2>3, <2>4
<1>5. QED
  BY <1>3, <1>4 DEF WalkNeverAhead, StatsNeverAhead

\* AckedStored and StatementsSeeAckedTables are kept.
LEMMA AckedStep ==
  ASSUME TypeOK, NoNilHeap, UserInv, NEW r \in Request, StepOf(r)
  PROVE  AckedStored' /\ StatementsSeeAckedTables'
<1> USE DEF Cat!Registered, Sto!Stored
<1>1. OthersStay(r) /\ UserTablesKept
  BY StepLocal, UserTablesKeptStep DEF StepOf
<1>2. /\ pc \in [Request -> Label] /\ target \in [Request -> Name]
      /\ acked \in [Request -> SUBSET Name]
  BY DEF TypeOK
<1>3. \A n \in UserNames : store[n] # NoHeap => catalog[n] # NoTable
  BY OneRole, Owners DEF UserInv, UserEntry
<1>4. \A n \in UserNames : n \in Acked => store[n] # NoHeap
  <2>1. SUFFICES ASSUME NEW n \in UserNames, NEW c \in Creator, pc[c] = "ok", target[c] = n
                 PROVE  store[n] # NoHeap
    BY DEF Acked
  <2>2. catalog[n] = c /\ c # NoTable /\ <<c, n>> # NoHeap
    BY <2>1, OneRole, Owners, Heaps, RolesAssumption DEF UserInv, CreatorEntry, UserNames
  <2>3. QED
    BY <2>1, <2>2 DEF UserInv, UserEntry
<1>5. \/ acked' = acked
      \/ Arrive(r) /\ acked' = [acked EXCEPT ![r] = Acked]
  BY DEF StepOf, Step, Arrive, Reject, CreateStep, CreateRegister, CreateStorage,
         CreateRollback, SeedStep, SeedDropCatalog, SeedDropStore, SeedRegister,
         SeedCreate, SeedGet, SeedInsert, WalkStep, WalkList, WalkLookup, WalkGet,
         WalkCollect, WalkDone, SelectStep, InsertStep, Analyze, Build, Open,
         ScanHeap, InsertRow, InsertError, Emit, Timeout, local
<1>6. AckedStored'
  <2>1. ASSUME NEW x \in Request, NEW n \in UserNames, n \in acked'[x]
        PROVE  store'[n] # NoHeap
    <3>1. store[n] # NoHeap
      BY <1>2, <1>4, <1>5, <2>1 DEF UserInv, AckedStored
    <3>2. QED
      BY <1>1, <3>1 DEF UserTablesKept
  <2>2. QED
    BY <2>1 DEF AckedStored
<1>7. ASSUME NEW q \in Statement, target'[q] \in acked'[q] \intersect UserNames
      PROVE  pc'[q] \notin {"unknownTable", "noHeap"}
  <2>1. q \in Request
    BY Roles
  <2>2. CASE q # r
    BY <1>1, <1>7, <2>1, <2>2 DEF OthersStay, UserInv, StatementsSeeAckedTables
  <2>3. CASE q = r /\ (Arrive(q) \/ Reject(q))
    <3>1. q \notin Creator /\ q \notin Seeder /\ q \notin Lister
      BY OneRole DEF Walker
    <3>2. QED
      BY <1>2, <2>1, <2>3, <3>1 DEF Arrive, Reject, Goto
  <2>4. CASE q = r /\ ~Arrive(q) /\ ~Reject(q)
    <3>1. target'[q] = target[q]
      BY <2>4, StatementSteps DEF Analyze, Build, Open, ScanHeap, InsertRow, InsertError,
                                  Emit, Timeout, local
    <3>2. acked' = acked
      BY <1>5, <2>4
    <3>3. store[target[q]] # NoHeap /\ catalog[target[q]] # NoTable
      BY <1>3, <1>7, <2>1, <3>1, <3>2 DEF UserInv, AckedStored
    <3>4. QED
      BY <1>2, <2>1, <2>4, <3>3, StatementSteps
      DEF Analyze, Build, Open, ScanHeap, InsertRow, InsertError, Emit, Timeout, Goto
  <2>5. QED
    BY <2>2, <2>3, <2>4
<1>8. QED
  BY <1>6, <1>7 DEF StatementsSeeAckedTables

\* The initial state satisfies the invariant.
LEMMA UserInit == Init => UserInv
<1> SUFFICES ASSUME Init PROVE UserInv
  OBVIOUS
<1>1. /\ \A n \in UserNames : n \in Name /\ n \notin SeedNames
      /\ SeedSeq[1] \in SeedNames /\ SeedSeq[1] \in Name
  BY SeedNamesAreNames DEF UserNames
<1>2. UserEntry /\ CreatorEntry /\ UserRowsFit /\ StatsNeverAhead
  BY <1>1, Roles
  DEF Init, UserEntry, CreatorEntry, UserRowsFit, StatsNeverAhead, Cat!Registered, Sto!Stored
<1>3. HeapsNamed
  BY DEF Init, HeapsNamed, Sto!Stored
<1>4. PlanCurrent /\ InsertedSoFar /\ StatementsSeeAckedTables
  BY <1>1, Roles, OneRole DEF Init, PlanCurrent, InsertedSoFar, StatementsSeeAckedTables
<1>5. WalkNeverAhead /\ AckedStored
  BY <1>1, Roles DEF Init, WalkNeverAhead, AckedStored
<1>6. QED
  BY <1>2, <1>3, <1>4, <1>5 DEF UserInv

\* Every step keeps the invariant and every user table.
LEMMA UserStep ==
  TypeOK /\ NoNilHeap /\ UserInv /\ [Next]_vars => UserInv' /\ UserTablesKept
<1>1. ASSUME TypeOK, NoNilHeap, UserInv, NEW r \in Request, StepOf(r)
      PROVE  UserInv' /\ UserTablesKept
  BY <1>1, EntriesStep, HeapsNamedStep, PlanStep, RowsFitStep, InsertedStep,
     WalkStepKnows, AckedStep, UserTablesKeptStep
  DEF UserInv
<1>2. ASSUME UserInv, UNCHANGED vars
      PROVE  UserInv' /\ UserTablesKept
  BY <1>2
  DEF vars, shared, local, UserInv, UserEntry, CreatorEntry, HeapsNamed, PlanCurrent,
      UserRowsFit, InsertedSoFar, WalkNeverAhead, StatsNeverAhead, AckedStored,
      StatementsSeeAckedTables, UserTablesKept, Cat!Registered, Sto!Stored
<1>3. QED
  BY <1>1, <1>2 DEF Next, StepOf

\* The invariant holds in every behaviour.
THEOREM UserCorrect == Spec => []UserInv
BY UserInit, UserStep, TypeCorrect, NoNilDereference, PTL DEF Spec

\* The catalog and the storage agree on every user table, except while its
\* creator stands between its two calls (handleCreateTable).
THEOREM RegistriesAgree == Spec => []UserTablesAgree
<1>1. UserInv => UserTablesAgree
  <2>1. \A c \in Creator, n \in UserNames : c # NoTable /\ <<c, n>> # NoHeap
    BY OneRole, Owners, Heaps, RolesAssumption DEF UserNames
  <2>2. QED
    BY <2>1 DEF UserInv, UserEntry, UserTablesAgree, Cat!Registered, Sto!Stored
<1>2. QED
  BY <1>1, UserCorrect, PTL

\* The rollback path of handleCreateTable is dead code for user tables.
THEOREM NoUserRollback == Spec => []UserCreateNeverRollsBack
<1>1. TypeOK /\ UserInv => UserCreateNeverRollsBack
  BY Roles DEF TypeOK, UserInv, CreatorEntry, UserCreateNeverRollsBack, UserNames
<1>2. QED
  BY <1>1, UserCorrect, TypeCorrect, PTL

\* A row an INSERT has planned for one table never lands in the heap of another.
THEOREM RowsFit == Spec => []UserRowsFit
<1>1. UserInv => UserRowsFit
  BY DEF UserInv
<1>2. QED
  BY <1>1, UserCorrect, PTL

\* What an INSERT answered 200 has inserted into a user table is still there.
THEOREM InsertsStay == Spec => []AckedInsertsStay
<1>1. UserInv => AckedInsertsStay
  BY DEF UserInv, InsertedSoFar, AckedInsertsStay
<1>2. QED
  BY <1>1, UserCorrect, PTL

\* Two CREATE TABLE requests for one name are never both answered 201.
THEOREM CreatesExclude == Spec => []OneCreateWins
<1>1. UserInv => OneCreateWins
  BY OneRole, Owners DEF UserInv, UserEntry, CreatorEntry, OneCreateWins, Cat!Registered
<1>2. QED
  BY <1>1, UserCorrect, PTL

\* The statistics of a user table count no row a scan would not return.
THEOREM StatsLag == Spec => []StatsNeverAhead
<1>1. UserInv => StatsNeverAhead
  BY DEF UserInv
<1>2. QED
  BY <1>1, UserCorrect, PTL

\* A statement that arrives after the 201 of a CREATE TABLE finds the table.
THEOREM AckedTablesFound == Spec => []StatementsSeeAckedTables
<1>1. UserInv => StatementsSeeAckedTables
  BY DEF UserInv
<1>2. QED
  BY <1>1, UserCorrect, PTL

\* No step takes a user table, its heap or a row of it away.
THEOREM UserTablesNeverLost == Spec => UserTablesStay
<1>1. UserTablesKept =>
        [\A n \in UserNames :
           /\ Cat!Registered(n) => catalog'[n] = catalog[n]
           /\ Sto!Stored(n) => store'[n] = store[n] /\ rows[store[n]] \subseteq rows'[store[n]]]_vars
  BY DEF UserTablesKept
<1>2. QED
  BY <1>1, UserStep, UserCorrect, TypeCorrect, NoNilDereference, PTL DEF Spec, UserTablesStay

-----------------------------------------------------------------------------
(* Listings of tables                                                      *)

\* A table that was acknowledged before the listing began is listed, or its turn
\* is still to come.
ListingInv ==
  \A w \in Lister, n \in UserNames :
    n \in acked[w] =>
      /\ pc[w] \in {"visit", "fetch", "collect", "ok"} =>
           n \in todo[w] \/ seen[w][n] # NoStats \/ (pc[w] \in {"fetch", "collect"} /\ target[w] = n)
      /\ pc[w] = "ok" => todo[w] = {}

\* At the start nothing has been acknowledged.
LEMMA ListingInit == Init => ListingInv
BY Roles DEF Init, ListingInv, Walker

\* Every step keeps ListingInv: a table that was acknowledged stands, so that a
\* walk neither skips it nor finds it without a heap.
LEMMA ListingStep ==
  ASSUME TypeOK, NoNilHeap, UserInv, ListingInv, NEW r \in Request, StepOf(r)
  PROVE  ListingInv'
<1>1. OthersStay(r)
  BY StepLocal DEF StepOf
<1>2. /\ pc \in [Request -> Label] /\ target \in [Request -> Name]
      /\ held \in [Request -> [Name -> Heap \union {NoHeap}]]
      /\ todo \in [Request -> SUBSET Name] /\ acked \in [Request -> SUBSET Name]
      /\ seen \in [Request -> [Name -> {NoStats} \union SUBSET Row]]
      /\ rows \in [Heap -> SUBSET Row]
  BY DEF TypeOK, Sto!StorageTypeOK
<1> SUFFICES ASSUME NEW w \in Lister, NEW n \in UserNames, n \in acked'[w]
             PROVE  /\ pc'[w] \in {"visit", "fetch", "collect", "ok"} =>
                         \/ n \in todo'[w] \/ seen'[w][n] # NoStats
                         \/ pc'[w] \in {"fetch", "collect"} /\ target'[w] = n
                    /\ pc'[w] = "ok" => todo'[w] = {}
  BY DEF ListingInv
<1>3. w \in Request /\ w \in Walker /\ w \notin Creator /\ w \notin Statement /\ w \notin Seeder
  BY OneRole, Roles DEF Walker
<1>4. n \in Name
  BY DEF UserNames
<1>5. n \in acked[w] =>
        /\ pc[w] \in {"visit", "fetch", "collect", "ok"} =>
             n \in todo[w] \/ seen[w][n] # NoStats \/ (pc[w] \in {"fetch", "collect"} /\ target[w] = n)
        /\ pc[w] = "ok" => todo[w] = {}
  BY DEF ListingInv
<1>6. CASE w # r
  BY <1>1, <1>3, <1>5, <1>6 DEF OthersStay
<1>7. CASE w = r /\ Arrive(w)
  BY <1>2, <1>3, <1>7 DEF Arrive, Goto
<1>8. CASE w = r /\ ~Arrive(w)
  <2>1. WalkStep(w)
    BY <1>3, <1>8, OneRole DEF StepOf, Step, Reject
  <2>2. n \in acked[w]
    BY <2>1 DEF WalkStep, WalkList, WalkLookup, WalkGet, WalkCollect, WalkDone, local
  <2>3. store[n] # NoHeap /\ catalog[n] # NoTable
    BY <1>3, <2>2, OneRole, Owners
    DEF UserInv, AckedStored, UserEntry, Cat!Registered, Sto!Stored
  <2>4. CASE WalkList(w)
    BY <1>2, <1>3, <1>4, <2>3, <2>4 DEF WalkList, Goto, Cat!List, Cat!Registered
  <2>5. CASE WalkLookup(w)
    BY <1>2, <1>3, <1>5, <2>2, <2>3, <2>5 DEF WalkLookup, Goto, Cat!Registered
  <2>6. CASE WalkGet(w)
    BY <1>2, <1>3, <1>4, <1>5, <2>2, <2>3, <2>6 DEF WalkGet, Goto, Sto!Stored
  <2>7. CASE WalkCollect(w)
    <3>1. held[w][target[w]] \in Heap
      BY <1>2, <1>3, <2>7 DEF WalkCollect, TypeOK, NoNilHeap
    <3>2. rows[held[w][target[w]]] # NoStats
      BY <1>2, <3>1, RolesAssumption
    <3>3. QED
      BY <1>2, <1>3, <1>4, <1>5, <2>2, <2>7, <3>2 DEF WalkCollect, Goto, Sto!Scan
  <2>8. CASE WalkDone(w)
    BY <1>2, <1>3, <1>5, <2>2, <2>8 DEF WalkDone, Goto, local
  <2>9. QED
    BY <2>1, <2>4, <2>5, <2>6, <2>7, <2>8 DEF WalkStep
<1>9. QED
  BY <1>6, <1>7, <1>8

\* GET /api/schema lists every table whose 201 preceded the request.
THEOREM ListingsComplete == Spec => []ListingsShowAckedTables
<1>1. TypeOK /\ NoNilHeap /\ UserInv /\ ListingInv /\ [Next]_vars => ListingInv'
  <2>1. ListingInv /\ UNCHANGED vars => ListingInv'
    BY DEF ListingInv, vars, local
  <2>2. QED
    BY <2>1, ListingStep DEF Next, StepOf
<1>2. ListingInv => ListingsShowAckedTables
  BY DEF ListingInv, ListingsShowAckedTables
<1>3. QED
  BY <1>1, <1>2, ListingInit, UserCorrect, TypeCorrect, NoNilDereference, PTL DEF Spec

-----------------------------------------------------------------------------
(* Seed tables, when one request restores them and no CREATE TABLE is      *)
(* about them                                                              *)

Place == 1 .. Len(SeedSeq)

OwnTable(s, i) == catalog[SeedSeq[i]] = s
OwnHeap(s, i)  == store[SeedSeq[i]] = <<s, SeedSeq[i]>>
OwnRows(s, i)  == SeedHeap(s) \subseteq rows[<<s, SeedSeq[i]>>]
Whole(s, i)    == OwnTable(s, i) /\ OwnHeap(s, i) /\ OwnRows(s, i)

\* What the statistics the walk has collected say of the table at place i.
Counted(s, stats, i) == stats[SeedSeq[i]] # NoStats /\ SeedHeap(s) \subseteq stats[SeedSeq[i]]

\* Reset takes the tables out one after the other ...
Dropping(s) ==
  /\ pc[s] \in {"dropCatalog", "dropStore"} =>
       \A i \in Place : i < pos[s] => catalog[SeedSeq[i]] = NoTable /\ store[SeedSeq[i]] = NoHeap
  /\ pc[s] = "dropStore" => catalog[SeedName(s)] = NoTable

\* ... and puts them back in three passes.
Restoring(s) ==
  /\ pc[s] = "seedRegister" =>
       \A i \in Place :
         /\ store[SeedSeq[i]] = NoHeap
         /\ IF i < pos[s] THEN OwnTable(s, i) ELSE catalog[SeedSeq[i]] = NoTable
  /\ pc[s] = "seedCreate" =>
       \A i \in Place :
         /\ OwnTable(s, i)
         /\ IF i < pos[s] THEN OwnHeap(s, i) ELSE store[SeedSeq[i]] = NoHeap
  /\ pc[s] \in {"seedGet", "seedInsert"} =>
       \A i \in Place :
         /\ OwnTable(s, i) /\ OwnHeap(s, i)
         /\ i < pos[s] \/ pc[s] = "seedInsert" => held[s][SeedSeq[i]] = <<s, SeedSeq[i]>>

Filling(s) ==
  /\ pc[s] \in {"idle", "dropCatalog", "dropStore", "seedRegister", "seedCreate", "seedGet"} =>
       nth[s] = 1
  /\ pc[s] = "seedInsert" =>
       /\ \A i \in Place : i < pos[s] => OwnRows(s, i)
       /\ \A k \in 1 .. nth[s] - 1 : SeedRow(s, k) \in rows[<<s, SeedName(s)>>]

\* The walk of RefreshStats comes to each of the tables.
Counting(s) ==
  /\ pc[s] \in {"list", "visit", "fetch", "collect", "ok"} => \A i \in Place : Whole(s, i)
  /\ pc[s] \in {"visit", "fetch", "collect"} =>
       \A i \in Place :
         \/ SeedSeq[i] \in todo[s]
         \/ Counted(s, seen[s], i)
         \/ pc[s] # "visit" /\ target[s] = SeedSeq[i]
  /\ pc[s] = "collect" => \A i \in Place : target[s] = SeedSeq[i] => held[s][target[s]] = <<s, target[s]>>
  /\ pc[s] = "ok" => \A i \in Place : Counted(s, statsMap, i)

SeedProgress(s) ==
  /\ pc[s] = "idle" => pos[s] = 1
  /\ pc[s] \notin {"failed", "panicked"}
  /\ Dropping(s) /\ Restoring(s) /\ Filling(s) /\ Counting(s)

SeedInv == OneSeeder /\ SeedNamesLeftAlone => \A s \in Seeder : SeedProgress(s)

\* The seed tables have places of their own in SeedSeq.
LEMMA Places ==
  /\ Len(SeedSeq) \in Nat \ {0}
  /\ \A i \in Place : SeedSeq[i] \in SeedNames /\ SeedSeq[i] \in Name
  /\ \A i, j \in Place : SeedSeq[i] = SeedSeq[j] => i = j
  /\ \A n \in SeedNames : \E i \in Place : n = SeedSeq[i]
BY SeedAssumption, SeedNamesAreNames DEF Place, SeedNames

\* A CREATE TABLE on a seed table is never forgotten.
LEMMA LeftAloneSoFar ==
  ASSUME TypeOK, NEW r \in Request, StepOf(r), SeedNamesLeftAlone'
  PROVE  /\ SeedNamesLeftAlone
         /\ r \in Creator /\ CreateStep(r) => target[r] \notin SeedNames
<1>1. OthersStay(r)
  BY StepLocal DEF StepOf
<1>2. /\ pc \in [Request -> Label] /\ target \in [Request -> Name]
  BY DEF TypeOK
<1>3. \A c \in Creator : target'[c] \in SeedNames => pc'[c] \in {"idle", "rejected"}
  BY DEF SeedNamesLeftAlone
<1>4. r \in Creator => Arrive(r) \/ Reject(r) \/ CreateStep(r)
  BY OneRole DEF StepOf, Step
<1>5. ASSUME r \in Creator, CreateStep(r)
      PROVE  target[r] \notin SeedNames
  <2>1. target'[r] = target[r] /\ pc'[r] \notin {"idle", "rejected"}
    BY <1>2, <1>5 DEF CreateStep, CreateRegister, CreateStorage, CreateRollback, Goto, local
  <2>2. QED
    BY <1>3, <1>5, <2>1
<1>6. ASSUME NEW c \in Creator, target[c] \in SeedNames
      PROVE  pc[c] \in {"idle", "rejected"}
  <2>1. CASE c # r
    BY <1>1, <1>3, <1>6, <2>1, Roles DEF OthersStay
  <2>2. CASE c = r
    BY <1>4, <1>5, <1>6, <2>2 DEF Arrive, Reject, Idle
  <2>3. QED
    BY <2>1, <2>2
<1>7. QED
  BY <1>5, <1>6 DEF SeedNamesLeftAlone

\* Nobody else touches the tables the seeder puts back.
LEMMA SeedTablesUndisturbed ==
  ASSUME TypeOK, OneSeeder, SeedNamesLeftAlone', NEW s \in Seeder,
         NEW r \in Request, r # s, StepOf(r), NEW i \in Place
  PROVE  /\ catalog'[SeedSeq[i]] = catalog[SeedSeq[i]]
         /\ store'[SeedSeq[i]] = store[SeedSeq[i]]
         /\ rows[<<s, SeedSeq[i]>>] \subseteq rows'[<<s, SeedSeq[i]>>]
         /\ statsMap' = statsMap
<1> DEFINE n == SeedSeq[i]
           Kept == catalog'[n] = catalog[n] /\ store'[n] = store[n] /\ rows[<<s, n>>] \subseteq rows'[<<s, n>>]
<1>1. /\ catalog \in [Name -> Owner \union {NoTable}]
      /\ store \in [Name -> Heap \union {NoHeap}]
      /\ rows \in [Heap -> SUBSET Row]
      /\ n \in Name /\ n \in SeedNames /\ <<s, n>> \in Heap
  BY Places, Owners, Heaps DEF TypeOK, Cat!CatalogTypeOK, Sto!StorageTypeOK
<1> HIDE DEF n
<1>2. r \notin Seeder
  BY DEF OneSeeder
<1>3. statsMap' = statsMap
  BY <1>2
  DEF StepOf, Step, Arrive, Reject, CreateStep, CreateRegister, CreateStorage,
      CreateRollback, WalkStep, WalkList, WalkLookup, WalkGet, WalkCollect, WalkDone,
      SelectStep, InsertStep, Analyze, Build, Open, ScanHeap, InsertRow, InsertError,
      Emit, Timeout, shared
<1>4. CASE r \in Creator /\ CreateStep(r)
  <2>1. target[r] # n
    BY <1>1, <1>4, LeftAloneSoFar
  <2>2. ASSUME CreateRegister(r) PROVE Kept
    BY <1>1, <2>1, <2>2 DEF CreateRegister, Cat!Register
  <2>3. ASSUME CreateStorage(r) PROVE Kept
    BY <1>1, <2>1, <2>3 DEF CreateStorage, Sto!CreateTable
  <2>4. ASSUME CreateRollback(r) PROVE Kept
    BY <1>1, <2>1, <2>4 DEF CreateRollback, Cat!Drop
  <2>5. Kept
    BY <1>4, <2>2, <2>3, <2>4 DEF CreateStep
  <2>6. QED
    BY <1>3, <2>5 DEF n
<1>5. CASE InsertRow(r)
  <2>1. Kept
    BY <1>1, <1>5 DEF InsertRow, Sto!Insert
  <2>2. QED
    BY <1>3, <2>1 DEF n
<1>6. CASE UNCHANGED <<catalog, store, rows>>
  BY <1>3, <1>6
<1>7. QED
  BY <1>2, <1>4, <1>5, <1>6, Writers

\* A step of another request leaves what the seeder has achieved.
LEMMA SeedOthersStep ==
  ASSUME TypeOK, OneSeeder, SeedNamesLeftAlone', NEW s \in Seeder, SeedProgress(s),
         NEW r \in Request, r # s, StepOf(r)
  PROVE  SeedProgress(s)'
<1>1. /\ pc'[s] = pc[s] /\ target'[s] = target[s] /\ held'[s] = held[s] /\ pos'[s] = pos[s]
      /\ nth'[s] = nth[s] /\ todo'[s] = todo[s] /\ seen'[s] = seen[s]
  BY StepLocal, Roles DEF StepOf, OthersStay
<1>2. \A i \in Place :
        /\ catalog'[SeedSeq[i]] = catalog[SeedSeq[i]]
        /\ store'[SeedSeq[i]] = store[SeedSeq[i]]
        /\ rows[<<s, SeedSeq[i]>>] \subseteq rows'[<<s, SeedSeq[i]>>]
        /\ statsMap' = statsMap
  BY SeedTablesUndisturbed
<1>3. pos[s] \in Place
  BY Roles DEF TypeOK, Place
<1>4. Dropping(s)'
  BY <1>1, <1>2, <1>3 DEF SeedProgress, Dropping, SeedName
<1>5. Restoring(s)'
  BY <1>1, <1>2, <1>3 DEF SeedProgress, Restoring, OwnTable, OwnHeap
<1>6. Filling(s)'
  BY <1>1, <1>2, <1>3 DEF SeedProgress, Filling, OwnRows, SeedName, SeedHeap, SeedRow
<1>7. Counting(s)'
  <2>1. \A i \in Place : Whole(s, i) => Whole(s, i)'
    BY <1>2 DEF Whole, OwnTable, OwnHeap, OwnRows, SeedHeap, SeedRow
  <2>2. statsMap' = statsMap
    BY <1>2, <1>3
  <2>3. QED
    BY <1>1, <2>1, <2>2 DEF SeedProgress, Counting, Counted
<1>8. QED
  BY <1>1, <1>4, <1>5, <1>6, <1>7 DEF SeedProgress

\* The seeder's own steps.
LEMMA SeedOwnStep ==
  ASSUME TypeOK, NoNilHeap, NEW s \in Seeder, SeedProgress(s), StepOf(s)
  PROVE  SeedProgress(s)'
<1> USE DEF Goto, Place
<1>1. /\ pc \in [Request -> Label] /\ target \in [Request -> Name]
      /\ catalog \in [Name -> Owner \union {NoTable}]
      /\ store \in [Name -> Heap \union {NoHeap}] /\ rows \in [Heap -> SUBSET Row]
      /\ held \in [Request -> [Name -> Heap \union {NoHeap}]]
      /\ pos \in [Request -> 1 .. Len(SeedSeq)] /\ nth \in [Request -> Nat \ {0}]
      /\ todo \in [Request -> SUBSET Name]
      /\ seen \in [Request -> [Name -> {NoStats} \union SUBSET Row]]
  BY DEF TypeOK, Cat!CatalogTypeOK, Sto!StorageTypeOK
<1>2. /\ s \in Request /\ s \in Walker /\ s \notin Creator /\ s \notin Statement /\ s \notin Lister
      /\ s # NoTable
  BY OneRole, Roles, Owners
<1>3. /\ pos[s] \in Place /\ SeedName(s) = SeedSeq[pos[s]] /\ SeedName(s) \in Name
      /\ nth[s] \in Nat \ {0}
  BY <1>1, <1>2, Places DEF SeedName
<1>4. \A i \in Place : <<s, SeedSeq[i]>> \in Heap /\ <<s, SeedSeq[i]>> # NoHeap
  BY Places, Owners, Heaps, RolesAssumption
<1>5. Dropping(s) /\ Restoring(s) /\ Filling(s) /\ Counting(s)
  BY DEF SeedProgress
<1>6. CASE Arrive(s)
  <2>1. pc[s] = "idle" /\ pc'[s] = "dropCatalog" /\ pos' = pos /\ nth' = nth
    BY <1>1, <1>2, <1>6 DEF Arrive, Idle
  <2>2. pos[s] = 1 /\ nth[s] = 1
    BY <2>1 DEF SeedProgress, Filling
  <2>3. QED
    BY <1>3, <2>1, <2>2 DEF SeedProgress, Dropping, Restoring, Filling, Counting
<1>7. CASE Reject(s)
  <2>1. pc'[s] = "rejected"
    BY <1>1, <1>2, <1>7 DEF Reject
  <2>2. QED
    BY <2>1 DEF SeedProgress, Dropping, Restoring, Filling, Counting
<1>8. CASE SeedDropCatalog(s)
  <2>1. /\ pc[s] = "dropCatalog" /\ pc'[s] = "dropStore" /\ UNCHANGED <<store, pos, nth>>
        /\ catalog' = [catalog EXCEPT ![SeedName(s)] = NoTable]
    BY <1>1, <1>2, <1>8 DEF SeedDropCatalog, Cat!Drop, local
  <2>2. \A i \in Place : i < pos[s] => catalog'[SeedSeq[i]] = NoTable /\ store'[SeedSeq[i]] = NoHeap
    BY <1>1, <1>5, <2>1, Places DEF Dropping
  <2>3. catalog'[SeedName(s)'] = NoTable
    BY <1>1, <1>3, <2>1 DEF SeedName
  <2>4. QED
    BY <1>5, <2>1, <2>2, <2>3 DEF SeedProgress, Dropping, Restoring, Filling, Counting
<1>9. CASE SeedDropStore(s)
  <2>1. /\ pc[s] = "dropStore" /\ UNCHANGED <<catalog, nth>>
        /\ store' = [store EXCEPT ![SeedName(s)] = NoHeap]
        /\ IF pos[s] < Len(SeedSeq)
           THEN pos'[s] = pos[s] + 1 /\ pc'[s] = "dropCatalog"
           ELSE pos'[s] = 1 /\ pc'[s] = "seedRegister"
    BY <1>1, <1>2, <1>9 DEF SeedDropStore, Sto!DropTable
  <2>2. \A i \in Place : i < pos[s] \/ i = pos[s] =>
          catalog'[SeedSeq[i]] = NoTable /\ store'[SeedSeq[i]] = NoHeap
    BY <1>1, <1>3, <1>5, <2>1, Places DEF Dropping
  <2>3. CASE pos[s] < Len(SeedSeq)
    <3>1. \A i \in Place : i < pos'[s] => i < pos[s] \/ i = pos[s]
      BY <1>3, <2>1, <2>3, Places
    <3>2. QED
      BY <1>5, <2>1, <2>2, <2>3, <3>1
      DEF SeedProgress, Dropping, Restoring, Filling, Counting
  <2>4. CASE ~(pos[s] < Len(SeedSeq))
    <3>1. \A i \in Place : (i < pos[s] \/ i = pos[s]) /\ ~(i < 1)
      BY <1>3, <2>4, Places
    <3>2. \A i \in Place : catalog'[SeedSeq[i]] = NoTable /\ store'[SeedSeq[i]] = NoHeap
      BY <2>2, <3>1
    <3>3. QED
      BY <1>5, <2>1, <2>4, <3>1, <3>2
      DEF SeedProgress, Dropping, Restoring, Filling, Counting
  <2>5. QED
    BY <2>3, <2>4
<1>10. CASE SeedRegister(s)
  <2>1. pc[s] = "seedRegister" /\ UNCHANGED <<store, nth>>
    BY <1>10 DEF SeedRegister
  <2>2. \A i \in Place :
          /\ store[SeedSeq[i]] = NoHeap
          /\ IF i < pos[s] THEN catalog[SeedSeq[i]] = s ELSE catalog[SeedSeq[i]] = NoTable
    BY <1>5, <2>1 DEF Restoring, OwnTable
  <2>3. /\ catalog' = [catalog EXCEPT ![SeedName(s)] = s]
        /\ IF pos[s] < Len(SeedSeq)
           THEN pos'[s] = pos[s] + 1 /\ pc'[s] = "seedRegister"
           ELSE pos'[s] = 1 /\ pc'[s] = "seedCreate"
    BY <1>1, <1>2, <1>3, <1>10, <2>2 DEF SeedRegister, Cat!Register, Cat!Registered, Advance
  <2>4. \A i \in Place :
          IF i < pos[s] \/ i = pos[s] THEN catalog'[SeedSeq[i]] = s
                                      ELSE catalog'[SeedSeq[i]] = NoTable
    BY <1>1, <1>3, <2>2, <2>3, Places
  <2>5. Restoring(s)'
    BY <1>3, <2>1, <2>2, <2>3, <2>4, Places DEF Restoring, OwnTable, OwnHeap
  <2>6. QED
    BY <1>5, <2>1, <2>3, <2>5 DEF SeedProgress, Dropping, Filling, Counting
<1>11. CASE SeedCreate(s)
  <2>1. pc[s] = "seedCreate" /\ UNCHANGED <<catalog, nth, held>>
    BY <1>11 DEF SeedCreate
  <2>2. \A i \in Place :
          /\ catalog[SeedSeq[i]] = s
          /\ IF i < pos[s] THEN store[SeedSeq[i]] = <<s, SeedSeq[i]>> ELSE store[SeedSeq[i]] = NoHeap
    BY <1>5, <2>1 DEF Restoring, OwnTable, OwnHeap
  <2>3. /\ store' = [store EXCEPT ![SeedName(s)] = <<s, SeedName(s)>>]
        /\ IF pos[s] < Len(SeedSeq)
           THEN pos'[s] = pos[s] + 1 /\ pc'[s] = "seedCreate"
           ELSE pos'[s] = 1 /\ pc'[s] = "seedGet"
    BY <1>1, <1>2, <1>3, <1>11, <2>2 DEF SeedCreate, Sto!CreateTable, Sto!Stored, Advance
  <2>4. \A i \in Place :
          IF i < pos[s] \/ i = pos[s] THEN store'[SeedSeq[i]] = <<s, SeedSeq[i]>>
                                      ELSE store'[SeedSeq[i]] = NoHeap
    BY <1>1, <1>3, <2>2, <2>3, Places
  <2>5. Restoring(s)'
    <3>1. CASE pos[s] < Len(SeedSeq)
      <4>1. \A i \in Place : i < pos'[s] <=> i < pos[s] \/ i = pos[s]
        BY <1>3, <2>3, <3>1, Places
      <4>2. QED
        BY <2>1, <2>2, <2>3, <2>4, <3>1, <4>1 DEF Restoring, OwnTable, OwnHeap
    <3>2. CASE ~(pos[s] < Len(SeedSeq))
      <4>1. \A i \in Place : (i < pos[s] \/ i = pos[s]) /\ ~(i < 1)
        BY <1>3, <3>2, Places
      <4>2. \A i \in Place : store'[SeedSeq[i]] = <<s, SeedSeq[i]>>
        BY <2>4, <4>1
      <4>3. QED
        BY <2>1, <2>2, <2>3, <3>2, <4>1, <4>2 DEF Restoring, OwnTable, OwnHeap
    <3>3. QED
      BY <3>1, <3>2
  <2>6. QED
    BY <1>5, <2>1, <2>3, <2>5 DEF SeedProgress, Dropping, Filling, Counting
<1>12. CASE SeedGet(s)
  <2>1. pc[s] = "seedGet" /\ UNCHANGED <<catalog, store, rows, nth>>
    BY <1>12 DEF SeedGet, shared
  <2>2. \A i \in Place :
          /\ catalog[SeedSeq[i]] = s /\ store[SeedSeq[i]] = <<s, SeedSeq[i]>>
          /\ i < pos[s] => held[s][SeedSeq[i]] = <<s, SeedSeq[i]>>
    BY <1>5, <2>1 DEF Restoring, OwnTable, OwnHeap
  <2>3. /\ held' = [held EXCEPT ![s][SeedName(s)] = store[SeedName(s)]]
        /\ IF pos[s] < Len(SeedSeq)
           THEN pos'[s] = pos[s] + 1 /\ pc'[s] = "seedGet"
           ELSE pos'[s] = 1 /\ pc'[s] = "seedInsert"
    <3>1. store[SeedName(s)] # NoHeap
      BY <1>3, <1>4, <2>2
    <3>2. QED
      BY <1>1, <1>2, <1>12, <2>1, <3>1 DEF SeedGet, Sto!GetTable, Sto!Stored, Advance
  <2>4. \A i \in Place : i < pos[s] \/ i = pos[s] => held'[s][SeedSeq[i]] = <<s, SeedSeq[i]>>
    BY <1>1, <1>2, <1>3, <2>2, <2>3, Places
  <2>5. Restoring(s)'
    BY <1>3, <2>1, <2>2, <2>3, <2>4, Places DEF Restoring, OwnTable, OwnHeap
  <2>6. Filling(s)'
    BY <1>5, <2>1, <2>3 DEF Filling
  <2>7. QED
    BY <2>1, <2>3, <2>5, <2>6 DEF SeedProgress, Dropping, Counting
<1>13. CASE SeedInsert(s)
  <2>1. pc[s] = "seedInsert" /\ UNCHANGED <<catalog, store, held>>
    BY <1>13 DEF SeedInsert, Sto!Insert
  <2>2. \A i \in Place :
          /\ catalog[SeedSeq[i]] = s /\ store[SeedSeq[i]] = <<s, SeedSeq[i]>>
          /\ held[s][SeedSeq[i]] = <<s, SeedSeq[i]>>
    BY <1>5, <2>1 DEF Restoring, OwnTable, OwnHeap
  <2>3. /\ rows' = [rows EXCEPT ![<<s, SeedName(s)>>] = @ \union {SeedRow(s, nth[s])}]
        /\ IF nth[s] < SeedRows
           THEN nth'[s] = nth[s] + 1 /\ pos' = pos /\ pc' = pc
           ELSE /\ nth'[s] = 1
                /\ IF pos[s] < Len(SeedSeq)
                   THEN pos'[s] = pos[s] + 1 /\ pc' = pc
                   ELSE pos'[s] = 1 /\ pc'[s] = "list"
    BY <1>1, <1>2, <1>3, <1>13, <2>2 DEF SeedInsert, Sto!Insert, Advance
  <2>4. \A h \in Heap : rows[h] \subseteq rows'[h]
    BY <1>1, <2>3
  <2>5. \A k \in 1 .. nth[s] : SeedRow(s, k) \in rows'[<<s, SeedName(s)>>]
    <3>1. SeedRow(s, nth[s]) \in rows'[<<s, SeedName(s)>>]
      BY <1>1, <1>3, <1>4, <2>3
    <3>2. \A k \in 1 .. nth[s] - 1 : SeedRow(s, k) \in rows'[<<s, SeedName(s)>>]
      BY <1>3, <1>4, <1>5, <2>1, <2>4 DEF Filling
    <3>3. \A k \in 1 .. nth[s] : k = nth[s] \/ k \in 1 .. nth[s] - 1
      BY <1>3
    <3>4. QED
      BY <3>1, <3>2, <3>3
  <2>6. \A i \in Place : i < pos[s] => SeedHeap(s) \subseteq rows'[<<s, SeedSeq[i]>>]
    BY <1>4, <1>5, <2>1, <2>4 DEF Filling, OwnRows
  <2>7. ~(nth[s] < SeedRows) => SeedHeap(s) \subseteq rows'[<<s, SeedName(s)>>]
    BY <1>3, <2>5, SeedAssumption DEF SeedHeap
  <2>8. Restoring(s)'
    BY <1>3, <2>1, <2>2, <2>3, Places DEF Restoring, OwnTable, OwnHeap
  <2>9. CASE nth[s] < SeedRows
    <3>1. \A k \in 1 .. nth'[s] - 1 : SeedRow(s, k) \in rows'[<<s, SeedName(s)'>>]
      BY <1>3, <2>3, <2>5, <2>9 DEF SeedName
    <3>2. Filling(s)'
      BY <2>1, <2>3, <2>6, <2>9, <3>1 DEF Filling, OwnRows, SeedHeap, SeedRow
    <3>3. QED
      BY <2>1, <2>3, <2>8, <2>9, <3>2 DEF SeedProgress, Dropping, Counting
  <2>10. CASE ~(nth[s] < SeedRows)
    <3>1. \A i \in Place : i < pos[s] \/ i = pos[s] => SeedHeap(s) \subseteq rows'[<<s, SeedSeq[i]>>]
      BY <1>3, <2>6, <2>7, <2>10
    <3>2. nth'[s] = 1 /\ \A k \in 1 .. nth'[s] - 1 : FALSE
      BY <2>3, <2>10
    <3>3. \A i \in Place : OwnRows(s, i)' <=> SeedHeap(s) \subseteq rows'[<<s, SeedSeq[i]>>]
      BY DEF OwnRows, SeedHeap, SeedRow
    <3>4. CASE pos[s] < Len(SeedSeq)
      <4>1. \A i \in Place : i < pos'[s] => i < pos[s] \/ i = pos[s]
        BY <1>3, <2>3, <2>10, <3>4, Places
      <4>2. \A i \in Place : i < pos'[s] => OwnRows(s, i)'
        BY <3>1, <3>3, <4>1
      <4>3. Filling(s)'
        BY <2>1, <2>3, <2>10, <3>2, <3>4, <4>2 DEF Filling
      <4>4. QED
        BY <2>1, <2>3, <2>8, <2>10, <3>4, <4>3 DEF SeedProgress, Dropping, Counting
    <3>5. CASE ~(pos[s] < Len(SeedSeq))
      <4>1. pc'[s] = "list"
        BY <2>3, <2>10, <3>5
      <4>2. \A i \in Place : i < pos[s] \/ i = pos[s]
        BY <1>3, <3>5, Places
      <4>3. \A i \in Place : Whole(s, i)'
        BY <2>1, <2>2, <3>1, <3>3, <4>2 DEF Whole, OwnTable, OwnHeap
      <4>4. QED
        BY <2>8, <4>1, <4>3 DEF SeedProgress, Dropping, Filling, Counting
    <3>6. QED
      BY <3>4, <3>5
  <2>11. QED
    BY <2>9, <2>10
<1>14. CASE WalkStep(s)
  <2>1. UNCHANGED <<catalog, store, rows>>
    BY <1>14 DEF WalkStep, WalkList, WalkLookup, WalkGet, WalkCollect, WalkDone, shared
  <2>2. pc[s] \in {"list", "visit", "fetch", "collect"}
    BY <1>14 DEF WalkStep, WalkList, WalkLookup, WalkGet, WalkCollect, WalkDone
  <2>3. \A i \in Place : Whole(s, i) /\ Whole(s, i)'
    BY <1>5, <2>1, <2>2 DEF Counting, Whole, OwnTable, OwnHeap, OwnRows, SeedHeap, SeedRow
  <2>4. \A i \in Place :
          /\ catalog[SeedSeq[i]] = s /\ store[SeedSeq[i]] = <<s, SeedSeq[i]>>
          /\ SeedHeap(s) \subseteq rows[<<s, SeedSeq[i]>>]
    BY <2>3 DEF Whole, OwnTable, OwnHeap, OwnRows
  <2>5. Counting(s)' /\ pc'[s] \in {"visit", "fetch", "collect", "ok"}
    <3>1. \A i \in Place :
            pc[s] \in {"visit", "fetch", "collect"} =>
              \/ SeedSeq[i] \in todo[s]
              \/ Counted(s, seen[s], i)
              \/ pc[s] # "visit" /\ target[s] = SeedSeq[i]
      BY <1>5 DEF Counting
    <3> DEFINE Covered(i) == \/ SeedSeq[i] \in todo'[s]
                             \/ Counted(s, seen'[s], i)
                             \/ pc'[s] # "visit" /\ target'[s] = SeedSeq[i]
    <3>2. ASSUME pc'[s] \in {"visit", "fetch"}, \A i \in Place : Covered(i)
          PROVE  Counting(s)' /\ pc'[s] \in {"visit", "fetch", "collect", "ok"}
      BY <2>3, <3>2 DEF Counting, Counted, SeedHeap, SeedRow
    <3>3. CASE WalkList(s)
      <4>1. \A i \in Place : SeedSeq[i] \in todo'[s]
        BY <1>1, <1>2, <2>4, <3>3, Places DEF WalkList, Cat!List, Cat!Registered
      <4>2. pc'[s] = "visit"
        BY <1>1, <1>2, <3>3 DEF WalkList
      <4>3. QED
        BY <3>2, <4>1, <4>2
    <3>4. CASE WalkLookup(s)
      <4>1. PICK n \in todo[s] :
              /\ todo' = [todo EXCEPT ![s] = @ \ {n}]
              /\ target' = [target EXCEPT ![s] = n]
              /\ IF Cat!Registered(n) THEN Goto(s, "fetch") ELSE pc' = pc
        BY <3>4 DEF WalkLookup
      <4>2. pc[s] = "visit" /\ seen' = seen
        BY <3>4 DEF WalkLookup
      <4>3. /\ todo'[s] = todo[s] \ {n} /\ target'[s] = n
            /\ IF catalog[n] # NoTable THEN pc'[s] = "fetch" ELSE pc'[s] = "visit"
        BY <1>1, <1>2, <4>1, <4>2 DEF Cat!Registered
      <4>4. ASSUME NEW i \in Place
            PROVE  Covered(i)
        <5>1. CASE SeedSeq[i] = n
          BY <1>2, <2>4, <4>3, <5>1
        <5>2. CASE SeedSeq[i] # n
          BY <3>1, <4>2, <4>3, <5>2 DEF Counted
        <5>3. QED
          BY <5>1, <5>2
      <4>5. QED
        BY <3>2, <4>3, <4>4
    <3>5. CASE WalkGet(s)
      <4>1. pc[s] = "fetch" /\ todo' = todo /\ target' = target
        BY <3>5 DEF WalkGet
      <4>2. CASE store[target[s]] # NoHeap
        <5>1. /\ held' = [held EXCEPT ![s][target[s]] = store[target[s]]]
              /\ pc'[s] = "collect" /\ seen' = seen
          BY <1>1, <1>2, <3>5, <4>2 DEF WalkGet, Sto!Stored, Sto!GetTable
        <5>2. \A i \in Place : target[s] = SeedSeq[i] => held'[s][target[s]] = <<s, target[s]>>
          BY <1>1, <1>2, <2>4, <5>1
        <5>3. \A i \in Place : Covered(i)
          BY <3>1, <4>1, <5>1 DEF Counted
        <5>4. QED
          BY <2>3, <4>1, <5>1, <5>2, <5>3 DEF Counting, Counted, SeedHeap, SeedRow
      <4>3. CASE store[target[s]] = NoHeap
        <5>1. pc'[s] = "visit" /\ seen' = seen
          BY <1>1, <1>2, <3>5, <4>3 DEF WalkGet, Sto!Stored
        <5>2. \A i \in Place : target[s] # SeedSeq[i]
          BY <1>4, <2>4, <4>3
        <5>3. \A i \in Place : Covered(i)
          BY <3>1, <4>1, <5>1, <5>2 DEF Counted
        <5>4. QED
          BY <3>2, <5>1, <5>3
      <4>4. QED
        BY <4>2, <4>3
    <3>6. CASE WalkCollect(s)
      <4>1. /\ pc[s] = "collect" /\ pc'[s] = "visit" /\ todo' = todo /\ target' = target
            /\ seen' = [seen EXCEPT ![s][target[s]] = rows[held[s][target[s]]]]
        BY <1>1, <1>2, <3>6 DEF WalkCollect, Sto!Scan
      <4>2. ASSUME NEW i \in Place
            PROVE  Covered(i)
        <5>1. CASE SeedSeq[i] = target[s]
          <6>1. held[s][target[s]] = <<s, SeedSeq[i]>>
            BY <1>5, <4>1, <5>1 DEF Counting
          <6>2. seen'[s][SeedSeq[i]] = rows[<<s, SeedSeq[i]>>]
            BY <1>1, <1>2, <4>1, <5>1, <6>1, Places
          <6>3. rows[<<s, SeedSeq[i]>>] # NoStats
            BY <1>1, <1>4, RolesAssumption
          <6>4. QED
            BY <2>4, <6>2, <6>3 DEF Counted
        <5>2. CASE SeedSeq[i] # target[s]
          <6>1. seen'[s][SeedSeq[i]] = seen[s][SeedSeq[i]]
            BY <1>1, <1>2, <4>1, <5>2, Places
          <6>2. QED
            BY <3>1, <4>1, <5>2, <6>1 DEF Counted
        <5>3. QED
          BY <5>1, <5>2
      <4>3. QED
        BY <3>2, <4>1, <4>2
    <3>7. CASE WalkDone(s)
      <4>1. /\ pc[s] = "visit" /\ pc'[s] = "ok" /\ todo[s] = {} /\ statsMap' = seen[s]
        BY <1>1, <1>2, <3>7 DEF WalkDone
      <4>2. \A i \in Place : Counted(s, statsMap', i)
        BY <3>1, <4>1
      <4>3. QED
        BY <2>3, <4>1, <4>2 DEF Counting, Counted, SeedHeap, SeedRow
    <3>8. QED
      BY <1>14, <3>3, <3>4, <3>5, <3>6, <3>7 DEF WalkStep
  <2>6. QED
    BY <2>5 DEF SeedProgress, Dropping, Restoring, Filling
<1>15. QED
  BY <1>2, <1>6, <1>7, <1>8, <1>9, <1>10, <1>11, <1>12, <1>13, <1>14, OneRole
  DEF StepOf, Step, SeedStep

\* A seeder starts at the first table.
LEMMA SeedInit == Init => SeedInv
<1> SUFFICES ASSUME Init, NEW s \in Seeder
             PROVE  SeedProgress(s)
  BY DEF SeedInv
<1>1. s \in Request
  BY Roles
<1>2. pc[s] = "idle" /\ pos[s] = 1 /\ nth[s] = 1
  BY <1>1 DEF Init
<1>3. QED
  BY <1>2 DEF SeedProgress, Dropping, Restoring, Filling, Counting

\* Every step keeps SeedInv.
LEMMA SeedInvStep == TypeOK /\ NoNilHeap /\ SeedInv /\ [Next]_vars => SeedInv'
<1>1. ASSUME TypeOK, NoNilHeap, SeedInv, NEW r \in Request, StepOf(r)
      PROVE  SeedInv'
  <2> SUFFICES ASSUME OneSeeder, SeedNamesLeftAlone', NEW s \in Seeder
               PROVE  SeedProgress(s)'
    BY DEF SeedInv, OneSeeder
  <2>1. SeedProgress(s)
    BY <1>1, LeftAloneSoFar DEF SeedInv
  <2>2. CASE r = s
    BY <1>1, <2>1, <2>2, SeedOwnStep
  <2>3. CASE r # s
    BY <1>1, <2>1, <2>3, SeedOthersStep
  <2>4. QED
    BY <2>2, <2>3
<1>2. ASSUME SeedInv, UNCHANGED vars
      PROVE  SeedInv'
  <2> SUFFICES ASSUME OneSeeder, SeedNamesLeftAlone', NEW s \in Seeder
               PROVE  SeedProgress(s)'
    BY DEF SeedInv, OneSeeder
  <2>1. /\ UNCHANGED <<catalog, store, rows, statsMap>>
        /\ UNCHANGED <<pc, target, held, pos, nth, todo, seen>>
    BY <1>2 DEF vars, shared, local
  <2>2. SeedProgress(s)
    BY <1>2, <2>1 DEF SeedInv, SeedNamesLeftAlone
  <2>3. \A i \in Place : OwnRows(s, i)' = OwnRows(s, i) /\ Whole(s, i)' = Whole(s, i)
    BY <2>1 DEF Whole, OwnTable, OwnHeap, OwnRows
  <2>4. Dropping(s)'
    BY <2>1, <2>2 DEF SeedProgress, Dropping, SeedName
  <2>5. Restoring(s)'
    BY <2>1, <2>2 DEF SeedProgress, Restoring, OwnTable, OwnHeap
  <2>6. Filling(s)'
    BY <2>1, <2>2, <2>3 DEF SeedProgress, Filling, SeedName
  <2>7. Counting(s)'
    BY <2>1, <2>2, <2>3 DEF SeedProgress, Counting, Counted
  <2>8. QED
    BY <2>1, <2>2, <2>4, <2>5, <2>6, <2>7 DEF SeedProgress
<1>3. QED
  BY <1>1, <1>2 DEF Next, StepOf

\* Once a re-seed that has the seed tables to itself is answered, they are in
\* place with their rows and counted, and nothing it finds on the way stops it.
THEOREM SeedTablesRestored == Spec => []SeedRestores
<1>1. ASSUME SeedInv, OneSeeder, SeedNamesLeftAlone, NEW s \in Seeder
      PROVE  /\ pc[s] \notin {"failed", "panicked"}
             /\ pc[s] = "ok" =>
                  \A n \in SeedNames :
                    /\ catalog[n] = s /\ store[n] = <<s, n>>
                    /\ SeedHeap(s) \subseteq rows[store[n]]
                    /\ statsMap[n] # NoStats /\ SeedHeap(s) \subseteq statsMap[n]
  <2>1. SeedProgress(s)
    BY <1>1 DEF SeedInv
  <2>2. pc[s] = "ok" => \A i \in Place : Whole(s, i) /\ Counted(s, statsMap, i)
    BY <2>1 DEF SeedProgress, Counting
  <2>3. ASSUME pc[s] = "ok", NEW n \in SeedNames
        PROVE  /\ catalog[n] = s /\ store[n] = <<s, n>>
               /\ SeedHeap(s) \subseteq rows[store[n]]
               /\ statsMap[n] # NoStats /\ SeedHeap(s) \subseteq statsMap[n]
    <3>1. PICK i \in Place : n = SeedSeq[i]
      BY Places
    <3>2. QED
      BY <2>2, <2>3, <3>1 DEF Whole, OwnTable, OwnHeap, OwnRows, Counted
  <2>4. QED
    BY <2>1, <2>3 DEF SeedProgress
<1>2. SeedInv => SeedRestores
  BY <1>1 DEF SeedRestores
<1>3. QED
  BY <1>2, SeedInit, SeedInvStep, TypeCorrect, NoNilDereference, PTL DEF Spec

=============================================================================
