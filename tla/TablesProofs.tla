---------------------------- MODULE TablesProofs ----------------------------
(***************************************************************************)
(* Rows and columns stay aligned.  A definition changes the catalog first  *)
(* and the storage in a second step; INSERTs run meanwhile, and hold the   *)
(* table that had the name when they began.  TablesInv says what each      *)
(* statement has left to do.  It is kept as long as no table is redefined  *)
(* under a definition or an INSERT (Apart; DROP TABLE may meet DROP TABLE  *)
(* and INSERT), for every plan and every order of steps.  Most steps       *)
(* change no registry (Passive); the others change it at the names of one  *)
(* definition only (Local).                                                *)
(***************************************************************************)
EXTENDS StatementsProofs, FiniteSetTheorems

-----------------------------------------------------------------------------
(* Slices.                                                                   *)

LEMMA ListIs ==
  ASSUME NEW f, IsList(f)
  PROVE  /\ Len(f) \in Nat /\ DOMAIN f = 1 .. Len(f) /\ f \in Seq(ToSet(f))
         /\ f = [i \in 1 .. Len(f) |-> f[i]]
<1>1. f \in Seq(ToSet(f))
  BY DEF IsList
<1>2. QED
  BY <1>1

\* A function on 1 .. n is a slice of length n.
LEMMA ListMade ==
  ASSUME NEW n \in Nat, NEW f, f = [i \in 1 .. n |-> f[i]]
  PROVE  IsList(f) /\ Len(f) = n
<1>1. DOMAIN f = 1 .. n
  OBVIOUS
<1>2. \A i \in 1 .. n : f[i] \in ToSet(f)
  BY <1>1 DEF ToSet
<1>3. f \in Seq(ToSet(f)) /\ Len(f) = n
  BY <1>2
<1>4. QED
  BY <1>3 DEF IsList

LEMMA ListMapped ==
  ASSUME NEW f, IsList(f), NEW g, g = [i \in DOMAIN f |-> g[i]]
  PROVE  IsList(g) /\ Len(g) = Len(f)
<1>1. g = [i \in 1 .. Len(f) |-> g[i]] /\ Len(f) \in Nat
  BY ListIs
<1>2. QED
  BY <1>1, ListMade

LEMMA ListIn ==
  ASSUME NEW S, NEW f \in Seq(S)
  PROVE  IsList(f)
<1>1. Len(f) \in Nat /\ f = [i \in 1 .. Len(f) |-> f[i]]
  OBVIOUS
<1>2. QED
  BY <1>1, ListMade

LEMMA ListAppend ==
  ASSUME NEW f, IsList(f), NEW x
  PROVE  /\ IsList(Append(f, x)) /\ Len(Append(f, x)) = Len(f) + 1
         /\ \A i \in DOMAIN Append(f, x) : \/ i \in DOMAIN f /\ Append(f, x)[i] = f[i]
                                           \/ i = Len(f) + 1 /\ Append(f, x)[i] = x
<1> DEFINE S == ToSet(f) \union {x}
<1>1. f \in Seq(S) /\ x \in S
  BY ListIs
<1> HIDE DEF S
<1>2. Append(f, x) \in Seq(S) /\ Len(Append(f, x)) = Len(f) + 1 /\ DOMAIN Append(f, x) = 1 .. Len(f) + 1
  BY <1>1
<1>3. \A i \in 1 .. Len(f) + 1 : \/ i \in DOMAIN f /\ Append(f, x)[i] = f[i]
                                 \/ i = Len(f) + 1 /\ Append(f, x)[i] = x
  BY <1>1
<1>4. QED
  BY <1>2, <1>3, ListIn

LEMMA ListConcat ==
  ASSUME NEW f, IsList(f), NEW g, IsList(g)
  PROVE  IsList(f \o g)
<1> DEFINE S == ToSet(f) \union ToSet(g)
<1>1. f \in Seq(S) /\ g \in Seq(S)
  BY ListIs
<1>2. f \o g \in Seq(S)
  BY <1>1
<1>3. QED
  BY <1>2, ListIn

LEMMA ListWithout ==
  ASSUME NEW f, IsList(f), NEW i \in 1 .. Len(f)
  PROVE  IsList(DropAt(f, i)) /\ Len(DropAt(f, i)) = Len(f) - 1
<1> DEFINE S == ToSet(f)
<1>1. f \in Seq(S) /\ Len(f) \in Nat
  BY ListIs
<1> HIDE DEF S
<1>2. SubSeq(f, 1, i - 1) \in Seq(S) /\ Len(SubSeq(f, 1, i - 1)) = i - 1
  BY <1>1
<1>3. SubSeq(f, i + 1, Len(f)) \in Seq(S) /\ Len(SubSeq(f, i + 1, Len(f))) = Len(f) - i
  BY <1>1
<1>4. DropAt(f, i) \in Seq(S) /\ Len(DropAt(f, i)) = (i - 1) + (Len(f) - i)
  <2>1. ASSUME NEW a \in Seq(S), NEW b \in Seq(S)
        PROVE  a \o b \in Seq(S) /\ Len(a \o b) = Len(a) + Len(b)
    OBVIOUS
  <2>2. QED
    BY <1>2, <1>3, <2>1 DEF DropAt
<1>5. (i - 1) + (Len(f) - i) = Len(f) - 1
  BY <1>1
<1>6. QED
  BY <1>4, <1>5, ListIn

LEMMA FirstIn ==
  ASSUME NEW S, S \subseteq Nat, S # {}
  PROVE  First(S) \in S /\ \A i \in S : First(S) <= i
<1>1. PICK m \in S : \A y \in S : ~(<<y, m>> \in OpToRel(<, Nat))
  BY NatLessThanWellFounded, WFMin
<1>2. \A y \in S : ~(y < m)
  BY <1>1 DEF OpToRel
<1>3. \A y \in S : m <= y
  BY <1>2
<1>4. QED
  BY <1>3 DEF First

\* The places that are kept are found one after the other: of those whose rank is k
\* or more, the first has rank k.
LEMMA Ranked ==
  ASSUME NEW n \in Nat, NEW S, S \subseteq 1 .. n, NEW k \in 1 .. Cardinality(S)
  PROVE  \E i \in S : Rank(S, i) = k
<1> DEFINE Upto(i) == {j \in S : j <= i}
           High == {i \in 0 .. n : Cardinality(Upto(i)) >= k}
<1>1. IsFiniteSet(S) /\ Cardinality(S) \in Nat /\ k \in Nat \ {0}
  <2>1. IsFiniteSet(1 .. n)
    BY FS_Interval
  <2>2. IsFiniteSet(S) /\ Cardinality(S) \in Nat
    BY <2>1, FS_Subset, FS_CardinalityType
  <2>3. QED
    BY <2>2
<1>2. \A i \in 0 .. n : IsFiniteSet(Upto(i)) /\ Cardinality(Upto(i)) \in Nat
  <2>1. \A i \in 0 .. n : Upto(i) \subseteq S
    OBVIOUS
  <2>2. QED
    BY <1>1, <2>1, FS_Subset, FS_CardinalityType
<1>3. n \in High
  <2>1. \A j \in S : j <= n
    OBVIOUS
  <2>2. Upto(n) = S
    BY <2>1
  <2>3. Cardinality(S) >= k
    BY <1>1
  <2>4. n \in 0 .. n
    OBVIOUS
  <2> HIDE DEF Upto
  <2>5. QED
    BY <2>2, <2>3, <2>4
<1>4. 0 \notin High
  <2>1. \A j \in S : ~(j <= 0)
    OBVIOUS
  <2>2. Upto(0) = {}
    BY <2>1
  <2>3. Cardinality(Upto(0)) = 0
    BY <2>2, FS_EmptySet
  <2> HIDE DEF Upto
  <2>4. QED
    BY <1>1, <2>3
<1> DEFINE m == First(High)
<1>5. m \in High /\ \A i \in High : m <= i
  <2>1. High \subseteq Nat /\ High # {}
    <3>1. High \subseteq 0 .. n /\ 0 .. n \subseteq Nat
      OBVIOUS
    <3> HIDE DEF High
    <3>2. QED
      BY <1>3, <3>1
  <2> HIDE DEF High
  <2>2. QED
    BY <2>1, FirstIn
<1> HIDE DEF m
<1>6. m \in 1 .. n /\ m - 1 \in 0 .. n /\ m - 1 \notin High
  <2>1. m \in 0 .. n /\ m # 0
    BY <1>4, <1>5
  <2>2. m - 1 \in 0 .. n /\ m \in 1 .. n
    BY <2>1
  <2>3. ~(m <= m - 1)
    BY <2>2
  <2>4. QED
    BY <1>5, <2>2, <2>3
<1>7. Cardinality(Upto(m - 1)) < k /\ Cardinality(Upto(m)) >= k
  <2>1. Cardinality(Upto(m - 1)) \in Nat /\ ~(Cardinality(Upto(m - 1)) >= k)
    BY <1>2, <1>6
  <2>2. QED
    BY <1>1, <1>5, <2>1
<1>8. \A j \in S : (j <= m - 1 <=> j <= m /\ j # m)
  BY <1>6
<1>9. m \in S
  <2>1. ASSUME m \notin S PROVE Upto(m) = Upto(m - 1)
    <3>1. \A j \in S : j <= m - 1 <=> j <= m
      BY <1>8, <2>1
    <3>2. QED
      BY <3>1, Zenon
  <2> HIDE DEF Upto
  <2>2. Cardinality(Upto(m - 1)) \in Nat /\ Cardinality(Upto(m)) \in Nat
    BY <1>2, <1>6
  <2>3. QED
    BY <1>1, <1>7, <2>1, <2>2
<1>10. Cardinality(Upto(m)) = Cardinality(Upto(m - 1)) + 1
  <2>1. Upto(m) = Upto(m - 1) \union {m} /\ m \notin Upto(m - 1)
    <3>1. (\A j \in S : j <= m <=> (j <= m - 1 \/ j = m)) /\ ~(m <= m - 1)
      BY <1>6, <1>8
    <3>2. QED
      BY <1>9, <3>1, Zenon
  <2>2. IsFiniteSet(Upto(m - 1))
    BY <1>2, <1>6
  <2> HIDE DEF Upto
  <2>3. QED
    BY <2>1, <2>2, FS_AddElement
<1>11. Cardinality(Upto(m)) = k
  <2> HIDE DEF Upto
  <2>1. Cardinality(Upto(m - 1)) \in Nat
    BY <1>2, <1>6
  <2>2. QED
    BY <1>1, <1>7, <1>10, <2>1
<1>12. QED
  BY <1>9, <1>11 DEF Rank

\* The rows that are picked are rows of the sequence.
LEMMA Picked ==
  ASSUME NEW f, IsList(f), NEW places
  PROVE  /\ IsList(Pick(f, places))
         /\ \A k \in DOMAIN Pick(f, places) : \E i \in DOMAIN f : Pick(f, places)[k] = f[i]
<1> DEFINE at == DOMAIN f \intersect places
           kept(k) == CHOOSE i \in at : Rank(at, i) = k
<1>1. at \subseteq 1 .. Len(f) /\ Len(f) \in Nat
  BY ListIs
<1>2. Cardinality(at) \in Nat
  <2>1. IsFiniteSet(1 .. Len(f))
    BY <1>1, FS_Interval
  <2>2. QED
    BY <1>1, <2>1, FS_Subset, FS_CardinalityType
<1>3. Pick(f, places) = [k \in 1 .. Cardinality(at) |-> f[kept(k)]]
  BY DEF Pick
<1>4. \A k \in 1 .. Cardinality(at) : kept(k) \in DOMAIN f
  <2> SUFFICES ASSUME NEW k \in 1 .. Cardinality(at) PROVE kept(k) \in at
    OBVIOUS
  <2> HIDE DEF at
  <2>1. \E i \in at : Rank(at, i) = k
    BY <1>1, Ranked
  <2>2. QED
    BY <2>1
<1> HIDE DEF at, kept
<1>5. IsList(Pick(f, places))
  <2>1. Pick(f, places) = [k \in 1 .. Cardinality(at) |-> Pick(f, places)[k]]
    BY <1>3
  <2>2. QED
    BY <1>2, <2>1, ListMade
<1>6. QED
  BY <1>3, <1>4, <1>5

-----------------------------------------------------------------------------
(* The inductive invariant.  A name that no statement is in the middle of     *)
(* defining is coherent: it is in both registries or in neither, and its rows *)
(* are as wide as its table.  What a definition has left to do between the    *)
(* catalog and the storage, and what an INSERT holds, tell the rest.          *)

Changing == {"insert"} \union Definitions

\* The step of the frame of a node; "out" when it has none.
StepIn(frames, n) ==
  LET at == {i \in 1 .. Len(frames) : frames[i].node = n}
  IN  IF at = {} THEN "out" ELSE frames[CHOOSE i \in at : TRUE].step

At(s, n) == StepIn(stack[s], n)
The(s, n) == script[s].nodes[n]

\* A node of a statement at work.
Works(s, n, kinds) == AtWork(s) /\ n \in DOMAIN script[s].nodes /\ The(s, n).kind \in kinds

Midway(s, n) == Works(s, n, Definitions) /\ At(s, n) \in {"create", "storage"}
Underhand(t) == \E s \in Stmt : \E n \in DOMAIN script[s].nodes : Midway(s, n) /\ t \in NamesOf(The(s, n))

Wide(rows, width) == \A i \in DOMAIN rows : Len(rows[i]) = width
Coherent(t) ==
  /\ t \in DOMAIN catalog <=> t \in DOMAIN storage
  /\ t \in DOMAIN catalog => Wide(heap[storage[t]], Len(columns[catalog[t]]))

\* What lies between the two steps of a definition.
HalfDone(node, op, s) ==
  LET t == node.table
      width == Len(columns[catalog[t]])
  IN  CASE node.kind = "create" -> t \in DOMAIN catalog /\ catalog[t] = s /\ t \notin DOMAIN storage
        [] node.kind = "drop" -> t \notin DOMAIN catalog
        [] node.kind = "add column" ->
             t \in DOMAIN catalog /\ t \in DOMAIN storage /\ Wide(heap[storage[t]], width - 1)
        [] node.kind = "drop column" ->
             /\ t \in DOMAIN catalog /\ t \in DOMAIN storage /\ Wide(heap[storage[t]], width + 1)
             /\ op.count \in 1 .. width + 1
        [] node.kind = "rename" ->
             /\ t \notin DOMAIN catalog /\ t \in DOMAIN storage
             /\ node.new \in DOMAIN catalog /\ node.new \notin DOMAIN storage
             /\ Wide(heap[storage[t]], Len(columns[catalog[node.new]]))
        [] node.kind = "rename column" -> FALSE   \* it has nothing to do in the storage

\* A CREATE TABLE that has made nothing yet, and one whose table has its catalog
\* entry, with the columns it counted, and its heap.
Fresh(s) == s \notin DOMAIN columns /\ s \notin DOMAIN heap
Untried(op, step) == op.state = "new" /\ step \notin {"create", "fetch", "pull"}
Enlisted(node, op, s) ==
  /\ op.table = s /\ op.count = Len(columns[s])
  /\ node.table \in DOMAIN catalog /\ catalog[node.table] = s
Backed(node, s) == node.table \in DOMAIN storage /\ storage[node.table] = s

\* An INSERT holds the table that has its name, if one has, and no other; its rows fit.
Holds(node, e) ==
  /\ e \in DOMAIN columns
  /\ node.table \in DOMAIN catalog => catalog[node.table] = e
  /\ \A t \in DOMAIN catalog : catalog[t] = e => t = node.table
  /\ node.table \in DOMAIN storage => Wide(heap[storage[node.table]], Len(columns[e]))
HoldsHeap(node, h) ==
  h \in DOMAIN heap /\ \A t \in DOMAIN storage : storage[t] = h => t = node.table

Registries ==
  /\ \A t \in DOMAIN catalog : catalog[t] \in DOMAIN columns
  /\ \A t \in DOMAIN storage : storage[t] \in DOMAIN heap
  /\ \A t, u \in DOMAIN catalog : catalog[t] = catalog[u] => t = u
  /\ \A t, u \in DOMAIN storage : storage[t] = storage[u] => t = u

Slices ==
  /\ \A e \in DOMAIN columns : IsList(columns[e])
  /\ \A h \in DOMAIN heap : IsList(heap[h]) /\ \A i \in DOMAIN heap[h] : IsList(heap[h][i])
  /\ \A s \in Stmt : \A n \in DOMAIN ops[s] :
       DOMAIN ops[s][n] = DOMAIN Blank /\ IsList(ops[s][n].schema)
  /\ \A s \in Stmt : \A n \in DOMAIN script[s].nodes :
       Works(s, n, {"scan"}) => ops[s][n].table \in DOMAIN columns

NamesInv == \A t \in DOMAIN catalog \union DOMAIN storage : Underhand(t) \/ Coherent(t)

DefinesInv(s) ==
  \A n \in DOMAIN script[s].nodes : Midway(s, n) => HalfDone(The(s, n), ops[s][n], s)

Creating(s, n) ==
  /\ ~Ended(s) /\ Untried(ops[s][n], At(s, n)) => Fresh(s)
  /\ AtWork(s) /\ At(s, n) \in {"create", "fetch", "pull"} => Enlisted(The(s, n), ops[s][n], s)
  /\ AtWork(s) /\ At(s, n) = "create" => s \notin DOMAIN heap
  /\ AtWork(s) /\ At(s, n) \in {"fetch", "pull"} => Backed(The(s, n), s)
  /\ AtWork(s) /\ At(s, n) = "pull" => ops[s][n].heap = s
CreatesInv(s) ==
  \A n \in DOMAIN script[s].nodes : The(s, n).kind = "create" => Creating(s, n)

InsertsInv(s) ==
  \A n \in DOMAIN script[s].nodes : Works(s, n, {"insert"}) =>
    /\ Holds(The(s, n), ops[s][n].table)
    /\ At(s, n) \in {"values", "pull"} => HoldsHeap(The(s, n), ops[s][n].heap)

\* INSERTs into one table at once hold the same one.
SameHeld ==
  \A s, r \in Stmt : \A n \in DOMAIN script[s].nodes, m \in DOMAIN script[r].nodes :
    Works(s, n, {"insert"}) /\ Works(r, m, {"insert"}) /\ The(s, n).table = The(r, m).table =>
      ops[s][n].table = ops[r][m].table

TablesInv ==
  /\ Registries /\ Slices /\ NamesInv /\ SameHeld
  /\ \A s \in Stmt : DefinesInv(s) /\ CreatesInv(s) /\ InsertsInv(s)

-----------------------------------------------------------------------------
(* Frames: a node has one at most, and it is where its step is.              *)

OneEach(frames) == \A i, j \in 1 .. Len(frames) : frames[i].node = frames[j].node => i = j

\* No operator has two methods running at once.
LEMMA FramesOneEach ==
  ASSUME NEW nodes, NEW frames, NEW r, NEW op, Runs(nodes, frames, r, op)
  PROVE  frames \in Seq(CallFrame) /\ OneEach(frames)
<1>1. frames \in Seq(CallFrame) /\ Linked(nodes, frames) /\ Len(frames) \in Nat
  BY DEF Runs
<1>2. \A i, j \in 1 .. Len(frames) : i < j => frames[i].node > frames[j].node
  BY <1>1 DEF Linked
<1>3. \A i \in 1 .. Len(frames) : frames[i].node \in Nat
  BY <1>1, FramesTyped
<1>4. ASSUME NEW i \in 1 .. Len(frames), NEW j \in 1 .. Len(frames), frames[i].node = frames[j].node
      PROVE  i = j
  <2>1. ~(i < j) /\ ~(j < i)
    BY <1>2, <1>3, <1>4
  <2>2. QED
    BY <1>1, <2>1
<1>5. QED
  BY <1>1, <1>4 DEF OneEach

LEMMA StepIs ==
  ASSUME NEW frames, NEW i \in 1 .. Len(frames), OneEach(frames)
  PROVE  StepIn(frames, frames[i].node) = frames[i].step
<1> DEFINE at == {j \in 1 .. Len(frames) : frames[j].node = frames[i].node}
<1>1. at = {i}
  BY DEF OneEach
<1>2. (CHOOSE j \in at : TRUE) = i
  BY <1>1
<1>3. QED
  BY <1>1, <1>2 DEF StepIn

LEMMA StepOut ==
  ASSUME NEW frames, NEW n, \A i \in 1 .. Len(frames) : frames[i].node # n
  PROVE  StepIn(frames, n) = "out"
  BY DEF StepIn

LEMMA StepSame ==
  ASSUME NEW f, NEW g, NEW n, OneEach(f), OneEach(g),
         \A i \in 1 .. Len(f) : f[i].node = n => \E j \in 1 .. Len(g) : g[j] = f[i],
         \A j \in 1 .. Len(g) : g[j].node = n => \E i \in 1 .. Len(f) : g[j] = f[i]
  PROVE  StepIn(f, n) = StepIn(g, n)
<1>1. CASE \E i \in 1 .. Len(f) : f[i].node = n
  <2>1. PICK i \in 1 .. Len(f) : f[i].node = n
    BY <1>1
  <2>2. PICK j \in 1 .. Len(g) : g[j] = f[i]
    BY <2>1
  <2>3. StepIn(f, n) = f[i].step /\ StepIn(g, n) = g[j].step
    BY <2>1, <2>2, StepIs
  <2>4. QED
    BY <2>2, <2>3
<1>2. CASE \A i \in 1 .. Len(f) : f[i].node # n
  <2>1. \A j \in 1 .. Len(g) : g[j].node # n
    BY <1>2
  <2>2. QED
    BY <1>2, <2>1, StepOut
<1>3. QED
  BY <1>1, <1>2

\* The steps after a call, after a move to another step, and after a return.
LEMMA StepPushed ==
  ASSUME NEW frames \in Seq(CallFrame), OneEach(frames), NEW m, NEW method,
         OneEach(Called(frames, m, method)), NEW n
  PROVE  StepIn(Called(frames, m, method), n) = IF n = m THEN "enter" ELSE StepIn(frames, n)
<1> DEFINE f == [node |-> m, method |-> method, step |-> "enter", kid |-> 1]
           g == <<f>> \o frames
<1>1. g = Called(frames, m, method)
  BY DEF Called
<1>2. /\ Len(frames) \in Nat /\ Len(g) = Len(frames) + 1 /\ g[1] = f /\ 1 \in 1 .. Len(g)
      /\ \A i \in 1 .. Len(frames) : i + 1 \in 1 .. Len(g) /\ g[i + 1] = frames[i]
      /\ \A j \in 1 .. Len(g) : j = 1 \/ (j - 1 \in 1 .. Len(frames) /\ g[j] = frames[j - 1])
  OBVIOUS
<1>3. f.node = m /\ f.step = "enter"
  OBVIOUS
<1> HIDE DEF f, g
<1>4. CASE n = m
  <2>1. StepIn(g, g[1].node) = g[1].step
    BY <1>1, <1>2, StepIs
  <2>2. QED
    BY <1>1, <1>2, <1>3, <1>4, <2>1
<1>5. CASE n # m
  <2>1. \A i \in 1 .. Len(frames) : \E j \in 1 .. Len(g) : g[j] = frames[i]
    BY <1>2
  <2>2. \A j \in 1 .. Len(g) : g[j].node = n => \E i \in 1 .. Len(frames) : g[j] = frames[i]
    BY <1>2, <1>3, <1>5
  <2>3. StepIn(frames, n) = StepIn(g, n)
    BY <1>1, <2>1, <2>2, StepSame
  <2>4. QED
    BY <1>1, <1>5, <2>3
<1>6. QED
  BY <1>4, <1>5

LEMMA StepMoved ==
  ASSUME NEW frames \in Seq(CallFrame), frames # <<>>, OneEach(frames), NEW f, f.node = frames[1].node, NEW n
  PROVE  StepIn([frames EXCEPT ![1] = f], n) = IF n = frames[1].node THEN f.step ELSE StepIn(frames, n)
<1> DEFINE g == [frames EXCEPT ![1] = f]
<1>1. /\ Len(frames) \in Nat \ {0} /\ Len(g) = Len(frames) /\ g[1] = f /\ 1 \in 1 .. Len(g)
      /\ \A i \in 1 .. Len(frames) : i # 1 => g[i] = frames[i]
  OBVIOUS
<1> HIDE DEF g
<1>2. \A i \in 1 .. Len(frames) : g[i].node = frames[i].node
  BY <1>1
<1>3. OneEach(g)
  BY <1>1, <1>2 DEF OneEach
<1>4. CASE n = frames[1].node
  <2>1. StepIn(g, g[1].node) = g[1].step
    BY <1>1, <1>3, StepIs
  <2>2. QED
    BY <1>1, <1>4, <2>1 DEF g
<1>5. CASE n # frames[1].node
  <2>1. \A i \in 1 .. Len(frames) : frames[i].node = n => i # 1 /\ g[i] = frames[i]
    BY <1>1, <1>5
  <2>2. \A i \in 1 .. Len(g) : g[i].node = n => g[i] = frames[i]
    BY <1>1, <1>2, <2>1
  <2>3. StepIn(frames, n) = StepIn(g, n)
    BY <1>1, <1>3, <2>1, <2>2, StepSame
  <2>4. QED
    BY <1>5, <2>3 DEF g
<1>6. QED
  BY <1>4, <1>5

LEMMA StepPopped ==
  ASSUME NEW frames \in Seq(CallFrame), frames # <<>>, OneEach(frames), NEW n
  PROVE  StepIn(Tail(frames), n) = IF n = frames[1].node THEN "out" ELSE StepIn(frames, n)
<1> DEFINE g == Tail(frames)
<1>1. /\ Len(frames) \in Nat \ {0} /\ Len(g) = Len(frames) - 1
      /\ \A i \in 1 .. Len(g) : i + 1 \in 1 .. Len(frames) /\ g[i] = frames[i + 1]
      /\ \A i \in 1 .. Len(frames) : i = 1 \/ (i - 1 \in 1 .. Len(g) /\ g[i - 1] = frames[i])
  OBVIOUS
<1> HIDE DEF g
<1>2. OneEach(g)
  <2>1. ASSUME NEW i \in 1 .. Len(g), NEW j \in 1 .. Len(g), g[i].node = g[j].node PROVE i = j
    <3>1. frames[i + 1].node = frames[j + 1].node /\ i + 1 \in 1 .. Len(frames) /\ j + 1 \in 1 .. Len(frames)
      BY <1>1, <2>1
    <3>2. i + 1 = j + 1
      BY <3>1 DEF OneEach
    <3>3. QED
      BY <1>1, <3>2
  <2>2. QED
    BY <2>1 DEF OneEach
<1>3. CASE n = frames[1].node
  <2>1. \A i \in 1 .. Len(g) : g[i].node # n
    <3> SUFFICES ASSUME NEW i \in 1 .. Len(g), g[i].node = n PROVE FALSE
      OBVIOUS
    <3>1. frames[i + 1].node = frames[1].node /\ i + 1 \in 1 .. Len(frames) /\ 1 \in 1 .. Len(frames)
      BY <1>1, <1>3
    <3>2. i + 1 = 1
      BY <3>1 DEF OneEach
    <3>3. QED
      BY <1>1, <3>2
  <2>2. QED
    BY <1>3, <2>1, StepOut DEF g
<1>4. CASE n # frames[1].node
  <2>1. \A i \in 1 .. Len(frames) : frames[i].node = n => \E j \in 1 .. Len(g) : g[j] = frames[i]
    BY <1>1, <1>4
  <2>2. \A j \in 1 .. Len(g) : g[j].node = n => \E i \in 1 .. Len(frames) : g[j] = frames[i]
    BY <1>1
  <2>3. StepIn(frames, n) = StepIn(g, n)
    BY <1>2, <2>1, <2>2, StepSame
  <2>4. QED
    BY <1>4, <2>3 DEF g
<1>5. QED
  BY <1>3, <1>4

-----------------------------------------------------------------------------
(* Statements at work, and the one node of each that writes.                 *)

\* A statement at work has its operators and frames in order; the others have no frame.
LEMMA Working ==
  ASSUME LifeInv, NEW s \in Stmt
  PROVE  /\ AtWork(s) <=> pc[s] \in DOMAIN Calls
         /\ AtWork(s) => /\ Runs(Plan(s), stack[s], reply[s], ops[s])
                         /\ IsPlan(Plan(s)) /\ DOMAIN ops[s] = DOMAIN Plan(s)
                         /\ stack[s] \in Seq(CallFrame) /\ OneEach(stack[s])
         /\ ~AtWork(s) => stack[s] = <<>>
         /\ pc[s] = "idle" => ~AtWork(s) /\ ~Ended(s) /\ IsPlan(Plan(s)) /\ DOMAIN ops[s] = DOMAIN Plan(s)
<1>1. Lives(Plan(s), pc[s], stack[s], reply[s], ops[s])
  BY DEF LifeInv, Plan
<1>2. AtWork(s) <=> pc[s] \in DOMAIN Calls
  BY <1>1, CallsMade DEF AtWork, Ended, Lives, Left
<1>3. AtWork(s) => Runs(Plan(s), stack[s], reply[s], ops[s])
  BY <1>1, <1>2 DEF Lives
<1>4. ~AtWork(s) => stack[s] = <<>>
  BY <1>1, <1>2 DEF Lives
<1>5. Runs(Plan(s), stack[s], reply[s], ops[s]) => IsPlan(Plan(s)) /\ DOMAIN ops[s] = DOMAIN Plan(s)
  BY DEF Runs
<1>6. Runs(Plan(s), stack[s], reply[s], ops[s]) => stack[s] \in Seq(CallFrame) /\ OneEach(stack[s])
  BY FramesOneEach
<1>7. pc[s] = "idle" => Runs(Plan(s), stack[s], reply[s], ops[s]) /\ ~AtWork(s) /\ ~Ended(s)
  BY <1>1 DEF Lives, AtWork, Ended
<1>8. QED
  BY <1>2, <1>3, <1>4, <1>5, <1>6, <1>7

LEMMA OneWriter ==
  ASSUME NEW nodes, IsPlan(nodes), NEW n \in DOMAIN nodes, NEW m \in DOMAIN nodes,
         nodes[n].kind \in Writers, nodes[m].kind \in Writers
  PROVE  n = m
<1>1. {nodes[n].kind, nodes[m].kind} \subseteq Writers
  OBVIOUS
<1>2. \A k, p \in DOMAIN nodes : {nodes[k].kind, nodes[p].kind} \subseteq Writers => k = p
  BY DEF IsPlan
<1>3. QED
  BY <1>1, <1>2

LEMMA StepNone ==
  ASSUME NEW frames, Len(frames) = 0, NEW n
  PROVE  StepIn(frames, n) = "out"
<1>1. ASSUME NEW i \in 1 .. Len(frames) PROVE FALSE
  OBVIOUS
<1>2. \A i \in 1 .. Len(frames) : frames[i].node # n
  BY <1>1
<1>3. QED
  BY <1>2, StepOut

LEMMA TopStep ==
  ASSUME LifeInv, NEW s \in Stmt, stack[s] # <<>>
  PROVE  /\ AtWork(s) /\ Top(s).node \in DOMAIN Plan(s) /\ At(s, Top(s).node) = Top(s).step
         /\ Node(s) = The(s, Top(s).node) /\ Op(s) = ops[s][Top(s).node]
         /\ stack[s] \in Seq(CallFrame) /\ OneEach(stack[s]) /\ Top(s) = stack[s][1]
<1>1. /\ Runs(Plan(s), stack[s], reply[s], ops[s]) /\ Top(s) = stack[s][1] /\ Len(stack[s]) \in Nat \ {0}
      /\ pc[s] \in DOMAIN Calls /\ Top(s).node \in DOMAIN Plan(s)
  BY TopFrame
<1>2. AtWork(s) /\ OneEach(stack[s]) /\ stack[s] \in Seq(CallFrame)
  BY <1>1, Working
<1>3. 1 \in 1 .. Len(stack[s])
  BY <1>1
<1>4. StepIn(stack[s], stack[s][1].node) = stack[s][1].step
  BY <1>2, <1>3, StepIs
<1>5. QED
  BY <1>1, <1>2, <1>4 DEF At, Node, The, Op

\* A frame that waits for no child is the top one.
LEMMA BusyTop ==
  ASSUME LifeInv, NEW s \in Stmt, NEW n, At(s, n) \notin {"out"} \union DOMAIN MethodAt
  PROVE  stack[s] # <<>> /\ Top(s).node = n
<1>1. \E i \in 1 .. Len(stack[s]) : stack[s][i].node = n
  BY StepOut DEF At
<1>2. PICK i \in 1 .. Len(stack[s]) : stack[s][i].node = n
  BY <1>1
<1>3. stack[s] # <<>>
  BY <1>2
<1>4. /\ Runs(Plan(s), stack[s], reply[s], ops[s]) /\ Top(s) = stack[s][1] /\ Len(stack[s]) \in Nat \ {0}
      /\ OneEach(stack[s])
  BY <1>3, TopFrame, TopStep
<1>5. At(s, n) = stack[s][i].step
  BY <1>2, <1>4, StepIs DEF At
<1>6. i = 1
  <2> SUFFICES ASSUME i # 1 PROVE FALSE
    OBVIOUS
  <2>1. i - 1 \in 1 .. Len(stack[s]) - 1 /\ (i - 1) + 1 = i
    BY <1>2, <1>4
  <2>2. Linked(Plan(s), stack[s])
    BY <1>4 DEF Runs
  <2>3. stack[s][i].step \in DOMAIN MethodAt
    BY <2>1, <2>2 DEF Linked
  <2>4. QED
    BY <1>5, <2>3
<1>7. QED
  BY <1>2, <1>3, <1>4, <1>6

-----------------------------------------------------------------------------
(* Steps that leave both registries alone and reach no step between them.    *)

Busy == {"create", "fetch", "storage", "values", "pull"}

\* What a node that writes keeps in such a step.
Held(s, n) ==
  /\ Midway(s, n)' <=> Midway(s, n)
  /\ Midway(s, n) => ops'[s][n].count = ops[s][n].count
  /\ ~Ended(s)' /\ Untried(ops[s][n], At(s, n))' => Untried(ops[s][n], At(s, n))
  /\ The(s, n).kind = "create" /\ At(s, n)' \in {"create", "fetch", "pull"} =>
       /\ At(s, n)' = At(s, n) /\ ops'[s][n].table = ops[s][n].table
       /\ ops'[s][n].count = ops[s][n].count /\ ops'[s][n].heap = ops[s][n].heap
  /\ The(s, n).kind = "insert" =>
       /\ ops'[s][n].table = ops[s][n].table
       /\ At(s, n)' \in {"values", "pull"} =>
            \/ At(s, n) \in {"values", "pull"} /\ ops'[s][n].heap = ops[s][n].heap
            \/ HoldsHeap(The(s, n), ops'[s][n].heap)

\* The statement adds to the table of its INSERT or CREATE TABLE rows as wide as it.
Adds(s, u) ==
  \E n \in DOMAIN script[s].nodes :
    /\ Works(s, n, {"insert"}) \/ (Works(s, n, {"create"}) /\ At(s, n) = "pull")
    /\ The(s, n).table = u
    /\ Wide(heap[storage[u]], Len(columns[ops[s][n].table])) => Wide(heap'[storage[u]], Len(columns[ops[s][n].table]))

Passive(s) ==
  /\ AtWork(s)
  /\ UNCHANGED <<catalog, columns, storage>> /\ DOMAIN heap' = DOMAIN heap
  /\ Slices'
  /\ \A u \in DOMAIN storage : Adds(s, u) \/ \A w : Wide(heap[storage[u]], w) => Wide(heap'[storage[u]], w)
  /\ \A n \in DOMAIN script[s].nodes : The(s, n).kind \in Changing => Held(s, n)

\* Of the statements that have not moved nothing has changed.
LEMMA AloneKeeps ==
  ASSUME LifeInv, NEW s \in Stmt, Alone(s), NEW r \in Stmt, r # s
  PROVE  /\ (AtWork(r)' <=> AtWork(r)) /\ (Ended(r)' <=> Ended(r))
         /\ script' = script /\ ops'[r] = ops[r]
         /\ \A n : At(r, n)' = At(r, n) /\ The(r, n)' = The(r, n) /\ (Midway(r, n)' <=> Midway(r, n))
         /\ \A n, kinds : Works(r, n, kinds)' <=> Works(r, n, kinds)
  BY DEF Alone, AtWork, Ended, At, The, Midway, Works

LEMMA NamesSame ==
  ASSUME LifeInv, NEW s \in Stmt, Alone(s),
         \A n \in DOMAIN script[s].nodes : Midway(s, n)' <=> Midway(s, n), NEW t
  PROVE  Underhand(t)' <=> Underhand(t)
<1>1. script' = script
  BY DEF Alone
<1>2. \A r \in Stmt : \A n \in DOMAIN script[r].nodes : Midway(r, n)' <=> Midway(r, n)
  BY AloneKeeps
<1>3. QED
  BY <1>1, <1>2 DEF Underhand, The

\* A row added by a statement is as wide as the table that has the name.
LEMMA AddsFit ==
  ASSUME TablesInv, NEW s \in Stmt, NEW u \in DOMAIN storage, Adds(s, u),
         u \in DOMAIN catalog, Wide(heap[storage[u]], Len(columns[catalog[u]]))
  PROVE  Wide(heap'[storage[u]], Len(columns[catalog[u]]))
<1>1. PICK n \in DOMAIN script[s].nodes :
        /\ Works(s, n, {"insert"}) \/ (Works(s, n, {"create"}) /\ At(s, n) = "pull")
        /\ The(s, n).table = u
        /\ Wide(heap[storage[u]], Len(columns[ops[s][n].table])) => Wide(heap'[storage[u]], Len(columns[ops[s][n].table]))
  BY DEF Adds
<1>2. catalog[u] = ops[s][n].table
  <2>1. CASE Works(s, n, {"insert"})
    BY <1>1, <2>1 DEF TablesInv, InsertsInv, Holds
  <2>2. CASE Works(s, n, {"create"}) /\ At(s, n) = "pull"
    BY <1>1, <2>2 DEF TablesInv, CreatesInv, Creating, Enlisted, Works
  <2>3. QED
    BY <1>1, <2>1, <2>2
<1>3. QED
  BY <1>1, <1>2

\* It is in no table that is being altered.
LEMMA AddsApart ==
  ASSUME LifeInv, Apart, NEW s \in Stmt, NEW u, Adds(s, u), NEW r \in Stmt, NEW m \in DOMAIN script[r].nodes,
         Midway(r, m), The(r, m).kind # "drop", u \in NamesOf(The(r, m))
  PROVE  FALSE
<1>1. PICK n \in DOMAIN script[s].nodes :
        /\ Works(s, n, {"insert"}) \/ (Works(s, n, {"create"}) /\ At(s, n) = "pull")
        /\ The(s, n).table = u
  BY DEF Adds
<1>2. CASE r = s
  <2>1. IsPlan(Plan(s)) /\ The(s, n).kind \in Writers /\ The(s, m).kind \in Writers
    <3>1. AtWork(s) /\ The(s, n).kind \in {"insert"} \union Definitions /\ The(s, m).kind \in Definitions
      BY <1>1, <1>2 DEF Works, Midway, Definitions
    <3>2. QED
      BY <3>1, Working DEF Writers
  <2>2. n = m
    BY <1>2, <2>1, OneWriter DEF Plan, The
  <2>3. QED
    BY <1>1, <1>2, <2>2 DEF Midway, Works, Definitions
<1>3. CASE r # s
  <2>1. /\ AtWork(r) /\ AtWork(s) /\ The(r, m).kind \in Definitions
        /\ The(s, n).kind \in Definitions \/ The(s, n).kind = "insert"
    BY <1>1 DEF Midway, Works, Definitions
  <2>2. u \in NamesOf(The(s, n))
    BY <1>1 DEF NamesOf
  <2>3. Meet(The(r, m), The(s, n))
    BY <2>1, <2>2 DEF Meet
  <2>4. QED
    BY <1>3, <2>1, <2>3 DEF Apart, The
<1>4. QED
  BY <1>2, <1>3

\* In a table into which another INSERT adds, it is as wide as what that one holds.
LEMMA AddsHeld ==
  ASSUME LifeInv, TablesInv, Apart, NEW s \in Stmt, NEW r \in Stmt, NEW m \in DOMAIN script[r].nodes,
         Works(r, m, {"insert"}), NEW u, u = The(r, m).table, Adds(s, u), u \in DOMAIN storage
  PROVE  Wide(heap'[storage[u]], Len(columns[ops[r][m].table]))
<1>1. PICK n \in DOMAIN script[s].nodes :
        /\ Works(s, n, {"insert"}) \/ (Works(s, n, {"create"}) /\ At(s, n) = "pull")
        /\ The(s, n).table = u
        /\ Wide(heap[storage[u]], Len(columns[ops[s][n].table])) => Wide(heap'[storage[u]], Len(columns[ops[s][n].table]))
  BY DEF Adds
<1>2. Wide(heap[storage[u]], Len(columns[ops[r][m].table]))
  BY DEF TablesInv, InsertsInv, Holds
<1>3. CASE Works(s, n, {"insert"})
  <2>1. ops[s][n].table = ops[r][m].table
    BY <1>1, <1>3 DEF TablesInv, SameHeld
  <2>2. QED
    BY <1>1, <1>2, <2>1
<1>4. CASE Works(s, n, {"create"})
  <2>1. CASE s = r
    <3>1. IsPlan(Plan(s)) /\ The(s, n).kind \in Writers /\ The(s, m).kind \in Writers
      BY <1>4, <2>1, Working DEF Works, Writers, Definitions
    <3>2. n = m
      BY <2>1, <3>1, OneWriter DEF Plan, The
    <3>3. QED
      BY <1>4, <2>1, <3>2 DEF Works
  <2>2. CASE s # r
    <3>1. Meet(The(s, n), The(r, m))
      BY <1>1, <1>4 DEF Meet, Works, Definitions, NamesOf
    <3>2. QED
      BY <1>4, <2>2, <3>1 DEF Apart, The, Works
  <2>3. QED
    BY <2>1, <2>2
<1>5. QED
  BY <1>1, <1>3, <1>4

\* What lies between the two steps of a definition is still there.
LEMMA PassiveDefines ==
  ASSUME LifeInv, TablesInv, Apart, NEW s \in Stmt, Alone(s), Passive(s), NEW r \in Stmt
  PROVE  DefinesInv(r)'
<1> SUFFICES ASSUME NEW n \in DOMAIN script[r].nodes, Midway(r, n)'
             PROVE  HalfDone(The(r, n), ops[r][n], r)'
  BY DEF DefinesInv, Alone
<1>1. The(r, n)' = The(r, n) /\ UNCHANGED <<catalog, columns, storage>>
  BY DEF Alone, Passive, The
<1>2. Midway(r, n) /\ ops'[r][n].count = ops[r][n].count
  <2>1. CASE r = s
    <3>1. The(s, n).kind \in Changing
      BY <1>1, <2>1 DEF Midway, Works, Changing
    <3>2. QED
      BY <2>1, <3>1 DEF Passive, Held
  <2>2. CASE r # s
    BY <2>2, AloneKeeps
  <2>3. QED
    BY <2>1, <2>2
<1>3. HalfDone(The(r, n), ops[r][n], r)
  BY <1>2 DEF TablesInv, DefinesInv
<1>4. ASSUME NEW w, The(r, n).kind # "drop", The(r, n).table \in DOMAIN storage,
             Wide(heap[storage[The(r, n).table]], w)
      PROVE  Wide(heap'[storage[The(r, n).table]], w)
  <2>1. The(r, n).table \in NamesOf(The(r, n))
    BY DEF NamesOf
  <2>2. ~Adds(s, The(r, n).table)
    BY <1>2, <1>4, <2>1, AddsApart
  <2>3. QED
    BY <1>4, <2>2 DEF Passive
<1>5. The(r, n).kind \in Definitions
  BY <1>2 DEF Midway, Works
<1> DEFINE node == The(r, n)
           t == node.table
           width == Len(columns[catalog[t]])
<1>6. CASE node.kind = "create"
  BY <1>1, <1>3, <1>6 DEF HalfDone
<1>7. CASE node.kind = "drop"
  BY <1>1, <1>3, <1>7 DEF HalfDone
<1>8. CASE node.kind = "add column"
  <2>1. t \in DOMAIN catalog /\ t \in DOMAIN storage /\ Wide(heap[storage[t]], width - 1)
    BY <1>3, <1>8 DEF HalfDone
  <2>2. Wide(heap'[storage[t]], width - 1)
    BY <1>4, <1>8, <2>1
  <2>3. QED
    BY <1>1, <1>8, <2>1, <2>2 DEF HalfDone
<1>9. CASE node.kind = "drop column"
  <2>1. /\ t \in DOMAIN catalog /\ t \in DOMAIN storage /\ Wide(heap[storage[t]], width + 1)
        /\ ops[r][n].count \in 1 .. width + 1
    BY <1>3, <1>9 DEF HalfDone
  <2>2. Wide(heap'[storage[t]], width + 1)
    BY <1>4, <1>9, <2>1
  <2>3. QED
    BY <1>1, <1>2, <1>9, <2>1, <2>2 DEF HalfDone
<1>10. CASE node.kind = "rename"
  <2>1. /\ t \notin DOMAIN catalog /\ t \in DOMAIN storage
        /\ node.new \in DOMAIN catalog /\ node.new \notin DOMAIN storage
        /\ Wide(heap[storage[t]], Len(columns[catalog[node.new]]))
    BY <1>3, <1>10 DEF HalfDone
  <2>2. Wide(heap'[storage[t]], Len(columns[catalog[node.new]]))
    BY <1>4, <1>10, <2>1
  <2>3. QED
    BY <1>1, <1>10, <2>1, <2>2 DEF HalfDone
<1>11. CASE node.kind = "rename column"
  BY <1>1, <1>3, <1>11 DEF HalfDone
<1>12. QED
  BY <1>5, <1>6, <1>7, <1>8, <1>9, <1>10, <1>11 DEF Definitions

\* What a CREATE TABLE has made, and that it has made nothing yet, stays true.
LEMMA PassiveCreates ==
  ASSUME LifeInv, TablesInv, NEW s \in Stmt, Alone(s), Passive(s), NEW r \in Stmt
  PROVE  CreatesInv(r)'
<1> SUFFICES ASSUME NEW n \in DOMAIN script[r].nodes, The(r, n).kind = "create"
             PROVE  /\ ~Ended(r)' /\ Untried(ops[r][n], At(r, n))' => Fresh(r)'
                    /\ AtWork(r)' /\ At(r, n)' \in {"create", "fetch", "pull"} =>
                         Enlisted(The(r, n), ops[r][n], r)'
                    /\ AtWork(r)' /\ At(r, n)' = "create" => r \notin DOMAIN heap'
                    /\ AtWork(r)' /\ At(r, n)' \in {"fetch", "pull"} => Backed(The(r, n), r)'
                    /\ AtWork(r)' /\ At(r, n)' = "pull" => ops'[r][n].heap = r
  <2>1. script' = script /\ \A n : The(r, n)' = The(r, n)
    BY DEF Alone, The
  <2>2. QED
    BY <2>1 DEF CreatesInv, Creating
<1>1. The(r, n)' = The(r, n) /\ UNCHANGED <<catalog, columns, storage>> /\ DOMAIN heap' = DOMAIN heap
  BY DEF Alone, Passive, The
<1>2. /\ ~Ended(r) /\ Untried(ops[r][n], At(r, n)) => Fresh(r)
      /\ AtWork(r) /\ At(r, n) \in {"create", "fetch", "pull"} => Enlisted(The(r, n), ops[r][n], r)
      /\ AtWork(r) /\ At(r, n) = "create" => r \notin DOMAIN heap
      /\ AtWork(r) /\ At(r, n) \in {"fetch", "pull"} => Backed(The(r, n), r)
      /\ AtWork(r) /\ At(r, n) = "pull" => ops[r][n].heap = r
  BY DEF TablesInv, CreatesInv, Creating
<1>3. Fresh(r)' <=> Fresh(r)
  BY <1>1 DEF Fresh
<1>4. CASE r = s
  <2>1. AtWork(r) /\ ~Ended(r)
    BY <1>4 DEF Passive, AtWork
  <2>2. Held(r, n)
    BY <1>4 DEF Passive, Changing, Definitions
  <2>3. QED
    BY <1>1, <1>2, <1>3, <2>1, <2>2 DEF Held, Enlisted, Backed
<1>5. CASE r # s
  <2>1. (AtWork(r)' => AtWork(r)) /\ (~Ended(r)' => ~Ended(r)) /\ ops'[r] = ops[r] /\ At(r, n)' = At(r, n)
    BY <1>5, AloneKeeps
  <2>2. Untried(ops[r][n], At(r, n))' => Untried(ops[r][n], At(r, n))
    BY <2>1 DEF Untried
  <2>3. QED
    BY <1>1, <1>2, <1>3, <2>1, <2>2 DEF Enlisted, Backed
<1>6. QED
  BY <1>4, <1>5

\* An INSERT holds the table and the heap it held, with rows as wide.
LEMMA PassiveInserts ==
  ASSUME LifeInv, TablesInv, Apart, NEW s \in Stmt, Alone(s), Passive(s), NEW r \in Stmt
  PROVE  InsertsInv(r)'
<1> SUFFICES ASSUME NEW n \in DOMAIN script[r].nodes, Works(r, n, {"insert"})'
             PROVE  /\ Holds(The(r, n), ops[r][n].table)'
                    /\ At(r, n)' \in {"values", "pull"} => HoldsHeap(The(r, n), ops[r][n].heap)'
  BY DEF InsertsInv, Alone
<1>1. The(r, n)' = The(r, n) /\ UNCHANGED <<catalog, columns, storage>> /\ DOMAIN heap' = DOMAIN heap
  BY DEF Alone, Passive, The
<1>2. /\ Works(r, n, {"insert"}) /\ ops'[r][n].table = ops[r][n].table
      /\ At(r, n)' \in {"values", "pull"} =>
           \/ At(r, n) \in {"values", "pull"} /\ ops'[r][n].heap = ops[r][n].heap
           \/ HoldsHeap(The(r, n), ops'[r][n].heap)
  <2>1. CASE r = s
    <3>1. The(s, n).kind = "insert" /\ AtWork(s)
      BY <1>1, <2>1 DEF Works, Passive
    <3>2. Held(s, n)
      BY <2>1, <3>1 DEF Passive, Changing
    <3>3. QED
      BY <2>1, <3>1, <3>2 DEF Held, Works
  <2>2. CASE r # s
    <3>1. Works(r, n, {"insert"}) /\ ops'[r] = ops[r] /\ At(r, n)' = At(r, n)
      BY <2>2, AloneKeeps
    <3>2. QED
      BY <3>1
  <2>3. QED
    BY <2>1, <2>2
<1>3. /\ Holds(The(r, n), ops[r][n].table)
      /\ At(r, n) \in {"values", "pull"} => HoldsHeap(The(r, n), ops[r][n].heap)
  BY <1>2 DEF TablesInv, InsertsInv
<1>4. \A h : HoldsHeap(The(r, n), h) => HoldsHeap(The(r, n), h)'
  BY <1>1 DEF HoldsHeap
<1>5. At(r, n)' \in {"values", "pull"} => HoldsHeap(The(r, n), ops'[r][n].heap)
  BY <1>2, <1>3
<1>6. At(r, n)' \in {"values", "pull"} => HoldsHeap(The(r, n), ops[r][n].heap)'
  BY <1>1, <1>5 DEF HoldsHeap
<1> DEFINE u == The(r, n).table
           e == ops[r][n].table
<1>7. u \in DOMAIN storage => Wide(heap'[storage[u]], Len(columns[e]))
  <2> SUFFICES ASSUME u \in DOMAIN storage PROVE Wide(heap'[storage[u]], Len(columns[e]))
    OBVIOUS
  <2>1. CASE Adds(s, u)
    BY <1>2, <2>1, AddsHeld
  <2>2. CASE ~Adds(s, u)
    <3>1. Wide(heap[storage[u]], Len(columns[e]))
      BY <1>3 DEF Holds
    <3>2. QED
      BY <2>2, <3>1 DEF Passive
  <2>3. QED
    BY <2>1, <2>2
<1>8. Holds(The(r, n), ops[r][n].table)'
  BY <1>1, <1>2, <1>3, <1>7 DEF Holds
<1>9. QED
  BY <1>6, <1>8

\* A step that only adds or replaces rows that fit keeps the invariant.
LEMMA PassiveKeeps ==
  ASSUME LifeInv, TablesInv, Apart, NEW s \in Stmt, Alone(s), Passive(s)
  PROVE  TablesInv'
<1>1. UNCHANGED <<catalog, columns, storage, script>> /\ DOMAIN heap' = DOMAIN heap /\ Slices' /\ Registries /\ NamesInv
  BY DEF Passive, Alone, TablesInv
<1>2. Registries'
  BY <1>1 DEF Registries
<1>3. NamesInv'
  <2> SUFFICES ASSUME NEW t \in DOMAIN catalog \union DOMAIN storage, ~Underhand(t)' PROVE Coherent(t)'
    BY <1>1 DEF NamesInv
  <2>1. \A n \in DOMAIN script[s].nodes : Midway(s, n)' <=> Midway(s, n)
    <3> SUFFICES ASSUME NEW n \in DOMAIN script[s].nodes PROVE Midway(s, n)' <=> Midway(s, n)
      OBVIOUS
    <3>1. CASE The(s, n).kind \in Definitions
      BY <3>1 DEF Passive, Held, Changing
    <3>2. CASE The(s, n).kind \notin Definitions
      BY <1>1, <3>2 DEF Midway, Works, The
    <3>3. QED
      BY <3>1, <3>2
  <2>2. ~Underhand(t)
    BY <2>1, NamesSame
  <2>3. Coherent(t)
    BY <1>1, <2>2 DEF NamesInv
  <2>4. ASSUME t \in DOMAIN catalog PROVE Wide(heap'[storage[t]], Len(columns[catalog[t]]))
    <3>1. t \in DOMAIN storage /\ Wide(heap[storage[t]], Len(columns[catalog[t]]))
      BY <2>3, <2>4 DEF Coherent
    <3>2. CASE Adds(s, t)
      BY <2>4, <3>1, <3>2, AddsFit
    <3>3. CASE ~Adds(s, t)
      BY <3>1, <3>3 DEF Passive
    <3>4. QED
      BY <3>2, <3>3
  <2>5. QED
    BY <1>1, <2>3, <2>4 DEF Coherent
<1>4. SameHeld'
  <2>1. \A r \in Stmt : \A n \in DOMAIN script[r].nodes : Works(r, n, {"insert"})' =>
          Works(r, n, {"insert"}) /\ ops'[r][n].table = ops[r][n].table
    <3> SUFFICES ASSUME NEW r \in Stmt, NEW n \in DOMAIN script[r].nodes, Works(r, n, {"insert"})'
                 PROVE  Works(r, n, {"insert"}) /\ ops'[r][n].table = ops[r][n].table
      OBVIOUS
    <3>1. CASE r = s
      <4>1. AtWork(s) /\ The(s, n).kind = "insert"
        BY <1>1, <3>1 DEF Passive, Works, The
      <4>2. Held(s, n)
        BY <3>1, <4>1 DEF Passive, Changing
      <4>3. QED
        BY <3>1, <4>1, <4>2 DEF Held, Works
    <3>2. CASE r # s
      BY <3>2, AloneKeeps
    <3>3. QED
      BY <3>1, <3>2
  <2>2. SameHeld
    BY DEF TablesInv
  <2>3. \A r, n : The(r, n)' = The(r, n)
    BY <1>1 DEF The
  <2>4. QED
    BY <1>1, <2>1, <2>2, <2>3 DEF SameHeld
<1>5. \A r \in Stmt : DefinesInv(r)' /\ CreatesInv(r)' /\ InsertsInv(r)'
  BY PassiveDefines, PassiveCreates, PassiveInserts
<1>6. QED
  BY <1>1, <1>2, <1>3, <1>4, <1>5 DEF TablesInv

-----------------------------------------------------------------------------
(* The frame that goes on or returns, and what it leaves alone.              *)

Formed(op) == DOMAIN op = DOMAIN Blank /\ IsList(op.schema)

\* The state of an operator that has held op, and of all those of a statement.
Shapes(op, new) == Formed(new) /\ (new.table = op.table \/ new.table \in DOMAIN columns')
Shaped(s) == DOMAIN ops'[s] = DOMAIN ops[s] /\ \A n \in DOMAIN ops[s] : Shapes(ops[s][n], ops'[s][n])

\* The operators of a statement are records with a header that is a slice.
LEMMA OpFormed ==
  ASSUME LifeInv, TablesInv, NEW s \in Stmt, stack[s] # <<>>
  PROVE  /\ Formed(Op(s)) /\ \A n \in DOMAIN ops[s] : Formed(ops[s][n])
         /\ DOMAIN ops[s] = DOMAIN script[s].nodes /\ Top(s).node \in DOMAIN ops[s]
<1>1. \A n \in DOMAIN ops[s] : Formed(ops[s][n])
  BY DEF TablesInv, Slices, Formed
<1>2. DOMAIN ops[s] = DOMAIN script[s].nodes /\ Top(s).node \in DOMAIN ops[s]
  BY TopFrame DEF Plan
<1>3. QED
  BY <1>1, <1>2 DEF Op

\* A node that writes keeps what it holds when it does not move; when it goes to a step
\* that is between nothing; and when it stays at its step.
LEMMA HeldSame ==
  ASSUME NEW s, NEW n, script' = script, AtWork(s), AtWork(s)',
         At(s, n)' = At(s, n), ops'[s][n] = ops[s][n]
  PROVE  Held(s, n)
  BY DEF Held, Midway, Works, The, Untried

LEMMA HeldAway ==
  ASSUME NEW s, NEW n, script' = script, AtWork(s),
         At(s, n) \notin {"create", "storage"}, At(s, n)' \notin Busy,
         ops'[s][n].table = ops[s][n].table,
         ~Ended(s)' /\ ops'[s][n].state = "new" => Untried(ops[s][n], At(s, n))
  PROVE  Held(s, n)
<1>1. ~Midway(s, n) /\ ~Midway(s, n)'
  BY DEF Midway, Busy
<1>2. ~Ended(s)' /\ Untried(ops[s][n], At(s, n))' => Untried(ops[s][n], At(s, n))
  BY DEF Untried
<1>3. At(s, n)' \notin {"create", "fetch", "pull", "values"}
  BY DEF Busy
<1>4. QED
  BY <1>1, <1>2, <1>3 DEF Held

LEMMA HeldStays ==
  ASSUME NEW s, NEW n, script' = script, AtWork(s),
         At(s, n) \notin {"create", "storage"}, At(s, n)' = At(s, n),
         ops'[s][n].table = ops[s][n].table, ops'[s][n].heap = ops[s][n].heap,
         ops'[s][n].state = ops[s][n].state, The(s, n).kind = "create" => ops'[s][n].count = ops[s][n].count
  PROVE  Held(s, n)
<1>1. ~Midway(s, n) /\ ~Midway(s, n)'
  BY DEF Midway
<1>2. Untried(ops[s][n], At(s, n))' => Untried(ops[s][n], At(s, n))
  BY DEF Untried
<1>3. QED
  BY <1>1, <1>2 DEF Held

\* What the frame of a node that writes keeps while it goes on.
Steady(s, op, step) ==
  Node(s).kind \in Changing =>
    /\ op.table = Op(s).table /\ op.heap = Op(s).heap
    /\ Node(s).kind = "create" => op.count = Op(s).count
    /\ Top(s).step \notin {"create", "storage"}
    /\ step = Top(s).step \/ (step \notin Busy /\ Top(s).step \notin Busy)

GoingOn(s, op, step, kid) ==
  /\ stack[s] # <<>> /\ Goto(s, step, kid)
  /\ ops' = [ops EXCEPT ![s][Top(s).node] = op] \/ (ops' = ops /\ op = Op(s))
  /\ Shapes(Op(s), op) /\ op.state = Op(s).state

\* A frame goes on at another step: where the nodes of the statement are now.
LEMMA WentOn ==
  ASSUME LifeInv, TablesInv, NEW s \in Stmt, NEW op, NEW step, NEW kid, GoingOn(s, op, step, kid), pc' = pc, script' = script
  PROVE  /\ AtWork(s) /\ AtWork(s)'
         /\ \A n : At(s, n)' = IF n = Top(s).node THEN step ELSE At(s, n)
         /\ DOMAIN ops'[s] = DOMAIN ops[s] /\ ops'[s][Top(s).node] = op
         /\ \A n \in DOMAIN ops[s] : n # Top(s).node => ops'[s][n] = ops[s][n]
         /\ Shaped(s)
<1> DEFINE f == [Top(s) EXCEPT !.step = step, !.kid = kid]
<1>1. /\ stack[s] # <<>> /\ stack[s] \in Seq(CallFrame) /\ OneEach(stack[s]) /\ Top(s) = stack[s][1]
      /\ AtWork(s) /\ Top(s) \in CallFrame
  BY TopStep, TopFrame DEF GoingOn
<1>2. f.node = stack[s][1].node /\ f.step = step
  BY <1>1 DEF CallFrame
<1>3. stack'[s] = [stack[s] EXCEPT ![1] = f]
  BY <1>1 DEF GoingOn, Goto, LifeInv
<1> HIDE DEF f
<1>4. \A n : StepIn([stack[s] EXCEPT ![1] = f], n) = IF n = stack[s][1].node THEN f.step ELSE StepIn(stack[s], n)
  BY <1>1, <1>2, StepMoved
<1>5. \A n : At(s, n)' = IF n = Top(s).node THEN step ELSE At(s, n)
  BY <1>1, <1>2, <1>3, <1>4 DEF At
<1>6. AtWork(s)'
  BY <1>1 DEF AtWork, Ended
<1>7. \A n \in DOMAIN ops[s] : Formed(ops[s][n]) /\ DOMAIN ops = Stmt /\ Top(s).node \in DOMAIN ops[s]
  BY <1>1, OpFormed DEF LifeInv
<1>8. /\ DOMAIN ops'[s] = DOMAIN ops[s] /\ ops'[s][Top(s).node] = op
      /\ \A n \in DOMAIN ops[s] : n # Top(s).node => ops'[s][n] = ops[s][n]
  <2>1. Top(s).node \in DOMAIN ops[s] /\ DOMAIN ops = Stmt
    BY <1>1, OpFormed DEF LifeInv
  <2>2. CASE ops' = ops /\ op = Op(s)
    BY <2>2 DEF Op
  <2>3. CASE ops' = [ops EXCEPT ![s][Top(s).node] = op]
    BY <2>1, <2>3
  <2>4. QED
    BY <2>2, <2>3 DEF GoingOn
<1>9. Shaped(s)
  <2>1. Shapes(Op(s), op) /\ Op(s) = ops[s][Top(s).node]
    BY DEF GoingOn, Op
  <2>2. QED
    BY <1>7, <1>8, <2>1 DEF Shaped, Shapes
<1>10. QED
  BY <1>1, <1>5, <1>6, <1>8, <1>9

LEMMA WentOnHeld ==
  ASSUME LifeInv, TablesInv, NEW s \in Stmt, NEW op, NEW step, NEW kid, GoingOn(s, op, step, kid), pc' = pc, script' = script,
         Steady(s, op, step), NEW n \in DOMAIN script[s].nodes, The(s, n).kind \in Changing
  PROVE  Held(s, n)
<1>1. /\ AtWork(s) /\ AtWork(s)' /\ n \in DOMAIN ops[s]
      /\ At(s, n)' = IF n = Top(s).node THEN step ELSE At(s, n)
      /\ ops'[s][Top(s).node] = op
      /\ n # Top(s).node => ops'[s][n] = ops[s][n]
  <2>1. stack[s] # <<>>
    BY DEF GoingOn
  <2>2. n \in DOMAIN ops[s]
    BY <2>1, OpFormed
  <2>3. QED
    BY <2>2, WentOn
<1>2. CASE n # Top(s).node
  BY <1>1, <1>2, HeldSame
<1>3. CASE n = Top(s).node
  <2>1. /\ At(s, n) = Top(s).step /\ Node(s) = The(s, n) /\ Op(s) = ops[s][n]
        /\ ops'[s][n].state = ops[s][n].state /\ ops'[s][n] = op /\ At(s, n)' = step
    BY <1>1, <1>3, TopStep DEF GoingOn
  <2>2. /\ op.table = Op(s).table /\ op.heap = Op(s).heap
        /\ Node(s).kind = "create" => op.count = Op(s).count
        /\ Top(s).step \notin {"create", "storage"}
        /\ step = Top(s).step \/ (step \notin Busy /\ Top(s).step \notin Busy)
    BY <2>1 DEF Steady
  <2>3. CASE step = Top(s).step
    BY <1>1, <2>1, <2>2, <2>3, HeldStays
  <2>4. CASE step \notin Busy /\ Top(s).step \notin Busy
    <3>1. ops'[s][n].state = "new" => Untried(ops[s][n], At(s, n))
      BY <2>1, <2>4 DEF Untried, Busy
    <3>2. QED
      BY <1>1, <2>1, <2>2, <2>4, <3>1, HeldAway
  <2>5. QED
    BY <2>2, <2>3, <2>4
<1>4. QED
  BY <1>2, <1>3

Returning(s, op, r) ==
  /\ stack[s] # <<>> /\ ReturnWith(s, op, r)
  /\ Shapes(Op(s), op) /\ op.state = Op(s).state

\* A method returns: where the nodes of the statement are now.
LEMMA Returned ==
  ASSUME LifeInv, TablesInv, NEW s \in Stmt, NEW op, NEW r, Returning(s, op, r), pc' = pc, script' = script
  PROVE  /\ AtWork(s) /\ AtWork(s)'
         /\ \A n : At(s, n)' = IF n = Top(s).node THEN "out" ELSE At(s, n)
         /\ DOMAIN ops'[s] = DOMAIN ops[s]
         /\ ops'[s][Top(s).node] = [op EXCEPT !.state = ops'[s][Top(s).node].state]
         /\ ops'[s][Top(s).node].state # "new"
         /\ ops'[s][Top(s).node].table = op.table /\ ops'[s][Top(s).node].heap = op.heap
         /\ \A n \in DOMAIN ops[s] : n # Top(s).node => ops'[s][n] = ops[s][n]
         /\ Shaped(s)
<1>1. /\ stack[s] # <<>> /\ stack[s] \in Seq(CallFrame) /\ OneEach(stack[s]) /\ Top(s) = stack[s][1]
      /\ AtWork(s) /\ Top(s) \in CallFrame
  BY TopStep, TopFrame DEF Returning
<1>2. stack'[s] = Tail(stack[s])
  BY <1>1 DEF Returning, ReturnWith, LifeInv
<1>3. \A n : StepIn(Tail(stack[s]), n) = IF n = stack[s][1].node THEN "out" ELSE StepIn(stack[s], n)
  BY <1>1, StepPopped
<1>4. \A n : At(s, n)' = IF n = Top(s).node THEN "out" ELSE At(s, n)
  BY <1>1, <1>2, <1>3 DEF At
<1>5. AtWork(s)'
  BY <1>1 DEF AtWork, Ended
<1>6. /\ \A n \in DOMAIN ops[s] : Formed(ops[s][n])
      /\ DOMAIN ops = Stmt /\ Top(s).node \in DOMAIN ops[s]
  BY <1>1, OpFormed DEF LifeInv
<1> DEFINE state == StateAfter(Top(s).method, r, Op(s).state)
           new == [op EXCEPT !.state = state]
<1>7. ops' = [ops EXCEPT ![s][Top(s).node] = new]
  BY DEF Returning, ReturnWith
<1>8. DOMAIN op = DOMAIN Blank /\ IsList(op.schema) /\ (op.table = Op(s).table \/ op.table \in DOMAIN columns')
  BY DEF Returning, Formed, Shapes
<1>9. /\ DOMAIN new = DOMAIN op /\ new.schema = op.schema /\ new.table = op.table /\ new.heap = op.heap
      /\ new.state = state /\ new = [op EXCEPT !.state = new.state]
  BY <1>8 DEF Blank
<1>10. state # "new"
  <2>1. Top(s).method \in {"open", "next", "close"}
    BY <1>1 DEF CallFrame
  <2>2. <<Top(s).method, "none", Op(s).state>> \in Replies
    BY <1>1, TopTells
  <2>3. CASE Top(s).method = "open"
    BY <2>3 DEF StateAfter
  <2>4. CASE Top(s).method = "next"
    BY <2>2, <2>4, RepliesTell DEF StateAfter
  <2>5. CASE Top(s).method = "close"
    BY <2>5 DEF StateAfter
  <2>6. QED
    BY <2>1, <2>3, <2>4, <2>5
<1> HIDE DEF new, state
<1>11. /\ DOMAIN ops'[s] = DOMAIN ops[s] /\ ops'[s][Top(s).node] = new
       /\ \A n \in DOMAIN ops[s] : n # Top(s).node => ops'[s][n] = ops[s][n]
  BY <1>6, <1>7
<1>12. Shapes(ops[s][Top(s).node], new)
  BY <1>8, <1>9 DEF Formed, Shapes, Op
<1>13. Shaped(s)
  BY <1>6, <1>11, <1>12 DEF Shaped, Shapes
<1>14. QED
  BY <1>1, <1>4, <1>5, <1>9, <1>10, <1>11, <1>13

LEMMA ReturnedHeld ==
  ASSUME LifeInv, TablesInv, NEW s \in Stmt, NEW op, NEW r, Returning(s, op, r), pc' = pc, script' = script,
         Node(s).kind \in Changing => op.table = Op(s).table /\ Top(s).step \notin {"create", "storage"},
         NEW n \in DOMAIN script[s].nodes, The(s, n).kind \in Changing
  PROVE  Held(s, n)
<1>1. /\ AtWork(s) /\ AtWork(s)' /\ n \in DOMAIN ops[s]
      /\ At(s, n)' = IF n = Top(s).node THEN "out" ELSE At(s, n)
      /\ ops'[s][Top(s).node].state # "new" /\ ops'[s][Top(s).node].table = op.table
      /\ n # Top(s).node => ops'[s][n] = ops[s][n]
  <2>1. stack[s] # <<>>
    BY DEF Returning
  <2>2. n \in DOMAIN ops[s]
    BY <2>1, OpFormed
  <2>3. AtWork(s) /\ AtWork(s)' /\ \A m : At(s, m)' = IF m = Top(s).node THEN "out" ELSE At(s, m)
    BY Returned
  <2>4. /\ ops'[s][Top(s).node].state # "new" /\ ops'[s][Top(s).node].table = op.table
        /\ \A m \in DOMAIN ops[s] : m # Top(s).node => ops'[s][m] = ops[s][m]
    BY Returned
  <2>5. QED
    BY <2>2, <2>3, <2>4
<1>2. CASE n # Top(s).node
  BY <1>1, <1>2, HeldSame
<1>3. CASE n = Top(s).node
  <2>1. At(s, n) = Top(s).step /\ Node(s) = The(s, n) /\ Op(s) = ops[s][n]
    BY <1>3, TopStep DEF Returning
  <2>2. "out" \notin Busy
    BY DEF Busy
  <2>3. QED
    BY <1>1, <1>3, <2>1, <2>2, HeldAway
<1>4. QED
  BY <1>2, <1>3

-----------------------------------------------------------------------------
(* The operators that read are passive.                                      *)

\* Slices stay slices when those of the tables, the heaps and the one operator do.
LEMMA SlicesMade ==
  ASSUME LifeInv, TablesInv, NEW s \in Stmt, Alone(s), AtWork(s), Shaped(s), DOMAIN columns \subseteq DOMAIN columns',
         \A e \in DOMAIN columns' : IsList(columns'[e]),
         \A h \in DOMAIN heap' : IsList(heap'[h]) /\ \A i \in DOMAIN heap'[h] : IsList(heap'[h][i])
  PROVE  Slices'
<1>1. Slices
  BY DEF TablesInv
<1>2. ASSUME NEW r \in Stmt, NEW n \in DOMAIN ops'[r]
      PROVE  DOMAIN ops'[r][n] = DOMAIN Blank /\ IsList(ops'[r][n].schema)
  <2>1. CASE r = s
    BY <1>2, <2>1 DEF Shaped, Shapes, Formed
  <2>2. CASE r # s
    BY <1>1, <1>2, <2>2 DEF Alone, Slices
  <2>3. QED
    BY <2>1, <2>2
<1>3. ASSUME NEW r \in Stmt, NEW n \in DOMAIN script[r].nodes, Works(r, n, {"scan"})'
      PROVE  ops'[r][n].table \in DOMAIN columns'
  <2>1. CASE r = s
    <3>1. Works(s, n, {"scan"}) /\ n \in DOMAIN ops[s]
      <4>1. Works(s, n, {"scan"})
        BY <1>3, <2>1 DEF Works, Alone, The
      <4>2. QED
        BY <2>1, <4>1, Working DEF Plan
    <3>2. ops[s][n].table \in DOMAIN columns
      BY <1>1, <2>1, <3>1 DEF Slices
    <3>3. QED
      BY <2>1, <3>1, <3>2 DEF Shaped, Shapes
  <2>2. CASE r # s
    <3>1. Works(r, n, {"scan"}) /\ ops'[r] = ops[r]
      BY <1>3, <2>2, AloneKeeps
    <3>2. QED
      BY <1>1, <3>1 DEF Slices
  <2>3. QED
    BY <2>1, <2>2
<1>4. script' = script
  BY DEF Alone
<1>5. QED
  BY <1>2, <1>3, <1>4 DEF Slices

\* A step that leaves the tables alone is passive, whether the frame goes on or returns.
LEMMA ReadPassive ==
  ASSUME LifeInv, TablesInv, NEW s \in Stmt, Alone(s), AtWork(s), UNCHANGED tables,
         Shaped(s),
         \A n \in DOMAIN script[s].nodes : The(s, n).kind \in Changing => Held(s, n)
  PROVE  Passive(s)
<1>1. UNCHANGED <<catalog, columns, storage, heap>>
  BY DEF tables
<1>2. \A h \in DOMAIN heap' : IsList(heap'[h]) /\ \A i \in DOMAIN heap'[h] : IsList(heap'[h][i])
  BY <1>1 DEF TablesInv, Slices
<1>3. Slices'
  <2>1. \A e \in DOMAIN columns : IsList(columns[e])
    BY DEF TablesInv, Slices
  <2>2. QED
    BY <1>1, <1>2, <2>1, SlicesMade
<1>4. QED
  BY <1>1, <1>3 DEF Passive

LEMMA GoesPassive ==
  ASSUME LifeInv, TablesInv, NEW s \in Stmt, Alone(s), UNCHANGED tables, pc' = pc,
         NEW op, NEW step, NEW kid, GoingOn(s, op, step, kid), Steady(s, op, step)
  PROVE  Passive(s)
<1>1. script' = script
  BY DEF Alone
<1>2. \A n \in DOMAIN script[s].nodes : The(s, n).kind \in Changing => Held(s, n)
  BY <1>1, WentOnHeld
<1>3. AtWork(s) /\ Shaped(s)
  BY <1>1, WentOn
<1>4. QED
  BY <1>2, <1>3, ReadPassive

LEMMA ReturnsPassive ==
  ASSUME LifeInv, TablesInv, NEW s \in Stmt, Alone(s), UNCHANGED tables, pc' = pc,
         NEW op, NEW r, Returning(s, op, r),
         Node(s).kind \in Changing => op.table = Op(s).table /\ Top(s).step \notin {"create", "storage"}
  PROVE  Passive(s)
<1>1. script' = script
  BY DEF Alone
<1>2. \A n \in DOMAIN script[s].nodes : The(s, n).kind \in Changing => Held(s, n)
  BY <1>1, ReturnedHeld
<1>3. AtWork(s) /\ Shaped(s)
  BY <1>1, Returned
<1>4. QED
  BY <1>2, <1>3, ReadPassive

\* The operators of a statement have not moved.
LEMMA OpsKeptPassive ==
  ASSUME LifeInv, TablesInv, NEW s \in Stmt, Alone(s), UNCHANGED tables, ops' = ops, AtWork(s),
         \A n : \/ AtWork(s)' /\ At(s, n)' = At(s, n)
                \/ At(s, n) = "out" /\ At(s, n)' = "enter"
                \/ At(s, n) \notin {"create", "storage"} /\ At(s, n)' = "out" /\ Ended(s)'
                \/ At(s, n) = "out" /\ At(s, n)' = "out"
  PROVE  Passive(s)
<1>1. script' = script
  BY DEF Alone
<1>2. Shaped(s)
  BY DEF TablesInv, Slices, Formed, Shaped, Shapes
<1>3. ASSUME NEW n \in DOMAIN script[s].nodes PROVE Held(s, n)
  <2>1. CASE AtWork(s)' /\ At(s, n)' = At(s, n)
    BY <1>1, <2>1, HeldSame
  <2>2. CASE At(s, n) \notin {"create", "storage"} /\ At(s, n)' = "out" /\ Ended(s)'
    BY <1>1, <2>2, HeldAway DEF Busy
  <2>3. CASE At(s, n) = "out" /\ At(s, n)' \in {"enter", "out"}
    <3>1. ops'[s][n].state = "new" => Untried(ops[s][n], At(s, n))
      BY <2>3 DEF Untried
    <3>2. At(s, n)' \notin Busy /\ At(s, n) \notin {"create", "storage"}
      BY <2>3 DEF Busy
    <3>3. QED
      BY <1>1, <3>1, <3>2, HeldAway
  <2>4. QED
    BY <2>1, <2>2, <2>3
<1>4. QED
  BY <1>2, <1>3, ReadPassive

\* A parent calls a child, which has not begun.
LEMMA CallChildPassive ==
  ASSUME LifeInv, LifeInv', TablesInv, NEW s \in Stmt, Alone(s), CallChild(s)
  PROVE  Passive(s)
<1> DEFINE frames == stack[s]
           m == Kid(s)
           method == MethodAt[Top(s).step]
<1>1. /\ frames # <<>> /\ frames \in Seq(CallFrame) /\ OneEach(frames) /\ AtWork(s)
      /\ pc' = pc /\ ops' = ops /\ UNCHANGED tables
  BY TopStep DEF CallChild
<1>2. stack'[s] = Called(frames, m, method)
  BY DEF CallChild, Call, LifeInv
<1> HIDE DEF frames, m, method
<1>3. AtWork(s)'
  BY <1>1 DEF AtWork, Ended
<1>4. OneEach(stack'[s])
  <2>1. Lives(script'[s].nodes, pc'[s], stack'[s], reply'[s], ops'[s])
    BY DEF LifeInv
  <2>2. pc'[s] \in DOMAIN Calls
    BY <1>1, Working
  <2>3. Runs(script'[s].nodes, stack'[s], reply'[s], ops'[s])
    BY <2>1, <2>2 DEF Lives
  <2>4. QED
    BY <2>3, FramesOneEach
<1>5. OneEach(Called(frames, m, method))
  BY <1>2, <1>4
<1>6. \A n : StepIn(Called(frames, m, method), n) = IF n = m THEN "enter" ELSE StepIn(frames, n)
  BY <1>1, <1>5, StepPushed
<1>7. StepIn(frames, m) = "out"
  <2>1. /\ Len(frames) \in Nat /\ Called(frames, m, method)[1].node = m
        /\ Len(Called(frames, m, method)) = Len(frames) + 1
        /\ \A i \in 1 .. Len(frames) : Called(frames, m, method)[i + 1] = frames[i]
    BY <1>1 DEF Called
  <2>2. \A i \in 1 .. Len(frames) : 1 \in 1 .. Len(frames) + 1 /\ i + 1 \in 1 .. Len(frames) + 1 /\ i + 1 # 1
    BY <2>1
  <2>3. ASSUME NEW i \in 1 .. Len(frames) PROVE frames[i].node # m
    <3>1. Called(frames, m, method)[i + 1].node # Called(frames, m, method)[1].node
      BY <1>5, <2>1, <2>2 DEF OneEach
    <3>2. QED
      BY <2>1, <3>1
  <2>4. QED
    BY <2>3, StepOut
<1>8. \A n : At(s, n)' = IF n = m THEN "enter" ELSE At(s, n)
  BY <1>2, <1>6 DEF At, frames
<1>9. At(s, m) = "out"
  BY <1>7 DEF At, frames
<1>10. QED
  BY <1>1, <1>3, <1>8, <1>9, OpsKeptPassive

\* The header an operator computes is a slice.
LEMMA SchemaMade ==
  ASSUME LifeInv, TablesInv, NEW s \in Stmt, stack[s] # <<>>, Node(s).kids # <<>>
  PROVE  IsList(OutputSchema(Node(s), KidSchema(s, 1)))
<1> DEFINE node == Node(s)
           below == KidSchema(s, 1)
<1>1. node.kind \in Kinds /\ HasLists(node) /\ IsPlan(Plan(s)) /\ Top(s).node \in DOMAIN Plan(s)
      /\ node = Plan(s)[Top(s).node]
  <2>1. /\ node.kind \in Kinds /\ IsPlan(Plan(s)) /\ Top(s).node \in DOMAIN Plan(s)
        /\ node = Plan(s)[Top(s).node]
    BY TopFrame, NodeKids
  <2>2. \A n \in DOMAIN Plan(s) : HasLists(Plan(s)[n])
    BY <2>1 DEF IsPlan
  <2>3. QED
    BY <2>1, <2>2
<1>2. IsList(below)
  <2>1. 1 \in DOMAIN node.kids
    BY <1>1, NodeKids DEF Kids
  <2>2. node.kids[1] \in DOMAIN Plan(s)
    BY <1>1, <2>1, PlanKids
  <2>3. node.kids[1] \in DOMAIN ops[s]
    BY <2>2, OpFormed DEF Plan
  <2>4. Formed(ops[s][node.kids[1]])
    BY <2>3, OpFormed
  <2>5. QED
    BY <2>4 DEF Formed, KidSchema
<1> HIDE DEF node, below
<1>3. CASE node.kind = "project"
  <2> DEFINE g == [k \in DOMAIN node.items |-> HeaderName(node.items[k])]
  <2>1. IsList(node.items) /\ g = [k \in DOMAIN node.items |-> g[k]]
    BY <1>1, <1>3 DEF HasLists
  <2>2. IsList(g)
    BY <2>1, ListMapped
  <2>3. QED
    BY <1>3, <2>2 DEF OutputSchema, node
<1>4. CASE node.kind = "aggregate"
  <2> DEFINE g == [k \in DOMAIN node.groupBy |-> PrintedName(node.groupBy[k])]
             a == [k \in DOMAIN node.aggs |-> AggName(node.aggs[k])]
  <2>1. /\ IsList(node.groupBy) /\ g = [k \in DOMAIN node.groupBy |-> g[k]]
        /\ IsList(node.aggs) /\ a = [k \in DOMAIN node.aggs |-> a[k]]
    BY <1>1, <1>4 DEF HasLists
  <2>2. IsList(g) /\ IsList(a)
    BY <2>1, ListMapped
  <2>3. IsList(g \o a)
    BY <2>2, ListConcat
  <2>4. QED
    BY <1>4, <2>3 DEF OutputSchema, AggHeader, node
<1>5. CASE node.kind = "window"
  <2> DEFINE g == [k \in DOMAIN node.windows |-> Name("", node.windows[k].name)]
  <2>1. IsList(node.windows) /\ g = [k \in DOMAIN node.windows |-> g[k]]
    BY <1>1, <1>5 DEF HasLists
  <2>2. IsList(g)
    BY <2>1, ListMapped
  <2>3. IsList(below \o g)
    BY <1>2, <2>2, ListConcat
  <2>4. QED
    BY <1>5, <2>3 DEF OutputSchema, WindowSchema, node, below
<1>6. CASE node.kind = "explain"
  <2>1. <<Name("", "Plan")>> \in Seq({Name("", "Plan")})
    OBVIOUS
  <2>2. QED
    BY <1>6, <2>1, ListIn DEF OutputSchema, node
<1>7. CASE node.kind \notin {"project", "aggregate", "window", "explain"}
  BY <1>2, <1>7 DEF OutputSchema, node, below
<1>8. QED
  BY <1>3, <1>4, <1>5, <1>6, <1>7 DEF node

LEMMA FormedIs ==
  ASSUME NEW op
  PROVE  Formed(op) <=>
           /\ DOMAIN op = {"state", "table", "heap", "schema", "rows", "left", "groups", "pos", "count", "seen"}
           /\ IsList(op.schema)
  BY DEF Formed, Blank

\* An operator that neither writes nor defines goes on, or returns.
LEMMA ReaderPassive ==
  ASSUME LifeInv, TablesInv, NEW s \in Stmt, Alone(s), UNCHANGED tables, pc' = pc, stack[s] # <<>>,
         Node(s).kind \notin Changing, NEW op, Formed(op), op.table = Op(s).table, op.state = Op(s).state,
         \/ \E step, kid : GotoWith(s, op, step, kid)
         \/ \E step, kid : Goto(s, step, kid) /\ ops' = ops /\ op = Op(s)
         \/ \E r : ReturnWith(s, op, r)
  PROVE  Passive(s)
<1>1. CASE \E step, kid : GoingOn(s, op, step, kid)
  <2>1. PICK step, kid : GoingOn(s, op, step, kid)
    BY <1>1
  <2>2. Steady(s, op, step)
    BY DEF Steady
  <2>3. QED
    BY <2>1, <2>2, GoesPassive
<1>2. CASE \E r : ReturnWith(s, op, r)
  <2>1. PICK r : Returning(s, op, r)
    BY <1>2 DEF Returning, Shapes
  <2>2. QED
    BY <2>1, ReturnsPassive
<1>3. QED
  BY <1>1, <1>2 DEF GoingOn, GotoWith, Shapes

\* A method returns, or an Open goes on to open a child, with its operator as it was.
LEMMA SamePassive ==
  ASSUME LifeInv, TablesInv, NEW s \in Stmt, Alone(s), UNCHANGED tables, pc' = pc, stack[s] # <<>>,
         Node(s).kind \in Changing => Top(s).step \notin {"create", "storage"},
         \E r : Return(s, r)
  PROVE  Passive(s)
<1>1. PICK r : ReturnWith(s, Op(s), r)
  BY DEF Return
<1>2. Returning(s, Op(s), r)
  BY <1>1, OpFormed DEF Returning, Shapes
<1>3. QED
  BY <1>2, ReturnsPassive

LEMMA ReadKinds == (Streaming \union Draining \union {"scan", "constant", "empty"}) \intersect Changing = {}
  BY DEF Streaming, Draining, Changing, Definitions

\* Open, of a leaf and of an operator with children.
LEMMA OpenedPassive ==
  ASSUME LifeInv, TablesInv, NEW s \in Stmt, Alone(s),
         OpenScan(s) \/ OpenLeaf(s) \/ OpenChildren(s) \/ ChildOpened(s)
  PROVE  Passive(s)
<1>1. UNCHANGED tables /\ pc' = pc /\ stack[s] # <<>>
  BY DEF OpenScan, OpenLeaf, OpenChildren, ChildOpened, Enters, In
<1>2. Node(s).kind \in Streaming \union Draining \union {"scan", "constant", "empty"}
  BY DEF OpenScan, OpenLeaf, OpenChildren, ChildOpened, Enters, Draining
<1>3. Node(s).kind \notin Changing
  BY <1>2, ReadKinds
<1>4. Formed(Op(s)) /\ Slices
  BY <1>1, OpFormed DEF TablesInv
<1>5. ASSUME NEW list, IsList(list)
      PROVE  /\ Formed([Op(s) EXCEPT !.schema = list])
             /\ [Op(s) EXCEPT !.schema = list].state = Op(s).state
             /\ [Op(s) EXCEPT !.schema = list].table = Op(s).table
  BY <1>4, <1>5, FormedIs
<1>6. CASE OpenScan(s)
  <2> DEFINE cols == columns[Op(s).table]
             schema == [i \in DOMAIN cols |-> Name(Node(s).alias, cols[i])]
             found == [i \in DOMAIN heap[storage[Node(s).table]] |-> Tuple(heap[storage[Node(s).table]][i], schema)]
             op == [Op(s) EXCEPT !.schema = schema, !.rows = found]
  <2>1. Return(s, Error) \/ ReturnWith(s, op, Ok)
    BY <1>6 DEF OpenScan
  <2>2. IsList(schema)
    <3>1. Works(s, Top(s).node, {"scan"}) /\ Op(s) = ops[s][Top(s).node]
      BY <1>1, <1>6, TopStep DEF Works, OpenScan, Enters, Plan
    <3>2. Op(s).table \in DOMAIN columns
      BY <1>1, <1>4, <3>1 DEF Slices, Works
    <3>3. IsList(cols)
      BY <1>4, <3>2 DEF Slices
    <3>4. schema = [i \in DOMAIN cols |-> schema[i]]
      OBVIOUS
    <3>5. QED
      BY <3>3, <3>4, ListMapped
  <2>3. Formed(op) /\ op.state = Op(s).state /\ op.table = Op(s).table
    <3> HIDE DEF schema, found
    <3>1. QED
      BY <1>4, <2>2, FormedIs
  <2> HIDE DEF op
  <2>4. QED
    BY <1>1, <1>3, <1>4, <2>1, <2>3, ReaderPassive DEF Return
<1>7. CASE OpenLeaf(s)
  <2> DEFINE rows == <<Tuple(<<>>, <<>>)>>
             op == [Op(s) EXCEPT !.rows = rows]
             empty == [Op(s) EXCEPT !.schema = Node(s).cols]
  <2>1. \/ ReturnWith(s, op, Ok)
        \/ Node(s).kind = "empty" /\ ReturnWith(s, empty, Ok)
        \/ Return(s, Ok)
    BY <1>7 DEF OpenLeaf, Enters
  <2>2. Formed(op) /\ op.state = Op(s).state /\ op.table = Op(s).table
    <3> HIDE DEF rows
    <3>1. QED
      BY <1>4, FormedIs
  <2>3. Node(s).kind = "empty" => Formed(empty) /\ empty.state = Op(s).state /\ empty.table = Op(s).table
    <3>1. HasLists(Node(s))
      BY <1>1, TopFrame DEF IsPlan
    <3>2. QED
      BY <1>5, <3>1 DEF HasLists
  <2> HIDE DEF op, empty
  <2>4. QED
    BY <1>1, <1>3, <1>4, <2>1, <2>2, <2>3, ReaderPassive DEF Return
<1>8. CASE OpenChildren(s)
  BY <1>1, <1>3, <1>4, <1>8, ReaderPassive DEF OpenChildren
<1>9. CASE ChildOpened(s)
  <2> DEFINE op == [Op(s) EXCEPT !.schema = OutputSchema(Node(s), KidSchema(s, 1))]
  <2>1. \/ \E kid : Goto(s, "open", kid) /\ ops' = ops
        \/ Return(s, Error)
        \/ ReturnWith(s, op, Ok)
        \/ GotoWith(s, op, "drain", 1)
    BY <1>9 DEF ChildOpened
  <2>2. Node(s).kids # <<>>
    <3>1. Node(s).kind \in Streaming \union Draining
      BY <1>9 DEF ChildOpened
    <3>2. Len(Kids(s)) \in {1, 2} /\ (Kids(s) = <<>> <=> Len(Kids(s)) = 0)
      BY <1>1, <3>1, NodeKids
    <3>3. QED
      BY <3>2 DEF Kids
  <2>3. Formed(op) /\ op.state = Op(s).state /\ op.table = Op(s).table
    BY <1>1, <1>5, <2>2, SchemaMade
  <2> HIDE DEF op
  <2>4. QED
    BY <1>1, <1>3, <1>4, <2>1, <2>3, ReaderPassive DEF Return
<1>10. QED
  BY <1>6, <1>7, <1>8, <1>9

\* Open, of an operator that takes all rows of its child.
LEMMA DrainedPassive ==
  ASSUME LifeInv, TablesInv, NEW s \in Stmt, Alone(s),
         DrainRow(s) \/ DrainFailed(s) \/ CloseDrained(s) \/ ChildDrained(s)
  PROVE  Passive(s)
<1>1. UNCHANGED tables /\ pc' = pc /\ stack[s] # <<>>
  BY DEF DrainRow, DrainFailed, CloseDrained, DrainedAll, ChildDrained, In
<1>2. Node(s).kind \in Draining
  <2>1. CASE ChildDrained(s)
    <3>1. Top(s).method = "open" /\ Top(s).step = "close"
      BY <2>1 DEF ChildDrained, In
    <3>2. QED
      BY <1>1, <3>1, TopTells DEF Reaches
  <2>2. QED
    BY <2>1 DEF DrainRow, DrainFailed, CloseDrained, DrainedAll
<1>3. Node(s).kind \notin Changing
  BY <1>2, ReadKinds
<1>4. Formed(Op(s))
  BY <1>1, OpFormed
<1>5. CASE DrainRow(s)
  <2>1. ASSUME NEW x
        PROVE  LET groups == [Op(s) EXCEPT !.groups = x]
                   count == [Op(s) EXCEPT !.count = x]
                   rows == [Op(s) EXCEPT !.rows = x]
               IN  /\ Formed(groups) /\ groups.state = Op(s).state /\ groups.table = Op(s).table
                   /\ Formed(count) /\ count.state = Op(s).state /\ count.table = Op(s).table
                   /\ Formed(rows) /\ rows.state = Op(s).state /\ rows.table = Op(s).table
    BY <1>4, FormedIs
  <2> DEFINE t == reply[s].tuple
             g == [Op(s) EXCEPT !.groups = Grouped(@, GroupVals(s, t), Node(s).aggs, t)]
             c == [Op(s) EXCEPT !.count = @ + 1]
             o == [Op(s) EXCEPT !.rows = Append(@, t)]
  <2>2. /\ Formed(g) /\ g.state = Op(s).state /\ g.table = Op(s).table
        /\ Formed(c) /\ c.state = Op(s).state /\ c.table = Op(s).table
        /\ Formed(o) /\ o.state = Op(s).state /\ o.table = Op(s).table
    BY <2>1
  <2>3. \/ Return(s, Error)
        \/ GotoWith(s, g, "drain", Top(s).kid)
        \/ GotoWith(s, c, "drain", Top(s).kid)
        \/ GotoWith(s, o, "drain", Top(s).kid)
    BY <1>5 DEF DrainRow
  <2> HIDE DEF g, c, o
  <2>4. QED
    BY <1>1, <1>3, <1>4, <2>2, <2>3, ReaderPassive DEF Return
<1>6. CASE DrainFailed(s)
  BY <1>1, <1>3, <1>4, <1>6, ReaderPassive DEF DrainFailed, Return
<1>7. CASE CloseDrained(s)
  BY <1>1, <1>3, <1>4, <1>7, ReaderPassive DEF CloseDrained
<1>8. CASE ChildDrained(s)
  <2> DEFINE o == [Op(s) EXCEPT !.left = Op(s).rows, !.rows = <<>>]
             p(x) == [Op(s) EXCEPT !.rows = x, !.left = <<>>, !.groups = <<>>]
             b == Buffered(s)
  <2>1. GotoWith(s, o, "drain", Top(s).kid + 1) \/ ReturnWith(s, p(b), Ok)
    BY <1>8 DEF ChildDrained
  <2>2. Formed(o) /\ o.state = Op(s).state /\ o.table = Op(s).table
    BY <1>4, FormedIs
  <2> HIDE DEF b
  <2>3. Formed(p(b)) /\ p(b).state = Op(s).state /\ p(b).table = Op(s).table
    BY <1>4, FormedIs
  <2> HIDE DEF o, p
  <2>4. QED
    BY <1>1, <1>3, <1>4, <2>1, <2>2, <2>3, ReaderPassive
<1>9. QED
  BY <1>5, <1>6, <1>7, <1>8

\* A panic, between no two steps of a definition, takes all the frames away.
LEMMA Panicking ==
  ASSUME LifeInv, NEW s \in Stmt, stack[s] # <<>>, Top(s).step \notin {"create", "storage"}, Panic(s)
  PROVE  Ended(s)' /\ \A n : At(s, n) \notin {"create", "storage"} /\ At(s, n)' = "out"
<1>1. stack'[s] = <<>> /\ pc'[s] = "panicked"
  BY DEF Panic, LifeInv
<1>2. \A n : At(s, n)' = "out"
  BY <1>1, StepNone DEF At
<1>3. ASSUME NEW n, At(s, n) \in {"create", "storage"} PROVE FALSE
  <2>1. Top(s).node = n
    BY <1>3, BusyTop DEF MethodAt
  <2>2. QED
    BY <1>3, <2>1, TopStep
<1>4. QED
  BY <1>1, <1>2, <1>3 DEF Ended

LEMMA WindowsPassive ==
  ASSUME LifeInv, TablesInv, NEW s \in Stmt, Alone(s), ComputeWindows(s)
  PROVE  Passive(s)
<1>1. UNCHANGED tables /\ stack[s] # <<>> /\ Node(s).kind = "window"
  BY DEF ComputeWindows, DrainedAll, In
<1>2. Node(s).kind \notin Changing
  BY <1>1 DEF Changing, Definitions
<1>3. Formed(Op(s))
  BY <1>1, OpFormed
<1>4. ASSUME NEW wide, pc' = pc, ReturnWith(s, [Op(s) EXCEPT !.rows = wide], Ok)
      PROVE  Passive(s)
  <2> DEFINE o == [Op(s) EXCEPT !.rows = wide]
  <2>1. Formed(o) /\ o.state = Op(s).state /\ o.table = Op(s).table
    BY <1>3, FormedIs
  <2>2. ReturnWith(s, o, Ok)
    BY <1>4
  <2> HIDE DEF o
  <2>3. QED
    BY <1>1, <1>2, <1>4, <2>1, <2>2, ReaderPassive
<1>5. CASE pc' = pc /\ ops' = ops /\ Goto(s, "abort", 1)
  BY <1>1, <1>2, <1>3, <1>5, ReaderPassive
<1>6. CASE Panic(s)
  <2>1. Top(s).step \notin {"create", "storage"} /\ AtWork(s) /\ ops' = ops
    BY <1>1, <1>6, TopTells, TopStep DEF Panic, Reaches, Definitions
  <2>2. Ended(s)' /\ \A n : At(s, n) \notin {"create", "storage"} /\ At(s, n)' = "out"
    BY <1>1, <1>6, <2>1, Panicking
  <2>3. QED
    BY <1>1, <2>1, <2>2, OpsKeptPassive
<1>7. QED
  <2>1. Computed(s, WindowColumns(Node(s).windows, Op(s).rows))
    BY DEF ComputeWindows
  <2>2. QED
    BY <1>4, <1>5, <1>6, <2>1 DEF Computed

\* Next, of an operator that reads.
LEMMA NextPassive ==
  ASSUME LifeInv, TablesInv, NEW s \in Stmt, Alone(s),
         NextBuffered(s) \/ NextStreaming(s) \/ PulledEnd(s) \/ PulledRow(s)
  PROVE  Passive(s)
<1>1. UNCHANGED tables /\ pc' = pc /\ stack[s] # <<>>
  BY DEF NextBuffered, NextStreaming, PulledEnd, PulledRow, Enters, In
<1>2. Node(s).kind \in Streaming \union Draining \union {"scan", "constant", "empty"}
  BY DEF NextBuffered, NextStreaming, PulledEnd, PulledRow, Enters
<1>3. Node(s).kind \notin Changing
  BY <1>2, ReadKinds
<1>4. Formed(Op(s))
  BY <1>1, OpFormed
<1>5. ASSUME NEW x
      PROVE  LET pos == [Op(s) EXCEPT !.pos = x]
                 count == [Op(s) EXCEPT !.count = x]
                 seen == [Op(s) EXCEPT !.seen = x]
             IN  /\ Formed(pos) /\ pos.state = Op(s).state /\ pos.table = Op(s).table
                 /\ Formed(count) /\ count.state = Op(s).state /\ count.table = Op(s).table
                 /\ Formed(seen) /\ seen.state = Op(s).state /\ seen.table = Op(s).table
  BY <1>4, FormedIs
<1> DEFINE t == reply[s].tuple
           p == [Op(s) EXCEPT !.pos = @ + 1]
           c == [Op(s) EXCEPT !.count = @ + 1]
           d == [Op(s) EXCEPT !.seen = @ \union {TupleKey(t)}]
<1>6. /\ Formed(p) /\ p.state = Op(s).state /\ p.table = Op(s).table
      /\ Formed(c) /\ c.state = Op(s).state /\ c.table = Op(s).table
      /\ Formed(d) /\ d.state = Op(s).state /\ d.table = Op(s).table
  BY <1>5
<1>7. CASE NextBuffered(s)
  <2>1. Return(s, Eof) \/ ReturnWith(s, p, Row(Op(s).rows[Op(s).pos + 1]))
    BY <1>7 DEF NextBuffered
  <2> HIDE DEF p
  <2>2. QED
    BY <1>1, <1>3, <1>4, <1>6, <2>1, ReaderPassive DEF Return
<1>8. CASE NextStreaming(s)
  BY <1>1, <1>3, <1>4, <1>8, ReaderPassive DEF NextStreaming, Return
<1>9. CASE PulledEnd(s)
  BY <1>1, <1>3, <1>4, <1>9, ReaderPassive DEF PulledEnd, Return
<1>10. CASE PulledRow(s)
  <2> DEFINE noted == CASE Node(s).kind = "distinct" -> d
                        [] Node(s).kind = "limit" -> IF Skipping(s) THEN p ELSE c
                        [] OTHER -> Op(s)
  <2>1. noted \in {p, c, d, Op(s)}
    OBVIOUS
  <2>2. Return(s, Error) \/ ReturnWith(s, noted, Row(Made(s, t))) \/ GotoWith(s, noted, "pull", 1)
    BY <1>10 DEF PulledRow
  <2> HIDE DEF noted, p, c, d, t
  <2>3. Formed(noted) /\ noted.state = Op(s).state /\ noted.table = Op(s).table
    BY <1>4, <1>6, <2>1
  <2>4. QED
    BY <1>1, <1>3, <1>4, <2>2, <2>3, ReaderPassive DEF Return
<1>11. QED
  BY <1>7, <1>8, <1>9, <1>10

\* A method goes on to another step that is between nothing, with its operator as it was.
LEMMA StepPassive ==
  ASSUME LifeInv, TablesInv, NEW s \in Stmt, Alone(s), UNCHANGED tables, pc' = pc, stack[s] # <<>>,
         Top(s).step \notin Busy, ops' = ops, NEW step, step \notin Busy, NEW kid, Goto(s, step, kid)
  PROVE  Passive(s)
<1>1. Steady(s, Op(s), step)
  BY DEF Steady, Busy
<1>2. GoingOn(s, Op(s), step, kid)
  BY OpFormed DEF GoingOn, Shapes
<1>3. QED
  BY <1>1, <1>2, GoesPassive

LEMMA ClosePassive ==
  ASSUME LifeInv, TablesInv, NEW s \in Stmt, Alone(s), Close(s) \/ ChildClosed(s)
  PROVE  Passive(s)
<1>1. UNCHANGED tables /\ pc' = pc /\ stack[s] # <<>> /\ Top(s).step \in {"enter", "close"}
  BY DEF Close, ChildClosed, In
<1>2. Formed(Op(s)) /\ Top(s).step \notin Busy
  BY <1>1, OpFormed DEF Busy
<1> DEFINE o == [Op(s) EXCEPT !.rows = <<>>]
           p == [Op(s) EXCEPT !.rows = <<>>, !.seen = {}]
<1>3. /\ Shapes(Op(s), o) /\ o.state = Op(s).state /\ o.table = Op(s).table
      /\ Shapes(Op(s), p) /\ p.state = Op(s).state /\ p.table = Op(s).table
  BY <1>2, FormedIs DEF Shapes
<1>4. \/ Goto(s, "close", 1) /\ ops' = ops
      \/ ReturnWith(s, o, Ok) \/ ReturnWith(s, p, Ok)
  BY DEF Close, ChildClosed
<1> HIDE DEF o, p
<1>5. CASE Goto(s, "close", 1) /\ ops' = ops
  BY <1>1, <1>2, <1>5, StepPassive DEF Busy
<1>6. ASSUME NEW op \in {o, p}, ReturnWith(s, op, Ok)
      PROVE  Passive(s)
  <2>1. Returning(s, op, Ok) /\ op.table = Op(s).table
    BY <1>1, <1>3, <1>6 DEF Returning
  <2>2. QED
    BY <1>1, <1>2, <2>1, ReturnsPassive DEF Busy
<1>7. QED
  BY <1>4, <1>5, <1>6

LEMMA FailedPassive ==
  ASSUME LifeInv, TablesInv, NEW s \in Stmt, Alone(s), ChildOpenFailed(s) \/ Aborted(s)
  PROVE  Passive(s)
<1>1. UNCHANGED tables /\ pc' = pc /\ stack[s] # <<>> /\ Top(s).step \in {"open", "abort"} /\ Return(s, Error)
  BY DEF ChildOpenFailed, Aborted, In
<1>2. QED
  BY <1>1, SamePassive

\* Every step of an operator that reads is passive.
LEMMA ReadStepPassive ==
  ASSUME LifeInv, LifeInv', TablesInv, NEW s \in Stmt, Alone(s), ReadStep(s)
  PROVE  Passive(s)
  BY CallChildPassive, OpenedPassive, DrainedPassive, WindowsPassive, NextPassive, ClosePassive, FailedPassive
  DEF ReadStep

-----------------------------------------------------------------------------
(* So are most steps of the operators that write, and those of Execute.      *)

\* They change no table.
QuietWrite(s) ==
  \/ OpenWriter(s) \/ SourceOpened(s) \/ NoMore(s) \/ HeapMissing(s) \/ InsertBegins(s)
  \/ OpenCreate(s) \/ CannotDefine(s) \/ SayDone(s)

\* That a writer has emitted its row changes nothing else of it.
LEMMA EmittingIs ==
  ASSUME NEW s, Formed(Op(s))
  PROVE  /\ Shapes(Op(s), Emitting(s)) /\ Emitting(s).state = Op(s).state
         /\ Emitting(s).table = Op(s).table /\ Emitting(s).heap = Op(s).heap
  BY FormedIs DEF Emitting, Shapes

LEMMA QuietWritePassive ==
  ASSUME LifeInv, TablesInv, NEW s \in Stmt, Alone(s), QuietWrite(s)
  PROVE  Passive(s)
<1>1. UNCHANGED tables /\ pc' = pc /\ stack[s] # <<>> /\ Top(s).step \in {"enter", "open"}
  BY DEF QuietWrite, OpenWriter, SourceOpened, NoMore, HeapMissing, InsertBegins, OpenCreate, CannotDefine,
         SayDone, Enters, In
<1>2. Formed(Op(s)) /\ Top(s).step \notin Busy
  BY <1>1, OpFormed DEF Busy
<1>3. CASE \E r : Return(s, r)
  BY <1>1, <1>3, SamePassive
<1>4. CASE ops' = ops /\ \E step \in {"open", "register"} : Goto(s, step, 1)
  <2>1. PICK step \in {"open", "register"} : Goto(s, step, 1)
    BY <1>4
  <2>2. step \notin Busy
    BY DEF Busy
  <2>3. QED
    BY <1>1, <1>2, <1>4, <2>1, <2>2, StepPassive
<1>5. CASE \E r : ReturnWith(s, Emitting(s), r)
  <2>1. PICK r : ReturnWith(s, Emitting(s), r)
    BY <1>5
  <2>2. Returning(s, Emitting(s), r) /\ Emitting(s).table = Op(s).table
    BY <1>1, <1>2, <2>1, EmittingIs DEF Returning
  <2>3. QED
    BY <1>1, <1>2, <2>2, ReturnsPassive DEF Busy
<1>6. CASE InsertBegins(s)
  <2> DEFINE t == Node(s).table
             op == [Emitting(s) EXCEPT !.heap = storage[t]]
             step == IF Node(s).kids = <<>> THEN "values" ELSE "pull"
             n == Top(s).node
  <2>1. /\ ops' = [ops EXCEPT ![s][Top(s).node] = op] /\ Goto(s, step, 1)
        /\ Node(s).kind = "insert" /\ t \in DOMAIN storage
    BY <1>6 DEF InsertBegins, GotoWith, Enters
  <2>2. Shapes(Op(s), op) /\ op.state = Op(s).state /\ op.table = Op(s).table /\ op.heap = storage[t]
    BY <1>2, EmittingIs, FormedIs DEF Shapes
  <2>3. step \in {"values", "pull"}
    OBVIOUS
  <2> HIDE DEF op, step
  <2>4. GoingOn(s, op, step, 1) /\ script' = script
    BY <1>1, <2>1, <2>2 DEF GoingOn, Alone
  <2>5. /\ AtWork(s) /\ AtWork(s)'
        /\ \A m : At(s, m)' = IF m = Top(s).node THEN step ELSE At(s, m)
        /\ ops'[s][n] = op /\ Shaped(s)
    BY <1>1, <2>4, WentOn
  <2>6. \A m \in DOMAIN ops[s] : m # n => ops'[s][m] = ops[s][m]
    BY <1>1, <2>4, WentOn
  <2>7. ASSUME NEW m \in DOMAIN script[s].nodes, The(s, m).kind \in Changing PROVE Held(s, m)
    <3>1. CASE m # n
      <4>1. m \in DOMAIN ops[s]
        BY <1>1, OpFormed
      <4>2. QED
        BY <2>4, <2>5, <2>6, <3>1, <4>1, HeldSame
    <3>2. CASE m = n
      <4>1. At(s, m) = Top(s).step /\ Op(s) = ops[s][m] /\ The(s, m) = Node(s)
        BY <1>1, <3>2, TopStep
      <4>2. Registries
        BY DEF TablesInv
      <4>3. HoldsHeap(The(s, m), op.heap)
        BY <2>1, <2>2, <4>1, <4>2 DEF HoldsHeap, Registries
      <4>4. ~Midway(s, m) /\ ~Midway(s, m)'
        BY <1>1, <2>3, <2>5, <3>2, <4>1 DEF Midway
      <4>5. Untried(ops[s][m], At(s, m))' => Untried(ops[s][m], At(s, m))
        BY <1>1, <2>2, <2>5, <3>2, <4>1 DEF Untried
      <4>6. QED
        BY <2>1, <2>2, <2>3, <2>5, <3>2, <4>1, <4>3, <4>4, <4>5 DEF Held
    <3>3. QED
      BY <3>1, <3>2
  <2>8. QED
    BY <1>1, <2>5, <2>7, ReadPassive
<1>7. QED
  BY <1>3, <1>4, <1>5, <1>6
  DEF QuietWrite, OpenWriter, SourceOpened, NoMore, HeapMissing, OpenCreate, CannotDefine, SayDone

LEMMA ExecutePassive ==
  ASSUME LifeInv, TablesInv, NEW s \in Stmt, Alone(s), OpenFailed(s) \/ Pull(s) \/ Finish(s) \/ Finished(s)
  PROVE  Passive(s)
<1>1. UNCHANGED tables /\ ops' = ops /\ stack[s] = <<>> /\ pc[s] \in DOMAIN Calls
  <2>1. UNCHANGED tables /\ ops' = ops /\ stack[s] = <<>>
    BY DEF OpenFailed, Pull, Finish, Finished, AtRoot
  <2>2. pc[s] \in {"opening", "pulling"} \union DOMAIN Verdict
    BY DEF OpenFailed, Pull, Finish, Finished, AtRoot
  <2>3. DOMAIN Verdict = {"answering", "failing", "expiring"}
    BY DEF Verdict
  <2>4. QED
    BY <2>1, <2>2, <2>3, CallsMade
<1>2. AtWork(s) /\ \A n : At(s, n) = "out"
  BY <1>1, Working, StepNone DEF At
<1>3. \A n : At(s, n)' \in {"out", "enter"}
  <2>1. stack' = stack \/ \E method : stack'[s] = Called(stack[s], 1, method)
    BY DEF OpenFailed, Pull, Finish, Finished, Call, LifeInv
  <2>2. CASE stack' = stack
    BY <1>2, <2>2 DEF At
  <2>3. CASE \E method : stack'[s] = Called(stack[s], 1, method)
    <3>1. PICK method : stack'[s] = Called(stack[s], 1, method)
      BY <2>3
    <3> DEFINE f == [node |-> 1, method |-> method, step |-> "enter", kid |-> 1]
    <3>2. stack'[s] = <<f>> \o <<>>
      BY <1>1, <3>1 DEF Called
    <3>3. f.step = "enter"
      OBVIOUS
    <3> HIDE DEF f
    <3>4. Len(stack'[s]) = 1 /\ stack'[s][1] = f
      BY <3>2
    <3>5. ASSUME NEW n PROVE StepIn(stack'[s], n) \in {"out", "enter"}
      <4> DEFINE at == {i \in 1 .. Len(stack'[s]) : stack'[s][i].node = n}
      <4>1. \A i \in at : stack'[s][i].step = "enter"
        BY <3>3, <3>4
      <4>2. CASE at = {}
        BY <4>2 DEF StepIn
      <4>3. CASE at # {}
        <5>1. (CHOOSE i \in at : TRUE) \in at
          BY <4>3
        <5>2. QED
          BY <4>1, <4>3, <5>1 DEF StepIn
      <4>4. QED
        BY <4>2, <4>3
    <3>6. QED
      BY <3>5 DEF At
  <2>4. QED
    BY <2>1, <2>2, <2>3
<1>4. QED
  BY <1>1, <1>2, <1>3, OpsKeptPassive

-----------------------------------------------------------------------------
(* Rows are inserted, updated and deleted.                                   *)

\* buildRow gives a row as wide as the table (insert.go).
LEMMA RowBuilt ==
  ASSUME NEW cols, NEW tableCols, IsList(tableCols), NEW vals
  PROVE  IsList(BuildRow(cols, tableCols, vals)) /\ Len(BuildRow(cols, tableCols, vals)) = Len(tableCols)
<1>1. BuildRow(cols, tableCols, vals) = [j \in DOMAIN tableCols |-> BuildRow(cols, tableCols, vals)[j]]
  BY DEF BuildRow
<1>2. QED
  BY <1>1, ListMapped

\* An INSERT, or a CREATE TABLE AS that fills its table, appends a row as wide as the table.
LEMMA RowAdded ==
  ASSUME LifeInv, TablesInv, NEW s \in Stmt, Alone(s), UNCHANGED <<catalog, columns, storage>>,
         stack[s] # <<>>,
         \/ Node(s).kind = "insert" /\ Top(s).step \in {"values", "pull"}
         \/ Node(s).kind = "create" /\ Top(s).step = "pull",
         NEW row, IsList(row), Len(row) = Len(columns[Op(s).table]),
         heap' = [heap EXCEPT ![Op(s).heap] = Append(@, row)],
         Shaped(s), \A n \in DOMAIN script[s].nodes : The(s, n).kind \in Changing => Held(s, n)
  PROVE  Passive(s)
<1> DEFINE n == Top(s).node
           h == Op(s).heap
           e == Op(s).table
<1>1. /\ AtWork(s) /\ n \in DOMAIN script[s].nodes /\ At(s, n) = Top(s).step
      /\ Node(s) = The(s, n) /\ Op(s) = ops[s][n]
  BY TopStep DEF Plan
<1>2. Registries /\ Slices
  BY DEF TablesInv
<1>3. /\ e \in DOMAIN columns /\ h \in DOMAIN heap
      /\ \A u \in DOMAIN storage : storage[u] = h => u = Node(s).table
      /\ Works(s, n, {"insert"}) \/ (Works(s, n, {"create"}) /\ At(s, n) = "pull")
  <2>1. CASE Node(s).kind = "insert" /\ Top(s).step \in {"values", "pull"}
    <3>1. Works(s, n, {"insert"})
      BY <1>1, <2>1 DEF Works
    <3>2. Holds(The(s, n), ops[s][n].table) /\ HoldsHeap(The(s, n), ops[s][n].heap)
      BY <1>1, <2>1, <3>1 DEF TablesInv, InsertsInv
    <3>3. QED
      BY <1>1, <3>1, <3>2 DEF Holds, HoldsHeap
  <2>2. CASE Node(s).kind = "create" /\ Top(s).step = "pull"
    <3>1. Enlisted(The(s, n), Op(s), s) /\ Backed(The(s, n), s) /\ h = s
      BY <1>1, <2>2 DEF TablesInv, CreatesInv, Creating
    <3>2. Works(s, n, {"create"}) /\ At(s, n) = "pull"
      BY <1>1, <2>2 DEF Works
    <3>3. QED
      BY <1>1, <1>2, <3>1, <3>2 DEF Enlisted, Backed, Registries
  <2>3. QED
    BY <2>1, <2>2
<1>4. IsList(row) /\ Len(row) = Len(columns[e])
  OBVIOUS
<1>5. /\ DOMAIN heap' = DOMAIN heap /\ heap'[h] = Append(heap[h], row)
      /\ \A k \in DOMAIN heap : k # h => heap'[k] = heap[k]
  BY <1>3
<1>6. IsList(heap[h]) /\ \A i \in DOMAIN heap[h] : IsList(heap[h][i])
  BY <1>2, <1>3 DEF Slices
<1>7. /\ IsList(heap'[h]) /\ \A i \in DOMAIN heap'[h] : IsList(heap'[h][i])
      /\ Wide(heap[h], Len(columns[e])) => Wide(heap'[h], Len(columns[e]))
  <2>1. /\ IsList(heap'[h])
        /\ \A i \in DOMAIN heap'[h] : \/ i \in DOMAIN heap[h] /\ heap'[h][i] = heap[h][i]
                                      \/ heap'[h][i] = row
    BY <1>5, <1>6, ListAppend
  <2>2. QED
    BY <1>4, <1>6, <2>1 DEF Wide
<1>8. Slices'
  <2>1. \A k \in DOMAIN heap' : IsList(heap'[k]) /\ \A i \in DOMAIN heap'[k] : IsList(heap'[k][i])
    BY <1>2, <1>5, <1>7 DEF Slices
  <2>2. \A c \in DOMAIN columns' : IsList(columns'[c])
    BY <1>2 DEF Slices
  <2>3. QED
    BY <1>1, <2>1, <2>2, SlicesMade
<1>9. ASSUME NEW u \in DOMAIN storage
      PROVE  Adds(s, u) \/ \A w : Wide(heap[storage[u]], w) => Wide(heap'[storage[u]], w)
  <2>1. CASE storage[u] = h
    BY <1>1, <1>3, <1>7, <2>1 DEF Adds
  <2>2. CASE storage[u] # h
    BY <1>2, <1>5, <2>2 DEF Registries
  <2>3. QED
    BY <2>1, <2>2
<1>10. QED
  BY <1>1, <1>5, <1>8, <1>9 DEF Passive

\* A row of an INSERT or of the SELECT of a CREATE TABLE AS is taken.
LEMMA AddingPassive ==
  ASSUME LifeInv, TablesInv, NEW s \in Stmt, Alone(s), UNCHANGED <<catalog, columns, storage>>, pc' = pc,
         stack[s] # <<>>,
         \/ Node(s).kind = "insert" /\ Top(s).step \in {"values", "pull"}
         \/ Node(s).kind = "create" /\ Top(s).step = "pull",
         NEW row, IsList(row), Len(row) = Len(columns[Op(s).table]),
         heap' = [heap EXCEPT ![Op(s).heap] = Append(@, row)],
         NEW op, NEW kid, GoingOn(s, op, Top(s).step, kid), op.table = Op(s).table, op.heap = Op(s).heap,
         Node(s).kind = "create" => op.count = Op(s).count
  PROVE  Passive(s)
<1>1. script' = script
  BY DEF Alone
<1>2. Steady(s, op, Top(s).step)
  BY DEF Steady
<1>3. \A n \in DOMAIN script[s].nodes : The(s, n).kind \in Changing => Held(s, n)
  BY <1>1, <1>2, WentOnHeld
<1>4. Shaped(s)
  BY <1>1, WentOn
<1>5. QED
  BY <1>3, <1>4, RowAdded

LEMMA InsertPassive ==
  ASSUME LifeInv, TablesInv, NEW s \in Stmt, Alone(s), InsertNextValues(s) \/ InsertPulled(s)
  PROVE  Passive(s)
<1>1. /\ UNCHANGED <<catalog, columns, storage>> /\ pc' = pc /\ stack[s] # <<>>
      /\ Top(s).step \in {"values", "pull"} /\ Top(s).method = "next"
  BY DEF InsertNextValues, InsertPulled, In
<1>2. \/ (\E r : Return(s, r)) /\ UNCHANGED heap
      \/ \E vals, kid : InsertOne(s, vals) /\ GotoWith(s, Counting(s), Top(s).step, kid)
  <2>1. CASE InsertNextValues(s)
    BY <1>1, <2>1 DEF InsertNextValues, In
  <2>2. CASE InsertPulled(s)
    BY <1>1, <2>2 DEF InsertPulled, In
  <2>3. QED
    BY <2>1, <2>2
<1>3. Node(s).kind = "insert"
  <2>1. InFrame(Plan(s), ops[s], Top(s), reply[s].kind)
    BY <1>1, TopFrame
  <2>2. CASE InsertPulled(s)
    BY <2>2 DEF InsertPulled
  <2>3. CASE InsertNextValues(s)
    <3>1. Top(s).step = "values"
      BY <2>3 DEF InsertNextValues, In
    <3>2. QED
      BY <1>1, <2>1, <3>1, TopStep DEF InFrame, Reaches, The, Plan
  <2>4. QED
    BY <2>2, <2>3
<1>4. CASE (\E r : Return(s, r)) /\ UNCHANGED heap
  <2>1. UNCHANGED tables
    BY <1>1, <1>4 DEF tables
  <2>2. QED
    BY <1>1, <1>4, <2>1, SamePassive
<1>5. CASE \E vals, kid : InsertOne(s, vals) /\ GotoWith(s, Counting(s), Top(s).step, kid)
  <2>1. PICK vals, kid : InsertOne(s, vals) /\ GotoWith(s, Counting(s), Top(s).step, kid)
    BY <1>5
  <2>2. Formed(Op(s))
    BY <1>1, OpFormed
  <2>3. /\ Shapes(Op(s), Counting(s)) /\ Counting(s).state = Op(s).state
        /\ Counting(s).table = Op(s).table /\ Counting(s).heap = Op(s).heap
    BY <2>2, FormedIs DEF Counting, Shapes
  <2>4. GoingOn(s, Counting(s), Top(s).step, kid)
    BY <1>1, <2>1, <2>3 DEF GoingOn, GotoWith
  <2> DEFINE row == BuildRow(Node(s).cols, columns[Op(s).table], vals)
  <2>5. heap' = [heap EXCEPT ![Op(s).heap] = Append(@, row)]
    BY <2>1 DEF InsertOne
  <2>6. IsList(columns[Op(s).table])
    <3>1. Works(s, Top(s).node, {"insert"}) /\ Op(s) = ops[s][Top(s).node]
      BY <1>1, <1>3, TopStep DEF Works, Plan
    <3>2. Op(s).table \in DOMAIN columns
      BY <3>1 DEF TablesInv, InsertsInv, Holds, Works
    <3>3. QED
      BY <3>2 DEF TablesInv, Slices
  <2>7. IsList(row) /\ Len(row) = Len(columns[Op(s).table])
    BY <2>6, RowBuilt
  <2> HIDE DEF row
  <2>8. QED
    BY <1>1, <1>3, <2>3, <2>4, <2>5, <2>7, AddingPassive
<1>6. QED
  BY <1>2, <1>4, <1>5

LEMMA FillPassive ==
  ASSUME LifeInv, TablesInv, NEW s \in Stmt, Alone(s), Fill(s)
  PROVE  Passive(s)
<1>1. /\ UNCHANGED <<catalog, columns, storage>> /\ pc' = pc /\ stack[s] # <<>>
      /\ Top(s).step = "pull" /\ Top(s).method = "open"
  BY DEF Fill, In
<1>2. CASE (\E r : Return(s, r)) /\ UNCHANGED heap
  <2>1. UNCHANGED tables
    BY <1>1, <1>2 DEF tables
  <2>2. QED
    BY <1>1, <1>2, <2>1, SamePassive
<1>3. CASE /\ heap' = [heap EXCEPT ![Op(s).heap] =
                         Append(@, FillRow(s, reply[s].tuple.row))]
           /\ Goto(s, "pull", 1) /\ UNCHANGED ops
  <2>1. InFrame(Plan(s), ops[s], Top(s), reply[s].kind)
    BY <1>1, TopFrame
  <2>2. Node(s).kind = "create"
    BY <1>1, <2>1, TopStep DEF InFrame, Reaches, The, Plan
  <2>3. GoingOn(s, Op(s), Top(s).step, 1)
    BY <1>1, <1>3, OpFormed DEF GoingOn, Shapes
  <2> DEFINE row == FillRow(s, reply[s].tuple.row)
             n == Top(s).node
  <2>4. /\ AtWork(s) /\ n \in DOMAIN script[s].nodes /\ At(s, n) = "pull"
        /\ Node(s) = The(s, n) /\ Op(s) = ops[s][n]
    BY <1>1, TopStep DEF Plan
  <2>5. Op(s).count = Len(columns[s]) /\ Op(s).table = s
    BY <2>2, <2>4 DEF TablesInv, CreatesInv, Creating, Enlisted
  <2>6. Len(columns[s]) \in Nat
    <3>1. s \in DOMAIN columns
      BY <2>2, <2>4 DEF TablesInv, CreatesInv, Creating, Enlisted, Registries
    <3>2. QED
      BY <3>1, ListIs DEF TablesInv, Slices
  <2>7. IsList(row) /\ Len(row) = Len(columns[Op(s).table])
    <3>1. row = [i \in 1 .. Len(columns[s]) |-> row[i]]
      BY <2>5 DEF FillRow
    <3> HIDE DEF row
    <3>2. QED
      BY <2>5, <2>6, <3>1, ListMade
  <2> HIDE DEF row
  <2>8. heap' = [heap EXCEPT ![Op(s).heap] = Append(@, row)]
    BY <1>3 DEF row
  <2>9. QED
    BY <1>1, <2>2, <2>3, <2>7, <2>8, AddingPassive
<1>4. QED
  BY <1>2, <1>3 DEF Fill

\* The rows of one heap become others that are as wide.
LEMMA RowsPassive ==
  ASSUME LifeInv, TablesInv, NEW s \in Stmt, Alone(s), AtWork(s), UNCHANGED <<catalog, columns, storage>>,
         Shaped(s), \A n \in DOMAIN script[s].nodes : The(s, n).kind \in Changing => Held(s, n),
         NEW h \in DOMAIN heap, NEW rows, heap' = [heap EXCEPT ![h] = rows],
         IsList(rows), \A i \in DOMAIN rows : IsList(rows[i]) /\ \E j \in DOMAIN heap[h] : Len(rows[i]) = Len(heap[h][j])
  PROVE  Passive(s)
<1>1. DOMAIN heap' = DOMAIN heap /\ heap'[h] = rows /\ \A k \in DOMAIN heap : k # h => heap'[k] = heap[k]
  OBVIOUS
<1>2. Slices /\ Registries
  BY DEF TablesInv
<1>3. Slices'
  <2>1. \A k \in DOMAIN heap' : IsList(heap'[k]) /\ \A i \in DOMAIN heap'[k] : IsList(heap'[k][i])
    BY <1>1, <1>2 DEF Slices
  <2>2. \A c \in DOMAIN columns' : IsList(columns'[c])
    BY <1>2 DEF Slices
  <2>3. QED
    BY <2>1, <2>2, SlicesMade
<1>4. ASSUME NEW k \in DOMAIN heap, NEW w, Wide(heap[k], w) PROVE Wide(heap'[k], w)
  BY <1>1, <1>4 DEF Wide
<1>5. \A u \in DOMAIN storage : \A w : Wide(heap[storage[u]], w) => Wide(heap'[storage[u]], w)
  BY <1>2, <1>4 DEF Registries
<1>6. QED
  BY <1>1, <1>3, <1>5 DEF Passive

\* UPDATE and DELETE leave everything but the rows of one heap alone.
LEMMA WritingIs ==
  ASSUME LifeInv, TablesInv, NEW s \in Stmt, NEW kind \in {"update", "delete"}, Writing(s, kind), Alone(s),
         NEW failed, Report(s, failed), pc' = pc
  PROVE  /\ AtWork(s) /\ Shaped(s) /\ \A n \in DOMAIN script[s].nodes : The(s, n).kind \in Changing => Held(s, n)
         /\ storage[Node(s).table] \in DOMAIN heap
         /\ IsList(Target(s)) /\ \A i \in DOMAIN Target(s) : IsList(Target(s)[i])
<1>1. stack[s] # <<>> /\ Node(s).kind \notin Changing /\ script' = script
  BY DEF Writing, Enters, In, Changing, Definitions, Alone
<1>2. PICK r : ReturnWith(s, Emitting(s), r)
  BY DEF Report
<1>3. Formed(Op(s))
  BY <1>1, OpFormed
<1>4. Returning(s, Emitting(s), r)
  BY <1>1, <1>2, <1>3, EmittingIs DEF Returning
<1>5. AtWork(s) /\ Shaped(s)
  BY <1>1, <1>4, Returned
<1>6. \A n \in DOMAIN script[s].nodes : The(s, n).kind \in Changing => Held(s, n)
  BY <1>1, <1>4, ReturnedHeld
<1>7. storage[Node(s).table] \in DOMAIN heap /\ Slices
  BY DEF TablesInv, Registries, Writing
<1>8. QED
  BY <1>5, <1>6, <1>7 DEF Slices, Target

\* An UPDATE keeps the width of each row, and a DELETE takes some of the rows.
LEMMA UpdatePassive ==
  ASSUME LifeInv, TablesInv, NEW s \in Stmt, Alone(s), UpdateRows(s)
  PROVE  Passive(s)
<1> DEFINE old == Target(s)
           panicking == {i \in Matching(s) : Panics(s, old[i])}
           done == {i \in Matching(s) : panicking = {} \/ i < First(panicking)}
           rows == [i \in DOMAIN old |-> IF i \in done THEN Updated(s, old[i]) ELSE old[i]]
           h == storage[Node(s).table]
<1>1. /\ heap' = [heap EXCEPT ![h] = rows] /\ Writing(s, "update")
      /\ Panic(s) \/ (pc' = pc /\ \E failed : Report(s, failed))
      /\ UNCHANGED <<catalog, columns, storage>>
  BY DEF UpdateRows
<1> HIDE DEF done
<1>2. /\ AtWork(s) /\ Shaped(s) /\ \A n \in DOMAIN script[s].nodes : The(s, n).kind \in Changing => Held(s, n)
      /\ h \in DOMAIN heap /\ IsList(old) /\ \A i \in DOMAIN old : IsList(old[i])
  <2>1. CASE pc' = pc /\ \E failed : Report(s, failed)
    BY <1>1, <2>1, WritingIs
  <2>2. CASE Panic(s)
    <3>1. /\ stack[s] # <<>> /\ Top(s).step = "enter" /\ script' = script /\ ops' = ops
          /\ h \in DOMAIN heap
      BY <1>1, <2>2 DEF Writing, Enters, In, Alone, Panic, TablesInv, Registries
    <3>2. Ended(s)' /\ \A n : At(s, n) \notin {"create", "storage"} /\ At(s, n)' = "out"
      BY <2>2, <3>1, Panicking
    <3>3. AtWork(s)
      BY <3>1, TopStep
    <3>4. \A n \in DOMAIN script[s].nodes : Held(s, n)
      BY <3>1, <3>2, <3>3, HeldAway DEF Busy
    <3>5. Shaped(s)
      BY <3>1 DEF TablesInv, Slices, Formed, Shaped, Shapes
    <3>6. QED
      BY <3>1, <3>3, <3>4, <3>5 DEF TablesInv, Slices, Target
  <2>3. QED
    BY <1>1, <2>1, <2>2
<1>3. ASSUME NEW row, IsList(row) PROVE IsList(Updated(s, row)) /\ Len(Updated(s, row)) = Len(row)
  <2>1. CASE Stops(s, row) # {}
    BY <1>3, <2>1 DEF Updated
  <2>2. CASE Stops(s, row) = {}
    <3>1. Updated(s, row) = [i \in DOMAIN row |-> Updated(s, row)[i]]
      BY <2>2 DEF Updated
    <3>2. QED
      BY <1>3, <3>1, ListMapped
  <2>3. QED
    BY <2>1, <2>2
<1>4. rows = [i \in DOMAIN old |-> rows[i]] /\ DOMAIN rows = DOMAIN old
  OBVIOUS
<1>5. IsList(rows)
  <2> HIDE DEF rows, old
  <2>1. QED
    BY <1>2, <1>4, ListMapped
<1>6. \A i \in DOMAIN rows : IsList(rows[i]) /\ Len(rows[i]) = Len(old[i]) /\ i \in DOMAIN old /\ old = heap[h]
  BY <1>2, <1>3 DEF Target
<1> HIDE DEF rows, old, h
<1>7. \A i \in DOMAIN rows : IsList(rows[i]) /\ \E j \in DOMAIN heap[h] : Len(rows[i]) = Len(heap[h][j])
  BY <1>6
<1>8. QED
  BY <1>1, <1>2, <1>5, <1>7, RowsPassive

LEMMA DeletePassive ==
  ASSUME LifeInv, TablesInv, NEW s \in Stmt, Alone(s), DeleteRows(s)
  PROVE  Passive(s)
<1> DEFINE old == Target(s)
           kept == DOMAIN old \ Matching(s)
           rows == Pick(old, kept)
           h == storage[Node(s).table]
<1>1. /\ heap' = [heap EXCEPT ![h] = rows] /\ Writing(s, "delete") /\ \E failed : Report(s, failed)
      /\ UNCHANGED <<catalog, columns, storage>> /\ pc' = pc
  BY DEF DeleteRows
<1>2. /\ AtWork(s) /\ Shaped(s) /\ \A n \in DOMAIN script[s].nodes : The(s, n).kind \in Changing => Held(s, n)
      /\ h \in DOMAIN heap /\ IsList(old) /\ \A i \in DOMAIN old : IsList(old[i]) /\ old = heap[h]
  BY <1>1, WritingIs DEF Target
<1> HIDE DEF old, kept
<1>3. IsList(rows) /\ \A k \in DOMAIN rows : \E i \in DOMAIN old : rows[k] = old[i]
  BY <1>2, Picked
<1> HIDE DEF rows, h
<1>4. \A i \in DOMAIN rows : IsList(rows[i]) /\ \E j \in DOMAIN heap[h] : Len(rows[i]) = Len(heap[h][j])
  BY <1>2, <1>3
<1>5. QED
  BY <1>1, <1>2, <1>3, <1>4, RowsPassive

\* CREATE TABLE finds that the table is there.
LEMMA RegisterFails ==
  ASSUME LifeInv, TablesInv, NEW s \in Stmt, Alone(s), Register(s), Node(s).table \in DOMAIN catalog
  PROVE  Passive(s)
<1>1. /\ UNCHANGED tables /\ pc' = pc /\ stack[s] # <<>> /\ Top(s).step = "register" /\ Return(s, Error)
  BY DEF Register, In, tables
<1>2. QED
  BY <1>1, SamePassive

-----------------------------------------------------------------------------
(* Definitions change the registries at their own names only.                *)

\* A registry and what it names become new ones: names other than N name what they
\* did, and those of N the object of s, which is new, or something N has named.
Local(N, map, data, newMap, newData, s) ==
  /\ DOMAIN data \subseteq DOMAIN newData /\ DOMAIN newData \subseteq DOMAIN data \union {s}
  /\ \A e \in DOMAIN data : newData[e] = data[e] \/ \E t \in N \intersect DOMAIN map : map[t] = e
  /\ \A t : t \notin N => (t \in DOMAIN newMap <=> t \in DOMAIN map) /\ (t \in DOMAIN map => newMap[t] = map[t])
  /\ \A t \in N \intersect DOMAIN newMap :
       \/ newMap[t] = s /\ s \in DOMAIN newData \ DOMAIN data
       \/ \E v \in N \intersect DOMAIN map : newMap[t] = map[v]
  /\ \A t, u \in N \intersect DOMAIN newMap : newMap[t] = newMap[u] => t = u

\* A registry: every name has an object of its own.
Registry(map, data) ==
  /\ \A t \in DOMAIN map : map[t] \in DOMAIN data
  /\ \A t, u \in DOMAIN map : map[t] = map[u] => t = u

Restricts(map, new) == \A t \in DOMAIN new : t \in DOMAIN map /\ new[t] = map[t]

\* A registry changed at some names only still gives no two names one table.
LEMMA LocalRegistry ==
  ASSUME NEW N, NEW map, NEW data, NEW newMap, NEW newData, NEW s,
         Registry(map, data), Local(N, map, data, newMap, newData, s)
  PROVE  Registry(newMap, newData)
<1>1. ASSUME NEW t \in DOMAIN newMap
      PROVE  newMap[t] \in DOMAIN newData
  BY DEF Local, Registry
<1>2. ASSUME NEW t \in DOMAIN newMap, NEW u \in DOMAIN newMap, newMap[t] = newMap[u], t \in N, u \notin N
      PROVE  FALSE
  <2>1. u \in DOMAIN map /\ newMap[u] = map[u] /\ map[u] \in DOMAIN data
    BY <1>2 DEF Local, Registry
  <2>2. \E v \in N \intersect DOMAIN map : newMap[t] = map[v]
    BY <1>2, <2>1 DEF Local
  <2>3. QED
    BY <1>2, <2>1, <2>2 DEF Registry
<1>3. ASSUME NEW t \in DOMAIN newMap, NEW u \in DOMAIN newMap, newMap[t] = newMap[u]
      PROVE  t = u
  <2>1. CASE t \in N /\ u \in N
    BY <1>3, <2>1 DEF Local
  <2>2. CASE t \notin N /\ u \notin N
    BY <1>3, <2>2 DEF Local, Registry
  <2>3. QED
    BY <1>2, <1>3, <2>1, <2>2
<1>4. QED
  BY <1>1, <1>3 DEF Registry

\* What another name names is as it was.
LEMMA LocalElsewhere ==
  ASSUME NEW N, NEW map, NEW data, NEW newMap, NEW newData, NEW s,
         Registry(map, data), Local(N, map, data, newMap, newData, s), NEW t, t \notin N
  PROVE  /\ t \in DOMAIN newMap <=> t \in DOMAIN map
         /\ t \in DOMAIN map => newMap[t] = map[t] /\ newData[newMap[t]] = data[map[t]]
<1>1. (t \in DOMAIN newMap <=> t \in DOMAIN map) /\ (t \in DOMAIN map => newMap[t] = map[t])
  BY DEF Local
<1>2. ASSUME t \in DOMAIN map PROVE newData[map[t]] = data[map[t]]
  <2>1. map[t] \in DOMAIN data
    BY <1>2 DEF Registry
  <2>2. ~\E v \in N \intersect DOMAIN map : map[v] = map[t]
    BY <1>2 DEF Registry
  <2>3. QED
    BY <2>1, <2>2 DEF Local
<1>3. QED
  BY <1>1, <1>2

\* What only another name u can name, no other comes to name.
LEMMA LocalOwned ==
  ASSUME NEW N, NEW map, NEW data, NEW newMap, NEW newData, NEW s,
         Registry(map, data), Local(N, map, data, newMap, newData, s),
         NEW e \in DOMAIN data, NEW u, u \notin N, \A t \in DOMAIN map : map[t] = e => t = u
  PROVE  newData[e] = data[e] /\ \A t \in DOMAIN newMap : newMap[t] = e => t = u
<1>1. newData[e] = data[e]
  <2>1. ~\E v \in N \intersect DOMAIN map : map[v] = e
    OBVIOUS
  <2>2. QED
    BY <2>1 DEF Local
<1>2. ASSUME NEW t \in DOMAIN newMap, newMap[t] = e PROVE t = u
  <2>1. CASE t \in N
    <3>1. \E v \in N \intersect DOMAIN map : map[v] = e
      BY <1>2, <2>1 DEF Local
    <3>2. QED
      BY <3>1
  <2>2. CASE t \notin N
    BY <1>2, <2>2 DEF Local
  <2>3. QED
    BY <2>1, <2>2
<1>3. QED
  BY <1>1, <1>2

\* Ways to change a registry locally: not at all, with a new name for a new table, without
\* a name, under another name, and in the table that a name has.
LEMMA LocalSame ==
  ASSUME NEW N, NEW map, NEW data, NEW s, Registry(map, data)
  PROVE  Local(N, map, data, map, data, s)
  BY DEF Local, Registry

LEMMA LocalWith ==
  ASSUME NEW N, NEW map, NEW data, NEW s, Registry(map, data), NEW k \in N, k \notin DOMAIN map,
         s \notin DOMAIN data, NEW x
  PROVE  Local(N, map, data, With(map, k, s), With(data, s, x), s)
<1>1. DOMAIN With(map, k, s) = DOMAIN map \union {k} /\ DOMAIN With(data, s, x) = DOMAIN data \union {s}
  BY DEF With
<1>2. With(map, k, s)[k] = s /\ \A t \in DOMAIN map : With(map, k, s)[t] = map[t]
  BY DEF With
<1>3. \A e \in DOMAIN data : With(data, s, x)[e] = data[e]
  BY DEF With
<1>4. QED
  BY <1>1, <1>2, <1>3 DEF Local, Registry

LEMMA LocalWithout ==
  ASSUME NEW N, NEW map, NEW data, NEW s, Registry(map, data), NEW k \in N
  PROVE  /\ Local(N, map, data, Without(map, k), data, s)
         /\ Restricts(map, Without(map, k)) /\ k \notin DOMAIN Without(map, k)
<1>1. DOMAIN Without(map, k) = DOMAIN map \ {k} /\ \A t \in DOMAIN map \ {k} : Without(map, k)[t] = map[t]
  BY DEF Without
<1>2. QED
  BY <1>1 DEF Local, Registry, Restricts

LEMMA LocalRenamed ==
  ASSUME NEW N, NEW map, NEW data, NEW s, Registry(map, data), NEW k \in N, NEW new \in N,
         k \in DOMAIN map, new \notin DOMAIN map, NEW renamed, renamed = Without(With(map, new, map[k]), k)
  PROVE  Local(N, map, data, renamed, data, s)
<1>1. /\ DOMAIN renamed = (DOMAIN map \union {new}) \ {k} /\ renamed[new] = map[k]
      /\ \A t \in DOMAIN map \ {k} : renamed[t] = map[t]
  BY DEF Without, With
<1>2. \A t \in DOMAIN renamed : \E v \in DOMAIN map : renamed[t] = map[v] /\ (t = v \/ (t = new /\ v = k))
  BY <1>1
<1>3. Local(N, map, data, renamed, data, s)
  BY <1>1, <1>2 DEF Local, Registry
<1>4. QED
  BY <1>1, <1>3

LEMMA LocalData ==
  ASSUME NEW N, NEW map, NEW data, NEW s, Registry(map, data), NEW k \in N, k \in DOMAIN map, NEW x
  PROVE  Local(N, map, data, map, [data EXCEPT ![map[k]] = x], s)
<1>1. \A e \in DOMAIN data : [data EXCEPT ![map[k]] = x][e] = data[e] \/ map[k] = e
  OBVIOUS
<1>2. QED
  BY <1>1 DEF Local, Registry

\* What the step of a definition leaves of its own names.
Owns(s, n) ==
  /\ Midway(s, n) => HalfDone(The(s, n), ops[s][n], s)
  /\ Midway(s, n) \/ \A t \in NamesOf(The(s, n)) : Coherent(t)
  /\ The(s, n).kind = "create" => Creating(s, n)

Redefines(s, n) ==
  /\ Works(s, n, Definitions)
  /\ Local(NamesOf(The(s, n)), catalog, columns, catalog', columns', s)
  /\ Local(NamesOf(The(s, n)), storage, heap, storage', heap', s)
  /\ The(s, n).kind = "drop" =>
       Restricts(catalog, catalog') /\ Restricts(storage, storage') /\ UNCHANGED <<columns, heap>>
  /\ Owns(s, n)'
  /\ Slices'

\* A definition shares no name with another one or with an INSERT; a DROP TABLE may
\* with another DROP TABLE and with an INSERT.
LEMMA DefinesApart ==
  ASSUME LifeInv, Apart, NEW s \in Stmt, NEW n \in DOMAIN script[s].nodes, Works(s, n, Definitions),
         NEW r \in Stmt, r # s, NEW m \in DOMAIN script[r].nodes,
         Works(r, m, Definitions \union {"insert"}),
         The(s, n).kind = "drop" => The(r, m).kind \notin {"drop", "insert"}
  PROVE  NamesOf(The(s, n)) \intersect NamesOf(The(r, m)) = {}
<1>1. AtWork(s) /\ AtWork(r) /\ The(s, n).kind \in Definitions
  BY DEF Works
<1>2. ~Meet(The(s, n), The(r, m))
  BY <1>1 DEF Apart, The
<1>3. The(r, m).kind \in Definitions \union {"insert"}
  BY DEF Works
<1>4. QED
  BY <1>1, <1>2, <1>3 DEF Meet

\* It is the only node of its statement that writes.
LEMMA DefinesOnly ==
  ASSUME LifeInv, NEW s \in Stmt, NEW n \in DOMAIN script[s].nodes, Works(s, n, Definitions),
         NEW m \in DOMAIN script[s].nodes, The(s, m).kind \in Writers
  PROVE  m = n
<1>1. IsPlan(Plan(s)) /\ The(s, n).kind \in Writers
  BY Working DEF Works, Writers
<1>2. QED
  BY <1>1, OneWriter DEF Plan, The

\* Names that are not redefined stay coherent, or underhand.
LEMMA LocalNames ==
  ASSUME LifeInv, TablesInv, Apart, NEW s \in Stmt, Alone(s), NEW n \in DOMAIN script[s].nodes, Redefines(s, n)
  PROVE  Registries' /\ NamesInv'
<1> DEFINE N == NamesOf(The(s, n))
<1>1. /\ Works(s, n, Definitions) /\ script' = script /\ The(s, n)' = The(s, n)
      /\ Local(N, catalog, columns, catalog', columns', s)
      /\ Local(N, storage, heap, storage', heap', s)
      /\ Registry(catalog, columns) /\ Registry(storage, heap) /\ NamesInv
  BY DEF Redefines, Alone, The, TablesInv, Registries, Registry
<1>2. Registry(catalog', columns') /\ Registry(storage', heap')
  <2> HIDE DEF N
  <2>1. QED
    BY <1>1, LocalRegistry
<1>3. Registries'
  BY <1>2 DEF Registries, Registry
<1>4. ASSUME NEW t \in (DOMAIN catalog \union DOMAIN storage)', ~Underhand(t)' PROVE Coherent(t)'
  <2>1. CASE t \in N
    <3>1. ~Midway(s, n)'
      BY <1>1, <1>4, <2>1 DEF Underhand
    <3>2. QED
      BY <1>1, <2>1, <3>1 DEF Redefines, Owns
  <2>2. CASE t \notin N
    <3>1. ~Underhand(t)
      <4> SUFFICES ASSUME NEW r \in Stmt, NEW m \in DOMAIN script[r].nodes, Midway(r, m), t \in NamesOf(The(r, m))
                   PROVE  FALSE
        BY DEF Underhand
      <4>1. r # s
        <5> SUFFICES ASSUME r = s PROVE FALSE
          OBVIOUS
        <5>1. m = n
          BY <1>1, DefinesOnly DEF Midway, Works, Writers
        <5>2. QED
          BY <2>2, <5>1
      <4>2. Midway(r, m)' /\ The(r, m)' = The(r, m)
        BY <4>1, AloneKeeps
      <4>3. QED
        BY <1>1, <1>4, <4>2 DEF Underhand
    <3>2. /\ t \in DOMAIN catalog' <=> t \in DOMAIN catalog
          /\ t \in DOMAIN catalog => catalog'[t] = catalog[t] /\ columns'[catalog'[t]] = columns[catalog[t]]
      <4> HIDE DEF N
      <4>1. QED
        BY <1>1, <2>2, LocalElsewhere
    <3>3. /\ t \in DOMAIN storage' <=> t \in DOMAIN storage
          /\ t \in DOMAIN storage => storage'[t] = storage[t] /\ heap'[storage'[t]] = heap[storage[t]]
      <4> HIDE DEF N
      <4>1. QED
        BY <1>1, <2>2, LocalElsewhere
    <3>4. Coherent(t)
      BY <1>1, <1>4, <3>1, <3>2, <3>3 DEF NamesInv
    <3>5. QED
      BY <3>2, <3>3, <3>4 DEF Coherent
  <2>3. QED
    BY <2>1, <2>2
<1>5. QED
  BY <1>3, <1>4 DEF NamesInv

\* Other definitions are where they were.
LEMMA LocalDefines ==
  ASSUME LifeInv, TablesInv, Apart, NEW s \in Stmt, Alone(s), NEW n \in DOMAIN script[s].nodes, Redefines(s, n),
         NEW r \in Stmt
  PROVE  DefinesInv(r)'
<1> SUFFICES ASSUME NEW m \in DOMAIN script[r].nodes, Midway(r, m)'
             PROVE  HalfDone(The(r, m), ops[r][m], r)'
  BY DEF DefinesInv, Alone
<1>1. /\ Works(s, n, Definitions) /\ script' = script /\ The(r, m)' = The(r, m)
      /\ Local(NamesOf(The(s, n)), catalog, columns, catalog', columns', s)
      /\ Local(NamesOf(The(s, n)), storage, heap, storage', heap', s)
      /\ Registry(catalog, columns) /\ Registry(storage, heap)
  BY DEF Redefines, Alone, The, TablesInv, Registries, Registry
<1>2. CASE r = s
  <2>1. The(s, m).kind \in Writers
    BY <1>1, <1>2 DEF Midway, Works, Writers
  <2>2. m = n
    BY <1>1, <1>2, <2>1, DefinesOnly
  <2>3. QED
    BY <1>2, <2>2 DEF Redefines, Owns
<1>3. CASE r # s /\ The(s, n).kind = "drop" /\ The(r, m).kind = "drop"
  <2>1. Midway(r, m)
    BY <1>3, AloneKeeps
  <2>2. HalfDone(The(r, m), ops[r][m], r)
    BY <2>1 DEF TablesInv, DefinesInv
  <2>3. Restricts(catalog, catalog')
    BY <1>3 DEF Redefines
  <2>4. QED
    BY <1>1, <1>3, <2>2, <2>3 DEF HalfDone, Restricts
<1>4. CASE r # s /\ ~(The(s, n).kind = "drop" /\ The(r, m).kind = "drop")
  <2>1. Midway(r, m) /\ ops'[r] = ops[r]
    BY <1>4, AloneKeeps
  <2>2. HalfDone(The(r, m), ops[r][m], r) /\ The(r, m).kind \in Definitions
    BY <2>1 DEF TablesInv, DefinesInv, Midway, Works
  <2>3. ASSUME NEW t \in NamesOf(The(r, m)) PROVE t \notin NamesOf(The(s, n))
    BY <1>1, <1>4, <2>1, <2>2, DefinesApart DEF Midway, Works, Definitions
  <2>4. ASSUME NEW t \in NamesOf(The(r, m))
        PROVE  /\ t \in DOMAIN catalog' <=> t \in DOMAIN catalog
               /\ t \in DOMAIN catalog => catalog'[t] = catalog[t] /\ columns'[catalog'[t]] = columns[catalog[t]]
    BY <1>1, <2>3, LocalElsewhere
  <2>5. ASSUME NEW t \in NamesOf(The(r, m))
        PROVE  /\ t \in DOMAIN storage' <=> t \in DOMAIN storage
               /\ t \in DOMAIN storage => storage'[t] = storage[t] /\ heap'[storage'[t]] = heap[storage[t]]
    BY <1>1, <2>3, LocalElsewhere
  <2> DEFINE node == The(r, m)
  <2>6. node.table \in NamesOf(node) /\ (node.kind = "rename" => node.new \in NamesOf(node))
    BY DEF NamesOf
  <2>7. CASE node.kind = "create"
    BY <1>1, <2>2, <2>4, <2>5, <2>6, <2>7 DEF HalfDone
  <2>8. CASE node.kind = "drop"
    BY <1>1, <2>2, <2>4, <2>6, <2>8 DEF HalfDone
  <2>9. CASE node.kind = "add column"
    BY <1>1, <2>2, <2>4, <2>5, <2>6, <2>9 DEF HalfDone
  <2>10. CASE node.kind = "drop column"
    BY <1>1, <2>1, <2>2, <2>4, <2>5, <2>6, <2>10 DEF HalfDone
  <2>11. CASE node.kind = "rename"
    BY <1>1, <2>2, <2>4, <2>5, <2>6, <2>11 DEF HalfDone
  <2>12. CASE node.kind = "rename column"
    BY <2>2, <2>12 DEF HalfDone
  <2>13. QED
    BY <2>2, <2>7, <2>8, <2>9, <2>10, <2>11, <2>12 DEF Definitions
<1>5. QED
  BY <1>2, <1>3, <1>4

\* Other CREATE TABLEs have made what they had made.
LEMMA LocalCreates ==
  ASSUME LifeInv, TablesInv, Apart, NEW s \in Stmt, Alone(s), NEW n \in DOMAIN script[s].nodes, Redefines(s, n),
         NEW r \in Stmt
  PROVE  CreatesInv(r)'
<1> SUFFICES ASSUME NEW m \in DOMAIN script[r].nodes, The(r, m).kind = "create"
             PROVE  Creating(r, m)'
  BY DEF CreatesInv, Alone, The
<1>1. /\ Works(s, n, Definitions) /\ script' = script /\ The(r, m)' = The(r, m)
      /\ Local(NamesOf(The(s, n)), catalog, columns, catalog', columns', s)
      /\ Local(NamesOf(The(s, n)), storage, heap, storage', heap', s)
      /\ Registry(catalog, columns) /\ Registry(storage, heap)
  BY DEF Redefines, Alone, The, TablesInv, Registries, Registry
<1>2. CASE r = s
  <2>1. m = n
    BY <1>1, <1>2, DefinesOnly DEF Writers, Definitions
  <2>2. QED
    BY <1>1, <1>2, <2>1 DEF Redefines, Owns
<1>3. CASE r # s
  <2>1. /\ ops'[r] = ops[r] /\ At(r, m)' = At(r, m) /\ (Ended(r)' <=> Ended(r)) /\ (AtWork(r)' <=> AtWork(r))
    BY <1>3, AloneKeeps
  <2>2. Creating(r, m)
    BY DEF TablesInv, CreatesInv
  <2>3. r \in DOMAIN columns' => r \in DOMAIN columns
    BY <1>1, <1>3 DEF Local
  <2>4. r \in DOMAIN heap' => r \in DOMAIN heap
    BY <1>1, <1>3 DEF Local
  <2>5. ASSUME AtWork(r), At(r, m) \in {"create", "fetch", "pull"}
        PROVE  /\ Enlisted(The(r, m), ops[r][m], r)'
               /\ At(r, m) \in {"fetch", "pull"} => Backed(The(r, m), r)'
    <3> DEFINE t == The(r, m).table
    <3>1. /\ Enlisted(The(r, m), ops[r][m], r)
          /\ At(r, m) \in {"fetch", "pull"} => Backed(The(r, m), r)
      BY <2>2, <2>5 DEF Creating
    <3>2. t \notin NamesOf(The(s, n))
      <4>1. Works(r, m, Definitions \union {"insert"}) /\ The(r, m).kind \notin {"drop", "insert"}
        BY <2>5 DEF Works, Definitions
      <4>2. t \in NamesOf(The(r, m))
        BY DEF NamesOf
      <4>3. QED
        BY <1>1, <1>3, <4>1, <4>2, DefinesApart
    <3>3. /\ t \in DOMAIN catalog' <=> t \in DOMAIN catalog
          /\ t \in DOMAIN catalog => catalog'[t] = catalog[t] /\ columns'[catalog'[t]] = columns[catalog[t]]
      BY <1>1, <3>2, LocalElsewhere
    <3>4. (t \in DOMAIN storage' <=> t \in DOMAIN storage) /\ (t \in DOMAIN storage => storage'[t] = storage[t])
      BY <1>1, <3>2, LocalElsewhere
    <3>5. Enlisted(The(r, m), ops[r][m], r)'
      BY <1>1, <2>1, <3>1, <3>3 DEF Enlisted
    <3>6. At(r, m) \in {"fetch", "pull"} => Backed(The(r, m), r)'
      BY <1>1, <3>1, <3>4 DEF Backed
    <3>7. QED
      BY <3>5, <3>6
  <2>6. Untried(ops[r][m], At(r, m))' <=> Untried(ops[r][m], At(r, m))
    BY <2>1 DEF Untried
  <2>7. Fresh(r) => Fresh(r)'
    BY <2>3, <2>4 DEF Fresh
  <2>8. QED
    BY <2>1, <2>2, <2>4, <2>5, <2>6, <2>7 DEF Creating
<1>4. QED
  BY <1>2, <1>3

\* An INSERT into a table holds it still, or what it holds has been dropped.
LEMMA LocalInserts ==
  ASSUME LifeInv, TablesInv, Apart, NEW s \in Stmt, Alone(s), NEW n \in DOMAIN script[s].nodes, Redefines(s, n),
         NEW r \in Stmt
  PROVE  InsertsInv(r)'
<1> SUFFICES ASSUME NEW m \in DOMAIN script[r].nodes, Works(r, m, {"insert"})'
             PROVE  /\ Holds(The(r, m), ops[r][m].table)'
                    /\ At(r, m)' \in {"values", "pull"} => HoldsHeap(The(r, m), ops[r][m].heap)'
  BY DEF InsertsInv, Alone
<1>1. /\ Works(s, n, Definitions) /\ script' = script /\ The(r, m)' = The(r, m)
      /\ Local(NamesOf(The(s, n)), catalog, columns, catalog', columns', s)
      /\ Local(NamesOf(The(s, n)), storage, heap, storage', heap', s)
      /\ Registry(catalog, columns) /\ Registry(storage, heap)
  BY DEF Redefines, Alone, The, TablesInv, Registries, Registry
<1>2. r # s
  <2> SUFFICES ASSUME r = s PROVE FALSE
    OBVIOUS
  <2>1. The(s, m).kind = "insert"
    BY <1>1 DEF Works
  <2>2. m = n
    BY <1>1, <2>1, DefinesOnly DEF Writers
  <2>3. QED
    BY <1>1, <2>1, <2>2 DEF Works, Definitions
<1>3. Works(r, m, {"insert"}) /\ ops'[r] = ops[r] /\ At(r, m)' = At(r, m)
  BY <1>2, AloneKeeps
<1> DEFINE u == The(r, m).table
           e == ops[r][m].table
           h == ops[r][m].heap
           N == NamesOf(The(s, n))
<1>4. Holds(The(r, m), e) /\ (At(r, m) \in {"values", "pull"} => HoldsHeap(The(r, m), h))
  BY <1>3 DEF TablesInv, InsertsInv
<1>5. u \in N => The(s, n).kind = "drop" /\ N = {u}
  <2>1. u \in NamesOf(The(r, m))
    BY DEF NamesOf
  <2>2. u \in N => The(s, n).kind = "drop"
    <3>1. Works(r, m, Definitions \union {"insert"})
      BY <1>3 DEF Works
    <3>2. QED
      BY <1>1, <1>2, <2>1, <3>1, DefinesApart
  <2>3. QED
    BY <2>2 DEF NamesOf
<1>6. CASE u \in N
  <2>1. Restricts(catalog, catalog') /\ Restricts(storage, storage') /\ UNCHANGED <<columns, heap>>
    BY <1>5, <1>6 DEF Redefines
  <2>2. Holds(The(r, m), e)'
    BY <1>1, <1>3, <1>4, <2>1 DEF Holds, Restricts
  <2>3. At(r, m) \in {"values", "pull"} => HoldsHeap(The(r, m), h)'
    BY <1>1, <1>3, <1>4, <2>1 DEF HoldsHeap, Restricts
  <2>4. QED
    BY <1>3, <2>2, <2>3
<1>7. CASE u \notin N
  <2>1. e \in DOMAIN columns /\ \A t \in DOMAIN catalog : catalog[t] = e => t = u
    BY <1>4 DEF Holds
  <2> HIDE DEF N, e, h, u
  <2>2. columns'[e] = columns[e] /\ \A t \in DOMAIN catalog' : catalog'[t] = e => t = u
    BY <1>1, <1>7, <2>1, LocalOwned DEF N
  <2>3. (u \in DOMAIN catalog' <=> u \in DOMAIN catalog) /\ (u \in DOMAIN catalog => catalog'[u] = catalog[u])
    BY <1>1, <1>7, LocalElsewhere DEF N
  <2>4. /\ u \in DOMAIN storage' <=> u \in DOMAIN storage
        /\ u \in DOMAIN storage => storage'[u] = storage[u] /\ heap'[storage'[u]] = heap[storage[u]]
    BY <1>1, <1>7, LocalElsewhere DEF N
  <2>5. e \in DOMAIN columns'
    BY <1>1, <2>1 DEF Local
  <2>6. Holds(The(r, m), e)'
    BY <1>1, <1>3, <1>4, <2>2, <2>3, <2>4, <2>5 DEF Holds, e, u
  <2>7. ASSUME At(r, m) \in {"values", "pull"} PROVE HoldsHeap(The(r, m), h)'
    <3>1. h \in DOMAIN heap /\ \A t \in DOMAIN storage : storage[t] = h => t = u
      BY <1>4, <2>7 DEF HoldsHeap, u
    <3>2. \A t \in DOMAIN storage' : storage'[t] = h => t = u
      BY <1>1, <1>7, <3>1, LocalOwned DEF N
    <3>3. h \in DOMAIN heap'
      BY <1>1, <3>1 DEF Local
    <3>4. QED
      BY <1>1, <1>3, <3>2, <3>3 DEF HoldsHeap, h, u
  <2>8. QED
    BY <1>3, <2>6, <2>7 DEF e, h
<1>8. QED
  BY <1>6, <1>7

\* A step of a definition keeps the invariant when it is sound at its own names.
LEMMA LocalKeeps ==
  ASSUME LifeInv, TablesInv, Apart, NEW s \in Stmt, Alone(s), NEW n \in DOMAIN script[s].nodes, Redefines(s, n)
  PROVE  TablesInv'
<1>1. Registries' /\ NamesInv' /\ Slices' /\ \A r \in Stmt : DefinesInv(r)' /\ CreatesInv(r)' /\ InsertsInv(r)'
  BY LocalNames, LocalDefines, LocalCreates, LocalInserts DEF Redefines
<1>2. SameHeld'
  <2>1. script' = script /\ \A r, m : The(r, m)' = The(r, m)
    BY DEF Alone, The
  <2>2. \A r \in Stmt : \A m \in DOMAIN script[r].nodes : Works(r, m, {"insert"})' =>
          Works(r, m, {"insert"}) /\ ops'[r] = ops[r]
    <3> SUFFICES ASSUME NEW r \in Stmt, NEW m \in DOMAIN script[r].nodes, Works(r, m, {"insert"})'
                 PROVE  Works(r, m, {"insert"}) /\ ops'[r] = ops[r]
      OBVIOUS
    <3>1. r # s
      <4> SUFFICES ASSUME r = s PROVE FALSE
        OBVIOUS
      <4>1. Works(s, n, Definitions) /\ The(s, m).kind = "insert"
        BY <2>1 DEF Works, Redefines
      <4>2. m = n
        BY <4>1, DefinesOnly DEF Writers
      <4>3. QED
        BY <4>1, <4>2 DEF Works, Definitions
    <3>2. QED
      BY <3>1, AloneKeeps
  <2>3. SameHeld
    BY DEF TablesInv
  <2>4. QED
    BY <2>1, <2>2, <2>3 DEF SameHeld
<1>3. QED
  BY <1>1, <1>2 DEF TablesInv

-----------------------------------------------------------------------------
(* Each step of a definition keeps the invariant.                            *)

\* The statement of the top frame is at a definition.
AtDefinition(s, n) == stack[s] # <<>> /\ n = Top(s).node /\ Node(s).kind \in Definitions

\* The operator of a definition that is about to change a registry.
LEMMA DefinitionIs ==
  ASSUME LifeInv, TablesInv, NEW s \in Stmt, NEW n, AtDefinition(s, n)
  PROVE  /\ Works(s, n, Definitions) /\ n \in DOMAIN script[s].nodes /\ n \in DOMAIN ops[s]
         /\ Node(s) = The(s, n) /\ Op(s) = ops[s][n] /\ At(s, n) = Top(s).step /\ Formed(Op(s))
         /\ Registry(catalog, columns) /\ Registry(storage, heap) /\ Slices
<1>1. /\ AtWork(s) /\ n \in DOMAIN script[s].nodes /\ Node(s) = The(s, n) /\ Op(s) = ops[s][n]
      /\ At(s, n) = Top(s).step
  BY TopStep DEF AtDefinition, Plan
<1>2. Works(s, n, Definitions)
  BY <1>1 DEF Works, AtDefinition
<1>3. n \in DOMAIN ops[s] /\ Formed(Op(s))
  BY OpFormed DEF AtDefinition
<1>4. Registry(catalog, columns) /\ Registry(storage, heap) /\ Slices
  BY DEF TablesInv, Registries, Registry
<1>5. QED
  BY <1>1, <1>2, <1>3, <1>4

\* Its names are coherent when it has not changed anything yet.
LEMMA NamesCoherent ==
  ASSUME LifeInv, TablesInv, Apart, NEW s \in Stmt, NEW n, AtDefinition(s, n), ~Midway(s, n),
         The(s, n).kind # "drop"
  PROVE  \A t \in NamesOf(The(s, n)) : Coherent(t)
<1> SUFFICES ASSUME NEW t \in NamesOf(The(s, n)) PROVE Coherent(t)
  OBVIOUS
<1>1. Works(s, n, Definitions) /\ n \in DOMAIN script[s].nodes
  BY DefinitionIs
<1>2. ~Underhand(t)
  <2> SUFFICES ASSUME NEW r \in Stmt, NEW m \in DOMAIN script[r].nodes, Midway(r, m), t \in NamesOf(The(r, m))
               PROVE  FALSE
    BY DEF Underhand
  <2>1. CASE r = s
    <3>1. m = n
      BY <1>1, <2>1, DefinesOnly DEF Midway, Works, Writers
    <3>2. QED
      BY <2>1, <3>1
  <2>2. CASE r # s
    <3>1. Works(r, m, Definitions \union {"insert"})
      BY DEF Midway, Works
    <3>2. QED
      BY <1>1, <2>2, <3>1, DefinesApart
  <2>3. QED
    BY <2>1, <2>2
<1>3. CASE t \in DOMAIN catalog \union DOMAIN storage
  BY <1>2, <1>3 DEF TablesInv, NamesInv
<1>4. CASE t \notin DOMAIN catalog \union DOMAIN storage
  BY <1>4 DEF Coherent
<1>5. QED
  BY <1>3, <1>4

\* The catalog is changed; the storage is next.
LEMMA GoesToStorage ==
  ASSUME LifeInv, TablesInv, NEW s \in Stmt, Alone(s), NEW n, AtDefinition(s, n), pc' = pc,
         NEW place, ToStorage(s, place)
  PROVE  Midway(s, n)' /\ ops'[s][n].count = place /\ Shaped(s)
<1>1. /\ Works(s, n, Definitions) /\ n \in DOMAIN script[s].nodes /\ Formed(Op(s)) /\ n = Top(s).node
      /\ script' = script /\ stack[s] # <<>> /\ The(s, n)' = The(s, n)
  BY DefinitionIs DEF AtDefinition, Alone, The
<1> DEFINE op == [Op(s) EXCEPT !.count = place]
<1>2. Shapes(Op(s), op) /\ op.state = Op(s).state /\ op.count = place
  BY <1>1, FormedIs DEF Shapes
<1>3. ops' = [ops EXCEPT ![s][Top(s).node] = op] /\ Goto(s, "storage", 1)
  BY DEF ToStorage, GotoWith
<1> HIDE DEF op
<1>4. GoingOn(s, op, "storage", 1)
  BY <1>1, <1>2, <1>3 DEF GoingOn
<1>5. AtWork(s)' /\ ops'[s][n] = op /\ Shaped(s)
  BY <1>1, <1>4, WentOn
<1>6. \A m : At(s, m)' = IF m = Top(s).node THEN "storage" ELSE At(s, m)
  BY <1>1, <1>4, WentOn
<1>7. At(s, n)' = "storage"
  BY <1>1, <1>6
<1>8. QED
  BY <1>1, <1>2, <1>5, <1>7 DEF Midway, Works

\* The definition is done.
LEMMA DefinitionReturns ==
  ASSUME LifeInv, TablesInv, NEW s \in Stmt, Alone(s), NEW n, AtDefinition(s, n), pc' = pc,
         NEW r, Return(s, r)
  PROVE  ~Midway(s, n)' /\ Creating(s, n)' /\ Shaped(s)
<1>1. /\ n = Top(s).node /\ script' = script /\ stack[s] # <<>> /\ Formed(Op(s))
  BY DefinitionIs DEF AtDefinition, Alone
<1>2. Returning(s, Op(s), r)
  BY <1>1 DEF Return, Returning, Shapes
<1>3. ops'[s][Top(s).node].state # "new" /\ Shaped(s)
  BY <1>1, <1>2, Returned
<1>4. \A m : At(s, m)' = IF m = Top(s).node THEN "out" ELSE At(s, m)
  BY <1>1, <1>2, Returned
<1>5. At(s, n)' = "out"
  BY <1>1, <1>4
<1>6. ~Untried(ops[s][n], At(s, n))'
  BY <1>1, <1>3 DEF Untried
<1>7. QED
  BY <1>3, <1>5, <1>6 DEF Midway, Creating

\* What is in slices stays so when no table or heap changes.
LEMMA SlicesStay ==
  ASSUME LifeInv, TablesInv, NEW s \in Stmt, Alone(s), AtWork(s), Shaped(s), UNCHANGED <<columns, heap>>
  PROVE  Slices'
<1>1. Slices
  BY DEF TablesInv
<1>2. \A e \in DOMAIN columns' : IsList(columns'[e])
  BY <1>1 DEF Slices
<1>3. \A h \in DOMAIN heap' : IsList(heap'[h]) /\ \A i \in DOMAIN heap'[h] : IsList(heap'[h][i])
  BY <1>1 DEF Slices
<1>4. QED
  BY <1>2, <1>3, SlicesMade

\* DROP TABLE takes the name out of the catalog, which leaves the heap to the second step.
LEMMA DropKeeps ==
  ASSUME LifeInv, TablesInv, Apart, NEW s \in Stmt, Alone(s), Drop(s)
  PROVE  TablesInv'
<1> SUFFICES ASSUME NEW n, n = Top(s).node PROVE TablesInv'
  OBVIOUS
<1>1. /\ AtDefinition(s, n) /\ Node(s).kind = "drop" /\ UNCHANGED <<columns, storage, heap, pc>> /\ ToStorage(s, 1)
      /\ catalog' = Without(catalog, Node(s).table) /\ script' = script
  BY DEF Drop, Defines, Enters, In, AtDefinition, Definitions, Alone
<1>2. /\ Works(s, n, Definitions) /\ n \in DOMAIN script[s].nodes /\ Node(s) = The(s, n)
      /\ Registry(catalog, columns) /\ Registry(storage, heap)
  BY <1>1, DefinitionIs
<1>3. Midway(s, n)' /\ Shaped(s)
  BY <1>1, GoesToStorage
<1> DEFINE t == Node(s).table
           N == NamesOf(The(s, n))
<1>4. t \in N
  BY <1>2 DEF NamesOf
<1> HIDE DEF N
<1>5. Local(N, catalog, columns, catalog', columns', s) /\ Restricts(catalog, catalog') /\ t \notin DOMAIN catalog'
  BY <1>1, <1>2, <1>4, LocalWithout
<1>6. Local(N, storage, heap, storage', heap', s) /\ Restricts(storage, storage')
  BY <1>1, <1>2, LocalSame DEF Restricts
<1>7. The(s, n)' = The(s, n)
  BY <1>1 DEF The
<1>8. HalfDone(The(s, n), ops[s][n], s)'
  BY <1>1, <1>2, <1>5, <1>7 DEF HalfDone
<1>9. Owns(s, n)'
  BY <1>1, <1>2, <1>3, <1>7, <1>8 DEF Owns
<1>10. Slices'
  BY <1>1, <1>2, <1>3, SlicesStay DEF Works
<1>11. Redefines(s, n)
  BY <1>1, <1>2, <1>5, <1>6, <1>9, <1>10 DEF Redefines, N
<1>12. QED
  BY <1>2, <1>11, LocalKeeps

\* The columns of the table change in place, and nothing else.
LEMMA ColumnsKeep ==
  ASSUME LifeInv, TablesInv, Apart, NEW s \in Stmt, Alone(s), NEW n, AtDefinition(s, n), Node(s).kind # "drop",
         Node(s).table \in DOMAIN catalog, UNCHANGED <<catalog, storage, heap>>,
         NEW list, IsList(list), columns' = [columns EXCEPT ![Entry(s)] = list],
         Shaped(s), Owns(s, n)'
  PROVE  TablesInv'
<1> DEFINE t == Node(s).table
           N == NamesOf(The(s, n))
<1>1. /\ Works(s, n, Definitions) /\ n \in DOMAIN script[s].nodes /\ Node(s) = The(s, n)
      /\ Registry(catalog, columns) /\ Registry(storage, heap) /\ Slices
  BY DefinitionIs
<1>2. t \in N /\ Entry(s) = catalog[t]
  BY <1>1 DEF NamesOf, Entry
<1> HIDE DEF N, t
<1>3. Local(N, catalog, columns, catalog', columns', s)
  BY <1>1, <1>2, LocalData DEF t
<1>4. Local(N, storage, heap, storage', heap', s)
  BY <1>1, LocalSame
<1>5. Slices'
  <2>1. \A e \in DOMAIN columns' : IsList(columns'[e])
    BY <1>1 DEF Slices
  <2>2. \A h \in DOMAIN heap' : IsList(heap'[h]) /\ \A i \in DOMAIN heap'[h] : IsList(heap'[h][i])
    BY <1>1 DEF Slices
  <2>3. QED
    BY <1>1, <2>1, <2>2, SlicesMade DEF Works
<1>6. Redefines(s, n)
  BY <1>1, <1>3, <1>4, <1>5 DEF Redefines, N
<1>7. QED
  BY <1>1, <1>6, LocalKeeps

\* The table of an ALTER TABLE that has not begun.
LEMMA Altering ==
  ASSUME LifeInv, TablesInv, Apart, NEW s \in Stmt, NEW kind \in Definitions \ {"create", "drop"}, Defines(s, kind),
         NEW n, n = Top(s).node
  PROVE  /\ AtDefinition(s, n) /\ Node(s).kind = kind /\ Node(s).table \in DOMAIN catalog
         /\ \A t \in NamesOf(The(s, n)) : Coherent(t)
         /\ IsList(columns[Entry(s)]) /\ Entry(s) \in DOMAIN columns /\ Entry(s) = catalog[Node(s).table]
         /\ Node(s).table \in NamesOf(The(s, n)) /\ Node(s) = The(s, n)
         /\ Places(s) \subseteq 1 .. Len(columns[Entry(s)])
<1>1. /\ stack[s] # <<>> /\ Node(s).kind = kind /\ Node(s).table \in DOMAIN catalog /\ Top(s).step = "enter"
      /\ AtDefinition(s, n)
  BY DEF Defines, Enters, In, AtDefinition
<1>2. At(s, n) = "enter" /\ Node(s) = The(s, n) /\ Registry(catalog, columns) /\ Slices
  BY <1>1, DefinitionIs
<1>3. ~Midway(s, n) /\ The(s, n).kind # "drop"
  BY <1>1, <1>2 DEF Midway
<1>4. \A t \in NamesOf(The(s, n)) : Coherent(t)
  BY <1>1, <1>3, NamesCoherent
<1>5. IsList(columns[Entry(s)]) /\ Entry(s) \in DOMAIN columns /\ Entry(s) = catalog[Node(s).table]
  BY <1>1, <1>2 DEF Registry, Slices, Entry
<1>6. Places(s) \subseteq 1 .. Len(columns[Entry(s)])
  BY <1>5, ListIs DEF Places
<1>7. QED
  BY <1>1, <1>2, <1>4, <1>5, <1>6 DEF NamesOf

\* ALTER TABLE .. ADD COLUMN: the table is one column wider than its rows.
LEMMA AddColumnKeeps ==
  ASSUME LifeInv, TablesInv, Apart, NEW s \in Stmt, Alone(s), AddColumn(s)
  PROVE  TablesInv'
<1> SUFFICES ASSUME NEW n, n = Top(s).node PROVE TablesInv'
  OBVIOUS
<1> DEFINE t == Node(s).table
           old == columns[Entry(s)]
           list == Append(old, Node(s).col)
<1>1. Defines(s, "add column")
  BY DEF AddColumn
<1>2. /\ UNCHANGED <<catalog, storage, heap, pc>> /\ ToStorage(s, 1)
      /\ columns' = [columns EXCEPT ![Entry(s)] = list] /\ script' = script
  BY DEF AddColumn, Alone
<1>3. Node(s).kind = "add column"
  BY <1>1, Altering DEF Definitions
<1>4. /\ AtDefinition(s, n) /\ t \in DOMAIN catalog
      /\ Coherent(t) /\ IsList(old) /\ Entry(s) \in DOMAIN columns /\ Entry(s) = catalog[t] /\ Node(s) = The(s, n)
  BY <1>1, Altering DEF Definitions
<1>5. Midway(s, n)' /\ Shaped(s)
  BY <1>2, <1>4, GoesToStorage
<1> HIDE DEF list, old
<1>6. IsList(list) /\ Len(list) = Len(old) + 1 /\ Len(old) \in Nat
  BY <1>4, ListAppend, ListIs DEF list
<1>7. columns'[catalog[t]] = list /\ Len(columns'[catalog[t]]) - 1 = Len(old)
  BY <1>2, <1>4, <1>6
<1>8. t \in DOMAIN storage /\ Wide(heap[storage[t]], Len(old))
  BY <1>4 DEF Coherent, old
<1>9. HalfDone(The(s, n), ops[s][n], s)'
  BY <1>2, <1>4, <1>3, <1>7, <1>8 DEF HalfDone, The
<1>10. Owns(s, n)'
  BY <1>2, <1>4, <1>3, <1>5, <1>9 DEF Owns, The
<1>11. QED
  BY <1>2, <1>4, <1>3, <1>5, <1>6, <1>10, ColumnsKeep

\* ALTER TABLE .. DROP COLUMN: the table is one column narrower than its rows.
LEMMA DropColumnKeeps ==
  ASSUME LifeInv, TablesInv, Apart, NEW s \in Stmt, Alone(s), DropColumn(s)
  PROVE  TablesInv'
<1> SUFFICES ASSUME NEW n, n = Top(s).node PROVE TablesInv'
  OBVIOUS
<1> DEFINE t == Node(s).table
           old == columns[Entry(s)]
           place == First(Places(s))
           list == DropAt(old, place)
<1>1. Defines(s, "drop column")
  BY DEF DropColumn
<1>2. /\ UNCHANGED <<catalog, storage, heap, pc>> /\ ToStorage(s, place)
      /\ columns' = [columns EXCEPT ![Entry(s)] = list] /\ script' = script /\ Places(s) # {}
  BY DEF DropColumn, Alone
<1>3. Node(s).kind = "drop column"
  BY <1>1, Altering DEF Definitions
<1>4. /\ AtDefinition(s, n) /\ t \in DOMAIN catalog
      /\ Coherent(t) /\ IsList(old) /\ Entry(s) \in DOMAIN columns /\ Entry(s) = catalog[t] /\ Node(s) = The(s, n)
      /\ Places(s) \subseteq 1 .. Len(old)
  BY <1>1, Altering DEF Definitions
<1> HIDE DEF list, old, place
<1>5. Midway(s, n)' /\ Shaped(s) /\ ops'[s][n].count = place
  BY <1>2, <1>4, GoesToStorage
<1>6. place \in 1 .. Len(old)
  <2>1. Places(s) \subseteq Nat
    BY <1>4, ListIs
  <2>2. QED
    BY <1>2, <1>4, <2>1, FirstIn DEF place
<1>7. IsList(list) /\ Len(list) = Len(old) - 1 /\ Len(old) \in Nat
  BY <1>4, <1>6, ListWithout, ListIs DEF list
<1>8. columns'[catalog[t]] = list /\ Len(columns'[catalog[t]]) + 1 = Len(old)
  BY <1>2, <1>4, <1>7
<1>9. t \in DOMAIN storage /\ Wide(heap[storage[t]], Len(old))
  BY <1>4 DEF Coherent, old
<1>10. HalfDone(The(s, n), ops[s][n], s)'
  BY <1>2, <1>4, <1>3, <1>5, <1>6, <1>8, <1>9 DEF HalfDone, The
<1>11. Owns(s, n)'
  BY <1>2, <1>4, <1>3, <1>5, <1>10 DEF Owns, The
<1>12. QED
  BY <1>2, <1>4, <1>3, <1>5, <1>7, <1>11, ColumnsKeep

\* ALTER TABLE .. RENAME COLUMN: the number of columns stays.
LEMMA RenameColumnKeeps ==
  ASSUME LifeInv, TablesInv, Apart, NEW s \in Stmt, Alone(s), RenameColumn(s)
  PROVE  TablesInv'
<1> SUFFICES ASSUME NEW n, n = Top(s).node PROVE TablesInv'
  OBVIOUS
<1> DEFINE t == Node(s).table
           old == columns[Entry(s)]
           list == [old EXCEPT ![First(Places(s))] = Node(s).new]
<1>1. Defines(s, "rename column")
  BY DEF RenameColumn
<1>2. /\ UNCHANGED <<catalog, storage, heap, pc>> /\ Return(s, Ok)
      /\ columns' = [columns EXCEPT ![Entry(s)][First(Places(s))] = Node(s).new] /\ script' = script
  BY DEF RenameColumn, Alone
<1>3. Node(s).kind = "rename column"
  BY <1>1, Altering DEF Definitions
<1>4. /\ AtDefinition(s, n) /\ t \in DOMAIN catalog
      /\ Coherent(t) /\ IsList(old) /\ Entry(s) \in DOMAIN columns /\ Entry(s) = catalog[t] /\ Node(s) = The(s, n)
  BY <1>1, Altering DEF Definitions
<1>5. columns' = [columns EXCEPT ![Entry(s)] = list]
  BY <1>2
<1>6. ~Midway(s, n)' /\ Creating(s, n)' /\ Shaped(s)
  BY <1>2, <1>4, DefinitionReturns
<1>7. list = [i \in DOMAIN old |-> list[i]]
  OBVIOUS
<1> HIDE DEF list, old
<1>8. IsList(list) /\ Len(list) = Len(old)
  BY <1>4, <1>7, ListMapped
<1>9. columns'[catalog[t]] = list
  BY <1>4, <1>5
<1>10. t \in DOMAIN storage /\ Wide(heap[storage[t]], Len(old))
  BY <1>4 DEF Coherent, old
<1>11. ASSUME NEW u, u = t PROVE Coherent(u)'
  BY <1>2, <1>4, <1>8, <1>9, <1>10, <1>11 DEF Coherent
<1>12. The(s, n)' = The(s, n) /\ NamesOf(The(s, n)) = {t}
  BY <1>2, <1>4, <1>3 DEF The, NamesOf
<1>13. Owns(s, n)'
  BY <1>6, <1>11, <1>12 DEF Owns
<1>14. QED
  BY <1>2, <1>4, <1>3, <1>5, <1>6, <1>8, <1>13, ColumnsKeep

\* ALTER TABLE .. RENAME TO: the catalog has the new name, the storage the old one.
LEMMA RenameTableKeeps ==
  ASSUME LifeInv, TablesInv, Apart, NEW s \in Stmt, Alone(s), RenameTable(s)
  PROVE  TablesInv'
<1> SUFFICES ASSUME NEW n, n = Top(s).node PROVE TablesInv'
  OBVIOUS
<1> DEFINE t == Node(s).table
           new == Node(s).new
           N == NamesOf(The(s, n))
<1>1. /\ Defines(s, "rename") /\ UNCHANGED <<columns, storage, heap, pc>> /\ ToStorage(s, 1)
      /\ catalog' = Without(With(catalog, new, Entry(s)), t) /\ script' = script /\ new \notin DOMAIN catalog
  BY DEF RenameTable, Alone
<1>2. /\ AtDefinition(s, n) /\ Node(s).kind = "rename" /\ t \in DOMAIN catalog
      /\ Entry(s) = catalog[t] /\ Node(s) = The(s, n) /\ \A u \in N : Coherent(u)
  BY <1>1, Altering DEF Definitions
<1>3. t \in N /\ new \in N
  BY <1>2 DEF NamesOf
<1>4. Midway(s, n)' /\ Shaped(s)
  BY <1>1, <1>2, GoesToStorage
<1>5. Works(s, n, Definitions) /\ n \in DOMAIN script[s].nodes /\ Registry(catalog, columns) /\ Registry(storage, heap)
  BY <1>2, DefinitionIs
<1> HIDE DEF N
<1>6. catalog' = Without(With(catalog, new, catalog[t]), t)
  BY <1>1, <1>2
<1>7. /\ Local(N, catalog, columns, catalog', columns', s)
      /\ DOMAIN catalog' = (DOMAIN catalog \union {new}) \ {t} /\ catalog'[new] = catalog[t]
  <2> HIDE DEF t, new
  <2>1. new \notin DOMAIN catalog /\ t \in DOMAIN catalog /\ columns' = columns
    BY <1>1, <1>2
  <2>2. Local(N, catalog, columns, catalog', columns, s)
    BY <1>6, <1>3, <1>5, <2>1, LocalRenamed
  <2>3. DOMAIN catalog' = (DOMAIN catalog \union {new}) \ {t} /\ catalog'[new] = catalog[t]
    BY <1>6, <2>1 DEF With, Without
  <2>4. QED
    BY <2>1, <2>2, <2>3
<1>8. Local(N, storage, heap, storage', heap', s)
  BY <1>1, <1>5, LocalSame
<1>9. t \in DOMAIN storage /\ new \notin DOMAIN storage /\ Wide(heap[storage[t]], Len(columns[catalog[t]]))
  BY <1>1, <1>2, <1>3 DEF Coherent
<1>10. HalfDone(The(s, n), ops[s][n], s)'
  BY <1>1, <1>2, <1>7, <1>9 DEF HalfDone, The
<1>11. Owns(s, n)'
  BY <1>1, <1>2, <1>4, <1>10 DEF Owns, The
<1>12. Slices'
  BY <1>1, <1>4, <1>5, SlicesStay DEF Works
<1>13. Redefines(s, n)
  BY <1>2, <1>5, <1>7, <1>8, <1>11, <1>12 DEF Redefines, N
<1>14. QED
  BY <1>5, <1>13, LocalKeeps

\* A heap's rows change, or a name's heap does, and nothing in the catalog.
LEMMA StorageKeeps ==
  ASSUME LifeInv, TablesInv, Apart, NEW s \in Stmt, Alone(s), NEW n, AtDefinition(s, n), UNCHANGED <<catalog, columns>>,
         Local(NamesOf(The(s, n)), storage, heap, storage', heap', s),
         Node(s).kind = "drop" => Restricts(storage, storage') /\ UNCHANGED heap,
         \A h \in DOMAIN heap' : IsList(heap'[h]) /\ \A i \in DOMAIN heap'[h] : IsList(heap'[h][i]),
         Shaped(s), Owns(s, n)'
  PROVE  TablesInv'
<1> DEFINE N == NamesOf(The(s, n))
<1>1. /\ Works(s, n, Definitions) /\ n \in DOMAIN script[s].nodes /\ Node(s) = The(s, n)
      /\ Registry(catalog, columns) /\ Slices
  BY DefinitionIs
<1>2. Local(N, catalog, columns, catalog', columns', s) /\ Restricts(catalog, catalog')
  <2> HIDE DEF N
  <2>1. QED
    BY <1>1, LocalSame DEF Restricts
<1>3. Slices'
  <2>1. \A e \in DOMAIN columns' : IsList(columns'[e])
    BY <1>1 DEF Slices
  <2>2. QED
    BY <1>1, <2>1, SlicesMade DEF Works
<1>4. Redefines(s, n)
  BY <1>1, <1>2, <1>3 DEF Redefines
<1>5. QED
  BY <1>1, <1>4, LocalKeeps

\* A step of a definition that has begun.
LEMMA MidwayIs ==
  ASSUME LifeInv, TablesInv, NEW s \in Stmt, stack[s] # <<>>, Top(s).method = "open",
         Top(s).step \in {"register", "create", "fetch", "storage"}, NEW n, n = Top(s).node
  PROVE  /\ AtDefinition(s, n) /\ Op(s).state = "new"
         /\ Top(s).step # "storage" <=> Node(s).kind = "create"
         /\ Top(s).step \in {"create", "storage"} => Midway(s, n) /\ HalfDone(The(s, n), Op(s), s)
         /\ Node(s).kind = "create" => Creating(s, n)
<1>1. Reaches(Node(s), Top(s).method, Top(s).step) /\ Op(s).state = "new"
  BY TopTells, RepliesTell
<1>2. /\ Top(s).step = "storage" => Node(s).kind \in Definitions \ {"create"}
      /\ Top(s).step # "storage" => Node(s).kind = "create"
  BY <1>1 DEF Reaches
<1>3. AtDefinition(s, n)
  BY <1>2 DEF AtDefinition, Definitions
<1>4. Works(s, n, Definitions) /\ n \in DOMAIN script[s].nodes /\ Node(s) = The(s, n) /\ Op(s) = ops[s][n] /\ At(s, n) = Top(s).step
  BY <1>3, DefinitionIs
<1>5. Top(s).step \in {"create", "storage"} => Midway(s, n)
  BY <1>4 DEF Midway
<1>6. Midway(s, n) => HalfDone(The(s, n), Op(s), s)
  BY <1>4 DEF TablesInv, DefinesInv
<1>7. Node(s).kind = "create" => Creating(s, n)
  BY <1>4 DEF TablesInv, CreatesInv
<1>8. QED
  BY <1>1, <1>2, <1>3, <1>5, <1>6, <1>7

\* The columns of a table that is created are a slice.
LEMMA CreatedIs ==
  ASSUME LifeInv, TablesInv, NEW s \in Stmt, stack[s] # <<>>, Node(s).kind = "create"
  PROVE  IsList(CreatedColumns(s))
<1>1. IsPlan(Plan(s)) /\ Top(s).node \in DOMAIN Plan(s) /\ Node(s) = Plan(s)[Top(s).node]
  BY TopFrame, NodeKids
<1>2. CASE Node(s).kids = <<>>
  <2>1. HasLists(Node(s))
    BY <1>1 DEF IsPlan
  <2>2. QED
    BY <1>2, <2>1 DEF HasLists, CreatedColumns
<1>3. CASE Node(s).kids # <<>>
  <2> DEFINE below == KidSchema(s, 1)
             list == [i \in DOMAIN below |-> below[i].column]
  <2>1. 1 \in DOMAIN Node(s).kids
    BY <1>3, NodeKids DEF Kids
  <2>2. Node(s).kids[1] \in DOMAIN Plan(s)
    BY <1>1, <2>1, PlanKids
  <2>3. Node(s).kids[1] \in DOMAIN ops[s]
    BY <2>2, OpFormed DEF Plan
  <2>4. Formed(ops[s][Node(s).kids[1]])
    BY <2>3, OpFormed
  <2>5. IsList(below)
    BY <2>4 DEF Formed, KidSchema
  <2>6. list = [i \in DOMAIN below |-> list[i]]
    OBVIOUS
  <2>7. CreatedColumns(s) = list
    BY <1>3 DEF CreatedColumns
  <2> HIDE DEF list, below
  <2>8. QED
    BY <2>5, <2>6, <2>7, ListMapped
<1>4. QED
  BY <1>2, <1>3

\* CREATE TABLE registers a new table under a name that is in neither registry.
LEMMA RegisterKeeps ==
  ASSUME LifeInv, TablesInv, Apart, NEW s \in Stmt, Alone(s), Register(s), Node(s).table \notin DOMAIN catalog
  PROVE  TablesInv'
<1> SUFFICES ASSUME NEW n, n = Top(s).node PROVE TablesInv'
  OBVIOUS
<1> DEFINE t == Node(s).table
           N == NamesOf(The(s, n))
           made == CreatedColumns(s)
           op == [Op(s) EXCEPT !.table = s, !.count = Len(made)]
<1>1. /\ stack[s] # <<>> /\ Top(s).method = "open" /\ Top(s).step = "register" /\ t \notin DOMAIN catalog
      /\ catalog' = With(catalog, t, s) /\ columns' = With(columns, s, made)
      /\ UNCHANGED <<storage, heap, pc>> /\ script' = script
      /\ ops' = [ops EXCEPT ![s][Top(s).node] = op] /\ Goto(s, "create", 1)
  BY DEF Register, In, Alone, GotoWith
<1>2. AtDefinition(s, n) /\ Op(s).state = "new" /\ Node(s).kind = "create" /\ Creating(s, n)
  BY <1>1, MidwayIs
<1>3. /\ Works(s, n, Definitions) /\ n \in DOMAIN script[s].nodes /\ Node(s) = The(s, n) /\ Op(s) = ops[s][n]
      /\ At(s, n) = "register" /\ Formed(Op(s)) /\ Registry(catalog, columns) /\ Registry(storage, heap) /\ Slices
  BY <1>1, <1>2, DefinitionIs
<1>4. t \notin DOMAIN storage
  <2>1. ~Midway(s, n) /\ The(s, n).kind # "drop"
    BY <1>2, <1>3 DEF Midway
  <2>2. t \in NamesOf(The(s, n))
    BY <1>3 DEF NamesOf
  <2>3. Coherent(t)
    BY <1>2, <2>1, <2>2, NamesCoherent
  <2>4. QED
    BY <1>1, <2>3 DEF Coherent
<1>5. s \notin DOMAIN columns /\ s \notin DOMAIN heap
  <2>1. Untried(ops[s][n], At(s, n)) /\ ~Ended(s)
    BY <1>2, <1>3 DEF Untried, Works, AtWork
  <2>2. QED
    BY <1>2, <2>1 DEF Creating, Fresh
<1>6. t \in N
  BY <1>3 DEF NamesOf
<1> HIDE DEF N, made
<1>7. Local(N, catalog, columns, catalog', columns', s) /\ Local(N, storage, heap, storage', heap', s)
  <2>1. Local(N, catalog, columns, With(catalog, t, s), With(columns, s, made), s)
    BY <1>1, <1>3, <1>5, <1>6, LocalWith
  <2>2. Local(N, storage, heap, storage, heap, s)
    BY <1>3, LocalSame
  <2>3. QED
    BY <1>1, <2>1, <2>2
<1>8. s \in DOMAIN columns' /\ columns'[s] = made /\ DOMAIN columns' = DOMAIN columns \union {s}
      /\ \A e \in DOMAIN columns : columns'[e] = columns[e]
  BY <1>1, <1>5 DEF With
<1>9. Shapes(Op(s), op) /\ op.state = Op(s).state /\ op.table = s /\ op.count = Len(made)
  BY <1>3, <1>8, FormedIs DEF Shapes
<1> HIDE DEF op
<1>10. GoingOn(s, op, "create", 1)
  BY <1>1, <1>9 DEF GoingOn
<1>11. AtWork(s)' /\ ops'[s][n] = op /\ Shaped(s)
  BY <1>1, <1>2, <1>10, WentOn DEF AtDefinition
<1>12. \A m : At(s, m)' = IF m = Top(s).node THEN "create" ELSE At(s, m)
  BY <1>1, <1>10, WentOn
<1>13. At(s, n)' = "create" /\ The(s, n)' = The(s, n)
  BY <1>1, <1>2, <1>12 DEF AtDefinition, The
<1>14. Midway(s, n)'
  BY <1>1, <1>3, <1>11, <1>13 DEF Midway, Works
<1>15. catalog'[t] = s /\ t \in DOMAIN catalog'
  BY <1>1 DEF With
<1>16. HalfDone(The(s, n), ops[s][n], s)'
  BY <1>1, <1>2, <1>3, <1>4, <1>13, <1>15 DEF HalfDone
<1>17. Creating(s, n)'
  BY <1>1, <1>3, <1>5, <1>8, <1>9, <1>11, <1>13, <1>15 DEF Creating, Untried, Enlisted
<1>18. Owns(s, n)'
  BY <1>14, <1>16, <1>17 DEF Owns
<1>19. Slices'
  <2>1. \A e \in DOMAIN columns' : IsList(columns'[e])
    BY <1>1, <1>2, <1>3, <1>8, CreatedIs DEF Slices, made
  <2>2. \A h \in DOMAIN heap' : IsList(heap'[h]) /\ \A i \in DOMAIN heap'[h] : IsList(heap'[h][i])
    BY <1>1, <1>3 DEF Slices
  <2>3. DOMAIN columns \subseteq DOMAIN columns' /\ AtWork(s)
    BY <1>3, <1>8 DEF Works
  <2>4. QED
    BY <1>11, <2>1, <2>2, <2>3, SlicesMade
<1>20. Redefines(s, n)
  BY <1>2, <1>3, <1>7, <1>18, <1>19 DEF Redefines, N
<1>21. QED
  BY <1>3, <1>20, LocalKeeps

\* The heap is made; CREATE TABLE AS looks it up next.
LEMMA WentToFetch ==
  ASSUME LifeInv, TablesInv, NEW s \in Stmt, Alone(s), NEW n, AtDefinition(s, n), pc' = pc,
         Goto(s, "fetch", 1), ops' = ops
  PROVE  AtWork(s)' /\ ops'[s][n] = Op(s) /\ Shaped(s) /\ At(s, n)' = "fetch"
<1>1. stack[s] # <<>> /\ n = Top(s).node /\ Formed(Op(s)) /\ script' = script
  BY DefinitionIs DEF AtDefinition, Alone
<1>2. GoingOn(s, Op(s), "fetch", 1)
  BY <1>1 DEF GoingOn, Shapes
<1>3. AtWork(s)' /\ ops'[s][n] = Op(s) /\ Shaped(s)
  BY <1>1, <1>2, WentOn
<1>4. \A m : At(s, m)' = IF m = Top(s).node THEN "fetch" ELSE At(s, m)
  BY <1>1, <1>2, WentOn
<1>5. QED
  BY <1>1, <1>3, <1>4

\* CREATE TABLE makes an empty heap, which fits any table.
LEMMA CreateHeapKeeps ==
  ASSUME LifeInv, TablesInv, Apart, NEW s \in Stmt, Alone(s), CreateHeap(s)
  PROVE  TablesInv'
<1> SUFFICES ASSUME NEW n, n = Top(s).node PROVE TablesInv'
  OBVIOUS
<1> DEFINE t == Node(s).table
           N == NamesOf(The(s, n))
<1>1. /\ stack[s] # <<>> /\ Top(s).method = "open" /\ Top(s).step = "create"
      /\ UNCHANGED <<catalog, columns, pc>> /\ script' = script
  BY DEF CreateHeap, In, Alone
<1>2. /\ AtDefinition(s, n) /\ Node(s).kind = "create" /\ Creating(s, n) /\ HalfDone(The(s, n), Op(s), s)
  BY <1>1, MidwayIs
<1>3. /\ Works(s, n, Definitions) /\ n \in DOMAIN script[s].nodes /\ Node(s) = The(s, n) /\ Op(s) = ops[s][n]
      /\ At(s, n) = "create" /\ Formed(Op(s)) /\ Registry(storage, heap) /\ Slices
  BY <1>1, <1>2, DefinitionIs
<1>4. t \in DOMAIN catalog /\ catalog[t] = s /\ t \notin DOMAIN storage
  BY <1>2, <1>3 DEF HalfDone
<1>5. Enlisted(The(s, n), Op(s), s) /\ s \notin DOMAIN heap
  BY <1>2, <1>3 DEF Creating, Works
<1>6. /\ storage' = With(storage, t, s) /\ heap' = With(heap, s, <<>>)
      /\ Return(s, Ok) \/ (Goto(s, "fetch", 1) /\ ops' = ops)
  BY <1>4 DEF CreateHeap
<1>7. t \in N /\ N = {t} /\ The(s, n)' = The(s, n)
  BY <1>1, <1>2, <1>3 DEF NamesOf, The
<1> HIDE DEF N
<1>8. Local(N, storage, heap, storage', heap', s)
  BY <1>3, <1>4, <1>5, <1>6, <1>7, LocalWith
<1>9. /\ t \in DOMAIN storage' /\ storage'[t] = s /\ heap'[s] = <<>>
      /\ DOMAIN heap' = DOMAIN heap \union {s} /\ \A h \in DOMAIN heap : heap'[h] = heap[h]
  BY <1>5, <1>6 DEF With
<1>10. ASSUME NEW u, u = t PROVE Coherent(u)'
  BY <1>1, <1>4, <1>9, <1>10 DEF Coherent, Wide
<1>11. Creating(s, n)' /\ Shaped(s)
  <2>1. CASE Return(s, Ok)
    BY <1>1, <1>2, <2>1, DefinitionReturns
  <2>2. CASE Goto(s, "fetch", 1) /\ ops' = ops
    <3>1. AtWork(s)' /\ ops'[s][n] = Op(s) /\ Shaped(s) /\ At(s, n)' = "fetch"
      BY <1>1, <1>2, <1>3, <2>2, WentToFetch
    <3>2. Enlisted(The(s, n), ops[s][n], s)' /\ Backed(The(s, n), s)'
      BY <1>1, <1>3, <1>5, <1>7, <1>9, <3>1 DEF Enlisted, Backed
    <3>3. QED
      BY <3>1, <3>2 DEF Creating, Untried
  <2>3. QED
    BY <1>6, <2>1, <2>2
<1>12. ~Midway(s, n)'
  <2>1. CASE Return(s, Ok)
    BY <1>1, <1>2, <2>1, DefinitionReturns
  <2>2. CASE Goto(s, "fetch", 1) /\ ops' = ops
    <3>1. At(s, n)' = "fetch"
      BY <1>1, <1>2, <1>3, <2>2, WentToFetch
    <3>2. QED
      BY <3>1 DEF Midway
  <2>3. QED
    BY <1>6, <2>1, <2>2
<1>13. Owns(s, n)'
  BY <1>7, <1>10, <1>11, <1>12 DEF Owns, N
<1>14. \A h \in DOMAIN heap' : IsList(heap'[h]) /\ \A i \in DOMAIN heap'[h] : IsList(heap'[h][i])
  <2>1. IsList(<<>>) /\ DOMAIN <<>> = {}
    BY DEF IsList
  <2>2. QED
    BY <1>3, <1>9, <2>1 DEF Slices
<1>15. QED
  BY <1>1, <1>2, <1>8, <1>11, <1>13, <1>14, StorageKeeps DEF N

\* CREATE TABLE AS finds the heap it has made.
LEMMA FetchHeapKeeps ==
  ASSUME LifeInv, TablesInv, Apart, NEW s \in Stmt, Alone(s), FetchHeap(s)
  PROVE  TablesInv'
<1> SUFFICES ASSUME NEW n, n = Top(s).node PROVE TablesInv'
  OBVIOUS
<1> DEFINE t == Node(s).table
           N == NamesOf(The(s, n))
           op == [Op(s) EXCEPT !.heap = s]
<1>1. /\ stack[s] # <<>> /\ Top(s).method = "open" /\ Top(s).step = "fetch"
      /\ UNCHANGED <<catalog, columns, storage, heap, pc>> /\ script' = script
  BY DEF FetchHeap, In, Alone, tables
<1>2. AtDefinition(s, n) /\ Node(s).kind = "create" /\ Creating(s, n)
  BY <1>1, MidwayIs
<1>3. /\ Works(s, n, Definitions) /\ n \in DOMAIN script[s].nodes /\ Node(s) = The(s, n) /\ Op(s) = ops[s][n]
      /\ At(s, n) = "fetch" /\ Formed(Op(s)) /\ Registry(storage, heap) /\ Slices
  BY <1>1, <1>2, DefinitionIs
<1>4. Enlisted(The(s, n), Op(s), s) /\ t \in DOMAIN storage /\ storage[t] = s
  BY <1>2, <1>3 DEF Creating, Backed, Works
<1>5. GotoWith(s, op, "pull", 1)
  BY <1>4 DEF FetchHeap
<1>6. /\ Shapes(Op(s), op) /\ op.state = Op(s).state /\ op.table = Op(s).table
      /\ op.count = Op(s).count /\ op.heap = s
  BY <1>3, FormedIs DEF Shapes
<1> HIDE DEF op
<1>7. GoingOn(s, op, "pull", 1)
  BY <1>1, <1>5, <1>6 DEF GoingOn, GotoWith
<1>8. AtWork(s)' /\ ops'[s][n] = op /\ Shaped(s) /\ The(s, n)' = The(s, n)
  BY <1>1, <1>2, <1>7, WentOn DEF AtDefinition, The
<1>9. \A m : At(s, m)' = IF m = Top(s).node THEN "pull" ELSE At(s, m)
  BY <1>1, <1>7, WentOn
<1>10. At(s, n)' = "pull"
  BY <1>1, <1>2, <1>9 DEF AtDefinition
<1>11. Enlisted(The(s, n), ops[s][n], s)' /\ Backed(The(s, n), s)'
  BY <1>1, <1>3, <1>4, <1>6, <1>8 DEF Enlisted, Backed
<1>12. Creating(s, n)' /\ ~Midway(s, n)'
  BY <1>6, <1>8, <1>10, <1>11 DEF Creating, Untried, Midway
<1>13. \A u \in N : Coherent(u)'
  <2>1. \A u \in N : Coherent(u)
    BY <1>2, <1>3, NamesCoherent DEF Midway
  <2>2. QED
    BY <1>1, <2>1 DEF Coherent
<1>14. Owns(s, n)'
  BY <1>8, <1>12, <1>13 DEF Owns
<1> HIDE DEF N
<1>15. Local(N, storage, heap, storage', heap', s)
  BY <1>1, <1>3, LocalSame
<1>16. \A h \in DOMAIN heap' : IsList(heap'[h]) /\ \A i \in DOMAIN heap'[h] : IsList(heap'[h][i])
  BY <1>1, <1>3 DEF Slices
<1>17. QED
  BY <1>1, <1>2, <1>8, <1>14, <1>15, <1>16, StorageKeeps DEF N

\* What the second step of an ALTER or DROP TABLE does, by kind.
LEMMA StorageStep ==
  ASSUME LifeInv, TablesInv, NEW s \in Stmt, Alone(s), ChangeStorage(s), NEW n, n = Top(s).node
  PROVE  /\ AtDefinition(s, n) /\ HalfDone(The(s, n), Op(s), s)
         /\ UNCHANGED <<catalog, columns>> /\ script' = script /\ The(s, n)' = The(s, n) /\ Node(s) = The(s, n)
         /\ Node(s).kind \in Definitions \ {"create", "rename column"}
         /\ ~Midway(s, n)' /\ Creating(s, n)' /\ Shaped(s)
         /\ Registry(storage, heap) /\ Slices
         /\ IsPlan(Plan(s)) /\ Node(s).table \in NamesOf(The(s, n))
<1>1. /\ stack[s] # <<>> /\ Top(s).method = "open" /\ Top(s).step = "storage" /\ pc' = pc /\ Return(s, Ok)
      /\ UNCHANGED <<catalog, columns>> /\ script' = script /\ The(s, n)' = The(s, n)
  BY DEF ChangeStorage, In, Alone, The
<1>2. /\ AtDefinition(s, n) /\ HalfDone(The(s, n), Op(s), s) /\ Node(s).kind # "create"
  BY <1>1, MidwayIs
<1>3. /\ Works(s, n, Definitions) /\ Node(s) = The(s, n) /\ Registry(storage, heap) /\ Slices
  BY <1>2, DefinitionIs
<1>4. ~Midway(s, n)' /\ Creating(s, n)' /\ Shaped(s)
  BY <1>1, <1>2, DefinitionReturns
<1>5. Node(s).kind \in Definitions \ {"create", "rename column"}
  BY <1>2, <1>3 DEF HalfDone, AtDefinition
<1>6. IsPlan(Plan(s))
  BY <1>1, TopFrame, NodeKids
<1>7. Node(s).table \in NamesOf(The(s, n))
  BY <1>3 DEF NamesOf
<1>8. QED
  BY <1>1, <1>2, <1>3, <1>4, <1>5, <1>6, <1>7

\* DROP TABLE takes the name out of the storage: it is in neither registry now.
LEMMA DropHeapKeeps ==
  ASSUME LifeInv, TablesInv, Apart, NEW s \in Stmt, Alone(s), ChangeStorage(s), Node(s).kind = "drop"
  PROVE  TablesInv'
<1> SUFFICES ASSUME NEW n, n = Top(s).node PROVE TablesInv'
  OBVIOUS
<1> DEFINE t == Node(s).table
           N == NamesOf(The(s, n))
<1>1. storage' = Without(storage, t) /\ heap' = heap
  BY DEF ChangeStorage
<1>2. /\ AtDefinition(s, n) /\ HalfDone(The(s, n), Op(s), s)
      /\ UNCHANGED <<catalog, columns>> /\ The(s, n)' = The(s, n) /\ Node(s) = The(s, n)
      /\ ~Midway(s, n)' /\ Creating(s, n)' /\ Shaped(s) /\ Registry(storage, heap) /\ Slices /\ t \in N
  BY StorageStep
<1>3. t \notin DOMAIN catalog /\ N = {t}
  BY <1>2 DEF HalfDone, NamesOf
<1> HIDE DEF N
<1>4. Local(N, storage, heap, storage', heap', s) /\ Restricts(storage, storage') /\ t \notin DOMAIN storage'
  BY <1>1, <1>2, LocalWithout
<1>5. ASSUME NEW u, u = t PROVE Coherent(u)'
  BY <1>2, <1>3, <1>4, <1>5 DEF Coherent
<1>6. Owns(s, n)'
  BY <1>2, <1>3, <1>5 DEF Owns, N
<1>7. \A h \in DOMAIN heap' : IsList(heap'[h]) /\ \A i \in DOMAIN heap'[h] : IsList(heap'[h][i])
  BY <1>1, <1>2 DEF Slices
<1>8. QED
  BY <1>1, <1>2, <1>4, <1>6, <1>7, StorageKeeps DEF N

\* RENAME TO: the heap has the new name in the storage too.
LEMMA RenameHeapKeeps ==
  ASSUME LifeInv, TablesInv, Apart, NEW s \in Stmt, Alone(s), ChangeStorage(s), Node(s).kind = "rename"
  PROVE  TablesInv'
<1> SUFFICES ASSUME NEW n, n = Top(s).node PROVE TablesInv'
  OBVIOUS
<1> DEFINE t == Node(s).table
           new == Node(s).new
           N == NamesOf(The(s, n))
<1>1. /\ AtDefinition(s, n) /\ HalfDone(The(s, n), Op(s), s)
      /\ UNCHANGED <<catalog, columns>> /\ The(s, n)' = The(s, n) /\ Node(s) = The(s, n)
      /\ ~Midway(s, n)' /\ Creating(s, n)' /\ Shaped(s) /\ Registry(storage, heap) /\ Slices /\ t \in N
  BY StorageStep
<1>2. /\ t \notin DOMAIN catalog /\ t \in DOMAIN storage /\ new \in DOMAIN catalog /\ new \notin DOMAIN storage
      /\ Wide(heap[storage[t]], Len(columns[catalog[new]])) /\ N = {t, new} /\ new \in N
  BY <1>1 DEF HalfDone, NamesOf
<1>3. storage' = Without(With(storage, new, storage[t]), t) /\ heap' = heap
  BY <1>2 DEF ChangeStorage
<1> HIDE DEF N, t, new
<1>4. Local(N, storage, heap, storage', heap, s)
  BY <1>1, <1>2, <1>3, LocalRenamed
<1>5. t \notin DOMAIN storage' /\ new \in DOMAIN storage' /\ storage'[new] = storage[t]
  BY <1>2, <1>3 DEF With, Without
<1>6. ASSUME NEW u, u = t \/ u = new PROVE Coherent(u)'
  BY <1>1, <1>2, <1>3, <1>5, <1>6 DEF Coherent
<1>7. Owns(s, n)'
  BY <1>1, <1>2, <1>6 DEF Owns, N
<1>8. \A h \in DOMAIN heap' : IsList(heap'[h]) /\ \A i \in DOMAIN heap'[h] : IsList(heap'[h][i])
  BY <1>1, <1>3 DEF Slices
<1>9. QED
  BY <1>1, <1>3, <1>4, <1>7, <1>8, StorageKeeps DEF N

\* The row of a table that has a column more or less.
LEMMA RowAppended ==
  ASSUME NEW s, Node(s).kind = "add column", NEW row, IsList(row)
  PROVE  IsList(Reshaped(s, row)) /\ Len(Reshaped(s, row)) = Len(row) + 1
<1> DEFINE v == ValueOrNull(Node(s).default, Tuple(<<>>, <<>>))
<1>1. Reshaped(s, row) = Append(row, v)
  BY DEF Reshaped
<1> HIDE DEF v
<1>2. IsList(Append(row, v)) /\ Len(Append(row, v)) = Len(row) + 1
  BY ListAppend
<1>3. QED
  BY <1>1, <1>2

LEMMA RowCut ==
  ASSUME NEW s, Node(s).kind = "drop column", NEW row, IsList(row), Op(s).count \in 1 .. Len(row)
  PROVE  IsList(Reshaped(s, row)) /\ Len(Reshaped(s, row)) = Len(row) - 1
<1>1. Op(s).count <= Len(row)
  <2>1. Op(s).count \in 1 .. Len(row)
    OBVIOUS
  <2>2. Len(row) \in Nat
    BY ListIs
  <2> HIDE DEF Op
  <2>3. QED
    BY ONLY <2>1, <2>2
<1>2. Reshaped(s, row) = DropAt(row, Op(s).count)
  BY <1>1 DEF Reshaped
<1>3. IsList(DropAt(row, Op(s).count)) /\ Len(DropAt(row, Op(s).count)) = Len(row) - 1
  BY ListWithout
<1>4. QED
  BY <1>2, <1>3

\* Every row of the table's heap has been reshaped, and is as wide as the table.
LEMMA ReshapedKeeps ==
  ASSUME LifeInv, TablesInv, Apart, NEW s \in Stmt, Alone(s), ChangeStorage(s),
         Node(s).kind \in {"add column", "drop column"}, NEW width,
         Node(s).table \in DOMAIN catalog, Node(s).table \in DOMAIN storage,
         width = Len(columns[catalog[Node(s).table]]),
         \A i \in DOMAIN heap[storage[Node(s).table]] :
           LET row == heap[storage[Node(s).table]][i]
           IN  IsList(row) => IsList(Reshaped(s, row)) /\ Len(Reshaped(s, row)) = width
  PROVE  TablesInv'
<1> SUFFICES ASSUME NEW n, n = Top(s).node PROVE TablesInv'
  OBVIOUS
<1> DEFINE t == Node(s).table
           N == NamesOf(The(s, n))
           h == storage[t]
           rows == [i \in DOMAIN heap[h] |-> Reshaped(s, heap[h][i])]
<1>1. Node(s).kind \notin {"create", "drop", "rename"}
  OBVIOUS
<1>2. /\ AtDefinition(s, n)
      /\ UNCHANGED <<catalog, columns>> /\ The(s, n)' = The(s, n) /\ Node(s) = The(s, n)
      /\ ~Midway(s, n)' /\ Creating(s, n)' /\ Shaped(s) /\ Registry(storage, heap) /\ Slices /\ t \in N
  BY StorageStep
<1>3. storage' = storage /\ heap' = [heap EXCEPT ![h] = rows]
  BY DEF ChangeStorage
<1>4. h \in DOMAIN heap /\ IsList(heap[h]) /\ \A i \in DOMAIN heap[h] : IsList(heap[h][i])
  BY <1>2 DEF Registry, Slices
<1>5. \A i \in DOMAIN heap[h] : IsList(Reshaped(s, heap[h][i])) /\ Len(Reshaped(s, heap[h][i])) = width
  BY <1>4
<1>6. rows = [i \in DOMAIN heap[h] |-> rows[i]]
  OBVIOUS
<1>7. \A i \in DOMAIN rows : IsList(rows[i]) /\ Len(rows[i]) = width
  BY <1>5
<1>8. width = Len(columns[catalog[t]]) /\ t \in DOMAIN catalog /\ t \in DOMAIN storage
  OBVIOUS
<1>9. N = {t}
  BY <1>2, <1>1 DEF NamesOf
<1> HIDE DEF N, rows, h
<1>10. IsList(rows)
  BY <1>4, <1>6, ListMapped
<1>11. heap'[h] = rows /\ \A k \in DOMAIN heap' : k \in DOMAIN heap /\ (k # h => heap'[k] = heap[k])
  BY ONLY <1>3, <1>4
<1>12. Local(N, storage, heap, storage', heap', s)
  <2>1. Local(N, storage, heap, storage, [heap EXCEPT ![storage[t]] = rows], s)
    BY <1>2, <1>8, LocalData
  <2>2. QED
    BY <1>3, <2>1 DEF h
<1>13. ASSUME NEW u, u = t PROVE Coherent(u)'
  <2>1. Wide(heap'[h], width)
    BY ONLY <1>7, <1>11 DEF Wide
  <2>2. t \in DOMAIN catalog' /\ t \in DOMAIN storage' /\ storage'[t] = h /\ Len(columns'[catalog'[t]]) = width
    BY ONLY <1>2, <1>3, <1>8 DEF h
  <2> HIDE DEF t
  <2>3. QED
    BY ONLY <1>13, <2>1, <2>2 DEF Coherent
<1>14. Owns(s, n)'
  BY <1>2, <1>9, <1>13 DEF Owns, N
<1>15. \A k \in DOMAIN heap' : IsList(heap'[k]) /\ \A i \in DOMAIN heap'[k] : IsList(heap'[k][i])
  BY ONLY <1>2, <1>7, <1>10, <1>11 DEF Slices
<1>16. QED
  BY <1>1, <1>2, <1>12, <1>14, <1>15, StorageKeeps DEF N

\* ADD COLUMN and DROP COLUMN end with rows as wide as the table again.
LEMMA ReshapeKeeps ==
  ASSUME LifeInv, TablesInv, Apart, NEW s \in Stmt, Alone(s), ChangeStorage(s),
         Node(s).kind \in {"add column", "drop column"}
  PROVE  TablesInv'
<1> SUFFICES ASSUME NEW n, n = Top(s).node PROVE TablesInv'
  OBVIOUS
<1> DEFINE t == Node(s).table
           width == Len(columns[catalog[t]])
<1>1. HalfDone(Node(s), Op(s), s)
  BY StorageStep
<1>2. t \in DOMAIN catalog /\ t \in DOMAIN storage
  BY <1>1 DEF HalfDone
<1>3. width \in Nat
  <2>1. catalog[t] \in DOMAIN columns /\ Slices
    BY <1>2 DEF TablesInv, Registries
  <2>2. IsList(columns[catalog[t]])
    BY <2>1 DEF Slices
  <2>3. QED
    BY <2>2, ListIs
<1>4. CASE Node(s).kind = "add column"
  <2>1. Wide(heap[storage[t]], width - 1)
    BY <1>1, <1>4 DEF HalfDone
  <2>2. ASSUME NEW i \in DOMAIN heap[storage[t]], IsList(heap[storage[t]][i])
        PROVE  IsList(Reshaped(s, heap[storage[t]][i])) /\ Len(Reshaped(s, heap[storage[t]][i])) = width
    <3> DEFINE row == heap[storage[t]][i]
    <3>1. Len(row) = width - 1
      BY <2>1 DEF Wide
    <3>2. IsList(Reshaped(s, row)) /\ Len(Reshaped(s, row)) = Len(row) + 1
      BY <1>4, <2>2, RowAppended
    <3> HIDE DEF row, width
    <3>3. Len(Reshaped(s, row)) = width
      BY ONLY <1>3, <3>1, <3>2
    <3>4. QED
      BY <3>2, <3>3 DEF row
  <2>3. QED
    BY <1>2, <2>2, ReshapedKeeps
<1>5. CASE Node(s).kind = "drop column"
  <2>1. Wide(heap[storage[t]], width + 1) /\ Op(s).count \in 1 .. width + 1
    BY <1>1, <1>5 DEF HalfDone
  <2>2. ASSUME NEW i \in DOMAIN heap[storage[t]], IsList(heap[storage[t]][i])
        PROVE  IsList(Reshaped(s, heap[storage[t]][i])) /\ Len(Reshaped(s, heap[storage[t]][i])) = width
    <3> DEFINE row == heap[storage[t]][i]
    <3>1. Len(row) = width + 1
      BY <2>1 DEF Wide
    <3>2. IsList(Reshaped(s, row)) /\ Len(Reshaped(s, row)) = Len(row) - 1
      BY <1>5, <2>1, <2>2, <3>1, RowCut
    <3> HIDE DEF row, width
    <3>3. Len(Reshaped(s, row)) = width
      BY ONLY <1>3, <3>1, <3>2
    <3>4. QED
      BY <3>2, <3>3 DEF row
  <2>3. QED
    BY <1>2, <2>2, ReshapedKeeps
<1>6. QED
  BY <1>4, <1>5

\* The second step of any definition.
LEMMA ChangeStorageKeeps ==
  ASSUME LifeInv, TablesInv, Apart, NEW s \in Stmt, Alone(s), ChangeStorage(s)
  PROVE  TablesInv'
<1>1. Node(s).kind \in Definitions \ {"create", "rename column"}
  <2> SUFFICES ASSUME NEW n, n = Top(s).node PROVE Node(s).kind \in Definitions \ {"create", "rename column"}
    OBVIOUS
  <2>1. QED
    BY StorageStep
<1>2. Node(s).kind \in {"add column", "drop column"} \/ Node(s).kind = "drop" \/ Node(s).kind = "rename"
  BY <1>1 DEF Definitions
<1>3. QED
  BY <1>2, DropHeapKeeps, RenameHeapKeeps, ReshapeKeeps

-----------------------------------------------------------------------------
(* A statement begins: what it holds from now on is what its tables name.    *)

\* No operator of a statement that begins has done anything.
LEMMA BeginIs ==
  ASSUME LifeInv, LifeInv', NEW s \in Stmt, Alone(s), Begin(s)
  PROVE  /\ UNCHANGED <<catalog, columns, storage, heap>> /\ ~AtWork(s) /\ ~Ended(s)
         /\ \A n : At(s, n) = "out" /\ At(s, n)' \in {"out", "enter"}
         /\ \A n \in DOMAIN script[s].nodes : ops[s][n] = Blank
         /\ DOMAIN ops[s] = DOMAIN script[s].nodes /\ DOMAIN ops'[s] = DOMAIN script[s].nodes
         /\ IsPlan(script[s].nodes)
         /\ ~AtWork(s)' => ops' = ops
         /\ AtWork(s)' => \A n \in DOMAIN script[s].nodes :
              IF The(s, n).kind \in NamesTable
              THEN /\ The(s, n).table \in DOMAIN catalog
                   /\ ops'[s][n] = [Blank EXCEPT !.table = catalog[The(s, n).table]]
              ELSE ops'[s][n] = Blank
<1>1. UNCHANGED <<catalog, columns, storage, heap>> /\ pc[s] = "idle"
  BY DEF Begin, tables
<1>2. ~AtWork(s) /\ ~Ended(s) /\ stack[s] = <<>> /\ DOMAIN ops[s] = DOMAIN script[s].nodes /\ IsPlan(script[s].nodes)
  BY <1>1, Working DEF Plan
<1>3. \A n \in DOMAIN script[s].nodes : ops[s][n] = Blank
  BY <1>1 DEF LifeInv, Lives
<1>4. \A n : At(s, n) = "out"
  <2>1. Len(stack[s]) = 0
    BY <1>2
  <2>2. QED
    BY <2>1, StepNone DEF At
<1> DEFINE nodes == script[s].nodes
           naming == {n \in DOMAIN nodes : nodes[n].kind \in NamesTable}
           known == \A n \in naming : nodes[n].table \in DOMAIN catalog
           new == [n \in DOMAIN nodes |->
                     IF n \in naming THEN [Blank EXCEPT !.table = catalog[nodes[n].table]] ELSE Blank]
<1>5. CASE pc' = [pc EXCEPT ![s] = "rejected"] /\ UNCHANGED <<stack, reply, ops>>
  <2>1. ~AtWork(s)'
    BY <1>5 DEF LifeInv, AtWork, Ended
  <2>2. \A n : At(s, n)' = "out"
    BY <1>4, <1>5 DEF At
  <2>3. QED
    BY <1>1, <1>2, <1>3, <1>4, <1>5, <2>1, <2>2
<1>6. CASE /\ known /\ pc' = [pc EXCEPT ![s] = "opening"]
           /\ Call(s, 1, "open") /\ ops' = [ops EXCEPT ![s] = new]
  <2>1. AtWork(s)'
    BY <1>6 DEF LifeInv, AtWork, Ended
  <2> DEFINE f == [node |-> 1, method |-> "open", step |-> "enter", kid |-> 1]
  <2>2. stack'[s] = <<f>> \o <<>>
    BY <1>2, <1>6 DEF Call, Called, LifeInv
  <2>3. f.step = "enter"
    OBVIOUS
  <2> HIDE DEF f
  <2>4. Len(stack'[s]) = 1 /\ stack'[s][1] = f
    BY <2>2
  <2>5. ASSUME NEW n PROVE StepIn(stack'[s], n) \in {"out", "enter"}
    <3> DEFINE at == {i \in 1 .. Len(stack'[s]) : stack'[s][i].node = n}
    <3>1. \A i \in at : stack'[s][i].step = "enter"
      BY <2>3, <2>4
    <3>2. CASE at = {}
      BY <3>2 DEF StepIn
    <3>3. CASE at # {}
      <4>1. (CHOOSE i \in at : TRUE) \in at
        BY <3>3
      <4>2. QED
        BY <3>1, <3>3, <4>1 DEF StepIn
    <3>4. QED
      BY <3>2, <3>3
  <2>6. \A n : At(s, n)' \in {"out", "enter"}
    BY <2>5 DEF At
  <2>7. ops'[s] = new
    BY <1>6 DEF LifeInv
  <2>8. DOMAIN ops'[s] = DOMAIN script[s].nodes
    BY <2>7
  <2>9. \A n \in DOMAIN script[s].nodes :
          IF The(s, n).kind \in NamesTable
          THEN /\ The(s, n).table \in DOMAIN catalog
               /\ ops'[s][n] = [Blank EXCEPT !.table = catalog[The(s, n).table]]
          ELSE ops'[s][n] = Blank
    BY <1>6, <2>7 DEF The
  <2>10. QED
    BY <1>1, <1>2, <1>3, <1>4, <2>1, <2>6, <2>8, <2>9
<1>7. QED
  BY <1>5, <1>6 DEF Begin

LEMMA BlankFormed ==
  ASSUME NEW e
  PROVE  LET op == [Blank EXCEPT !.table = e]
         IN  /\ DOMAIN op = DOMAIN Blank /\ op.schema = <<>> /\ op.table = e
             /\ Blank.schema = <<>> /\ Blank.state = "new" /\ op.state = "new"
  BY DEF Blank

LEMMA BeginSlices ==
  ASSUME LifeInv, LifeInv', TablesInv, NEW s \in Stmt, Alone(s), Begin(s)
  PROVE  Slices'
<1>1. Slices /\ Registries /\ UNCHANGED <<columns, heap, script>>
  BY BeginIs DEF TablesInv, Alone
<1>2. IsList(<<>>)
  BY DEF IsList
<1>3. ASSUME NEW n \in DOMAIN ops'[s]
      PROVE  DOMAIN ops'[s][n] = DOMAIN Blank /\ IsList(ops'[s][n].schema)
  <2>1. n \in DOMAIN script[s].nodes
    BY <1>3, BeginIs
  <2>2. CASE AtWork(s)'
    <3>1. \/ ops'[s][n] = [Blank EXCEPT !.table = catalog[The(s, n).table]]
          \/ ops'[s][n] = Blank
      BY <2>1, <2>2, BeginIs
    <3>2. QED
      BY <1>2, <3>1, BlankFormed
  <2>3. CASE ~AtWork(s)'
    BY <1>2, <2>1, <2>3, BeginIs, BlankFormed
  <2>4. QED
    BY <2>2, <2>3
<1>4. ASSUME NEW n \in DOMAIN script[s].nodes, Works(s, n, {"scan"})'
      PROVE  ops'[s][n].table \in DOMAIN columns'
  <2>1. AtWork(s)' /\ The(s, n).kind = "scan"
    BY <1>1, <1>4 DEF Works, The
  <2>2. The(s, n).table \in DOMAIN catalog /\ ops'[s][n] = [Blank EXCEPT !.table = catalog[The(s, n).table]]
    BY <2>1, BeginIs DEF NamesTable
  <2>3. ops'[s][n].table = catalog[The(s, n).table]
    BY <2>2, BlankFormed
  <2>4. QED
    BY <1>1, <2>2, <2>3 DEF Registries
<1>5. ASSUME NEW r \in Stmt, r # s, NEW n \in DOMAIN script[r].nodes, Works(r, n, {"scan"})'
      PROVE  ops'[r][n].table \in DOMAIN columns'
  <2>1. Works(r, n, {"scan"}) /\ ops'[r] = ops[r]
    BY <1>5, AloneKeeps
  <2>2. QED
    BY <1>1, <2>1 DEF Slices
<1>6. ASSUME NEW r \in Stmt, r # s, NEW n \in DOMAIN ops'[r]
      PROVE  DOMAIN ops'[r][n] = DOMAIN Blank /\ IsList(ops'[r][n].schema)
  <2>1. ops'[r] = ops[r]
    BY <1>6, AloneKeeps
  <2>2. QED
    BY <1>1, <1>6, <2>1 DEF Slices
<1>7. \A e \in DOMAIN columns' : IsList(columns'[e])
  BY <1>1 DEF Slices
<1>8. \A h \in DOMAIN heap' : IsList(heap'[h]) /\ \A i \in DOMAIN heap'[h] : IsList(heap'[h][i])
  BY <1>1 DEF Slices
<1>9. \A r \in Stmt : \A n \in DOMAIN ops'[r] : DOMAIN ops'[r][n] = DOMAIN Blank /\ IsList(ops'[r][n].schema)
  BY <1>3, <1>6
<1>10. \A r \in Stmt : \A n \in DOMAIN script[r].nodes : Works(r, n, {"scan"})' => ops'[r][n].table \in DOMAIN columns'
  BY <1>4, <1>5
<1>11. QED
  BY <1>1, <1>7, <1>8, <1>9, <1>10 DEF Slices

\* The table an INSERT finds is not in the middle of being defined.
LEMMA BeginHolds ==
  ASSUME LifeInv, LifeInv', TablesInv, Apart', NEW s \in Stmt, Alone(s), Begin(s),
         NEW n \in DOMAIN script[s].nodes, Works(s, n, {"insert"})'
  PROVE  /\ The(s, n).table \in DOMAIN catalog /\ ops'[s][n].table = catalog[The(s, n).table]
         /\ Holds(The(s, n), ops[s][n].table)'
<1> DEFINE u == The(s, n).table
<1>1. /\ UNCHANGED <<catalog, columns, storage, heap, script>> /\ The(s, n)' = The(s, n)
      /\ ~AtWork(s) /\ AtWork(s)' /\ The(s, n).kind = "insert"
  BY BeginIs DEF Alone, The, Works
<1>2. u \in DOMAIN catalog /\ ops'[s][n] = [Blank EXCEPT !.table = catalog[u]]
  BY <1>1, BeginIs DEF NamesTable
<1>3. ops'[s][n].table = catalog[u]
  BY <1>2, BlankFormed
<1>4. ~Underhand(u)
  <2> SUFFICES ASSUME NEW r \in Stmt, NEW m \in DOMAIN script[r].nodes, Midway(r, m), u \in NamesOf(The(r, m))
               PROVE  FALSE
    BY DEF Underhand
  <2>1. r # s /\ The(r, m).kind \in Definitions
    BY <1>1 DEF Midway, Works
  <2>2. AtWork(r)'
    BY <2>1, AloneKeeps DEF Midway, Works
  <2>3. ~Meet(The(r, m), The(s, n))
    BY <1>1, <2>1, <2>2 DEF Apart, The
  <2>4. u \in NamesOf(The(s, n))
    BY DEF NamesOf
  <2>5. The(r, m).kind = "drop"
    BY <1>1, <2>1, <2>3, <2>4 DEF Meet
  <2>6. HalfDone(The(r, m), ops[r][m], r)
    BY DEF TablesInv, DefinesInv
  <2>7. u = The(r, m).table
    BY <2>5 DEF NamesOf
  <2>8. QED
    BY <1>2, <2>5, <2>6, <2>7 DEF HalfDone
<1>5. Coherent(u)
  BY <1>2, <1>4 DEF TablesInv, NamesInv
<1>6. Registries
  BY DEF TablesInv
<1>7. Holds(The(s, n), ops[s][n].table)'
  BY <1>1, <1>2, <1>3, <1>5, <1>6 DEF Holds, Coherent, Registries
<1>8. QED
  BY <1>2, <1>3, <1>7

\* A statement that begins finds its names coherent: nobody it meets is at work.
LEMMA BeginKeeps ==
  ASSUME LifeInv, LifeInv', TablesInv, Apart', NEW s \in Stmt, Alone(s), Begin(s)
  PROVE  TablesInv'
<1>1. /\ UNCHANGED <<catalog, columns, storage, heap, script>> /\ ~AtWork(s) /\ ~Ended(s)
      /\ \A n : At(s, n) = "out" /\ At(s, n)' \in {"out", "enter"}
  BY BeginIs DEF Alone
<1>2. Registries' /\ Slices'
  BY <1>1, BeginSlices DEF TablesInv, Registries
<1>3. \A n \in DOMAIN script[s].nodes : ~Midway(s, n) /\ ~Midway(s, n)'
  BY <1>1 DEF Midway
<1>4. NamesInv'
  <2>1. \A t : Underhand(t)' <=> Underhand(t)
    BY <1>3, NamesSame
  <2>2. \A t : Coherent(t)' <=> Coherent(t)
    BY <1>1 DEF Coherent
  <2>3. QED
    BY <1>1, <2>1, <2>2 DEF TablesInv, NamesInv
<1>5. ASSUME NEW r \in Stmt, r # s
      PROVE  DefinesInv(r)' /\ CreatesInv(r)' /\ InsertsInv(r)'
  <2>1. /\ (AtWork(r)' <=> AtWork(r)) /\ (Ended(r)' <=> Ended(r)) /\ ops'[r] = ops[r]
        /\ \A n : At(r, n)' = At(r, n) /\ The(r, n)' = The(r, n) /\ (Midway(r, n)' <=> Midway(r, n))
        /\ \A n : Works(r, n, {"insert"})' <=> Works(r, n, {"insert"})
    BY <1>5, AloneKeeps
  <2>2. DefinesInv(r) /\ CreatesInv(r) /\ InsertsInv(r)
    BY DEF TablesInv
  <2>3. DefinesInv(r)'
    <3>1. \A m : The(r, m)' = The(r, m) /\ ops'[r][m] = ops[r][m] /\ (Midway(r, m)' <=> Midway(r, m))
      BY <2>1
    <3>2. ASSUME NEW m, HalfDone(The(r, m), ops[r][m], r) PROVE HalfDone(The(r, m), ops[r][m], r)'
      <4>1. The(r, m)' = The(r, m) /\ ops'[r][m] = ops[r][m]
        BY <3>1
      <4>2. QED
        BY <1>1, <3>2, <4>1 DEF HalfDone
    <3>3. DOMAIN script'[r].nodes = DOMAIN script[r].nodes
      BY <1>1
    <3>4. QED
      BY <2>2, <3>1, <3>2, <3>3 DEF DefinesInv
  <2>4. CreatesInv(r)'
    <3>1. ASSUME NEW n, Creating(r, n) PROVE Creating(r, n)'
      BY <1>1, <2>1, <3>1 DEF Creating, Untried, Fresh, Enlisted, Backed
    <3>2. QED
      BY <1>1, <2>1, <2>2, <3>1 DEF CreatesInv
  <2>5. InsertsInv(r)'
    BY <1>1, <2>1, <2>2 DEF InsertsInv, Holds, HoldsHeap
  <2>6. QED
    BY <2>3, <2>4, <2>5
<1>6. DefinesInv(s)'
  BY <1>1, <1>3 DEF DefinesInv
<1>7. CreatesInv(s)'
  <2> SUFFICES ASSUME NEW n \in DOMAIN script[s].nodes, The(s, n).kind = "create" PROVE Creating(s, n)'
    BY <1>1 DEF CreatesInv, The
  <2>1. Creating(s, n) /\ ops[s][n] = Blank
    BY BeginIs DEF TablesInv, CreatesInv
  <2>2. Untried(ops[s][n], At(s, n))
    BY <1>1, <2>1, BlankFormed DEF Untried
  <2>3. Fresh(s)'
    BY <1>1, <2>1, <2>2 DEF Creating, Fresh
  <2>4. At(s, n)' \notin {"create", "fetch", "pull"}
    BY <1>1
  <2>5. QED
    BY <2>3, <2>4 DEF Creating
<1>8. InsertsInv(s)'
  <2> SUFFICES ASSUME NEW n \in DOMAIN script[s].nodes, Works(s, n, {"insert"})'
               PROVE  Holds(The(s, n), ops[s][n].table)'
    BY <1>1 DEF InsertsInv
  <2>1. QED
    BY BeginHolds
<1>9. SameHeld'
  <2>1. ASSUME NEW r \in Stmt, NEW m \in DOMAIN script[r].nodes, Works(r, m, {"insert"})', The(r, m).table \in DOMAIN catalog
        PROVE  ops'[r][m].table = catalog[The(r, m).table]
    <3>1. CASE r = s
      BY <2>1, <3>1, BeginHolds
    <3>2. CASE r # s
      <4>1. Works(r, m, {"insert"}) /\ ops'[r] = ops[r]
        BY <2>1, <3>2, AloneKeeps
      <4>2. QED
        BY <2>1, <4>1 DEF TablesInv, InsertsInv, Holds
    <3>3. QED
      BY <3>1, <3>2
  <2>2. ASSUME NEW r \in Stmt, NEW m \in DOMAIN script[r].nodes, Works(r, m, {"insert"})',
               NEW n \in DOMAIN script[s].nodes, Works(s, n, {"insert"})', The(s, n).table = The(r, m).table
        PROVE  ops'[r][m].table = ops'[s][n].table
    <3>1. The(s, n).table \in DOMAIN catalog /\ ops'[s][n].table = catalog[The(s, n).table]
      BY <2>2, BeginHolds
    <3>2. ops'[r][m].table = catalog[The(r, m).table]
      BY <2>1, <2>2, <3>1
    <3>3. QED
      BY <2>2, <3>1, <3>2
  <2>3. ASSUME NEW r \in Stmt, NEW m \in DOMAIN script[r].nodes, Works(r, m, {"insert"})', r # s,
               NEW q \in Stmt, NEW n \in DOMAIN script[q].nodes, Works(q, n, {"insert"})', q # s,
               The(q, n).table = The(r, m).table
        PROVE  ops'[r][m].table = ops'[q][n].table
    <3>1. Works(r, m, {"insert"}) /\ ops'[r] = ops[r]
      BY <2>3, AloneKeeps
    <3>2. Works(q, n, {"insert"}) /\ ops'[q] = ops[q]
      BY <2>3, AloneKeeps
    <3>3. QED
      BY <2>3, <3>1, <3>2 DEF TablesInv, SameHeld
  <2>4. \A r, m : The(r, m)' = The(r, m)
    BY <1>1 DEF The
  <2>5. QED
    BY <1>1, <2>2, <2>3, <2>4 DEF SameHeld
<1>10. QED
  BY <1>2, <1>4, <1>5, <1>6, <1>7, <1>8, <1>9 DEF TablesInv

-----------------------------------------------------------------------------
(* The invariant holds at first, and every step keeps it.                    *)

\* The tables of the seed are in both registries, with rows as wide.
LEMMA TablesInvInit == Init => TablesInv
<1> SUFFICES ASSUME Init PROVE TablesInv
  OBVIOUS
<1>1. /\ catalog = [t \in DOMAIN Columns |-> t] /\ storage = [t \in DOMAIN Columns |-> t]
      /\ columns = Columns /\ heap = Contents
      /\ pc = [s \in Stmt |-> IF script[s].nodes = <<>> THEN "absent" ELSE "idle"]
      /\ ops = [s \in Stmt |-> [n \in DOMAIN script[s].nodes |-> Blank]]
  BY DEF Init
<1>2. \A s \in Stmt : ~AtWork(s)
  BY <1>1 DEF AtWork, Ended
<1>3. \A s \in Stmt : Fresh(s)
  BY <1>1, StmtAssumption, ContentsAssumption DEF Fresh
<1>4. Registries
  BY <1>1, ContentsAssumption DEF Registries
<1>5. Slices
  <2>1. \A s \in Stmt : \A n \in DOMAIN ops[s] : ops[s][n] = Blank
    BY <1>1
  <2>2. IsList(Blank.schema)
    <3>1. <<>> \in Seq({})
      OBVIOUS
    <3>2. Blank.schema = <<>>
      BY BlankFormed
    <3>3. QED
      BY <3>1, <3>2, ListIn
  <2>3. \A s \in Stmt : \A n \in DOMAIN ops[s] : DOMAIN ops[s][n] = DOMAIN Blank /\ IsList(ops[s][n].schema)
    BY <2>1, <2>2
  <2>4. \A h \in DOMAIN heap : IsList(heap[h]) /\ \A i \in DOMAIN heap[h] : IsList(heap[h][i])
    BY <1>1, ContentsAssumption
  <2>5. \A e \in DOMAIN columns : IsList(columns[e])
    BY <1>1, ContentsAssumption
  <2>6. QED
    BY <1>2, <2>3, <2>4, <2>5 DEF Slices, Works
<1>6. NamesInv
  <2>1. ASSUME NEW t \in DOMAIN Columns PROVE Wide(heap[storage[t]], Len(columns[catalog[t]]))
    BY <1>1, ContentsAssumption DEF Wide
  <2>2. QED
    BY <1>1, <2>1 DEF NamesInv, Coherent
<1>7. SameHeld /\ \A s \in Stmt : DefinesInv(s) /\ InsertsInv(s)
  BY <1>2 DEF SameHeld, DefinesInv, InsertsInv, Midway, Works
<1>8. \A s \in Stmt : CreatesInv(s)
  BY <1>2, <1>3 DEF CreatesInv, Creating
<1>9. QED
  BY <1>4, <1>5, <1>6, <1>7, <1>8 DEF TablesInv

\* Every step of an operator that writes keeps the invariant.
LEMMA WriteStepKeeps ==
  ASSUME LifeInv, TablesInv, Apart, NEW s \in Stmt, Alone(s), WriteStep(s)
  PROVE  TablesInv'
<1>1. CASE QuietWrite(s)
  BY <1>1, QuietWritePassive, PassiveKeeps
<1>2. CASE InsertNextValues(s) \/ InsertPulled(s)
  BY <1>2, InsertPassive, PassiveKeeps
<1>3. CASE Fill(s)
  BY <1>3, FillPassive, PassiveKeeps
<1>4. CASE UpdateRows(s) \/ DeleteRows(s)
  BY <1>4, UpdatePassive, DeletePassive, PassiveKeeps
<1>5. CASE Register(s)
  BY <1>5, RegisterFails, RegisterKeeps, PassiveKeeps
<1>6. CASE CreateHeap(s) \/ FetchHeap(s)
  BY <1>6, CreateHeapKeeps, FetchHeapKeeps
<1>7. CASE Drop(s) \/ RenameTable(s)
  BY <1>7, DropKeeps, RenameTableKeeps
<1>8. CASE AddColumn(s) \/ DropColumn(s) \/ RenameColumn(s)
  BY <1>8, AddColumnKeeps, DropColumnKeeps, RenameColumnKeeps
<1>9. CASE ChangeStorage(s)
  BY <1>9, ChangeStorageKeeps
<1>10. QED
  BY <1>1, <1>2, <1>3, <1>4, <1>5, <1>6, <1>7, <1>8, <1>9 DEF WriteStep, QuietWrite

\* Every step of the system keeps it.
LEMMA TablesInvStep ==
  ASSUME LifeInv, LifeInv', TablesInv, Apart, Apart', [Next]_vars
  PROVE  TablesInv'
<1>1. CASE UNCHANGED vars
  <2>1. UNCHANGED <<catalog, columns, storage, heap, script, pc, stack, ops>>
    BY <1>1 DEF vars
  <2>2. \A s \in Stmt : (AtWork(s)' <=> AtWork(s)) /\ (Ended(s)' <=> Ended(s))
    BY <2>1 DEF AtWork, Ended
  <2>3. \A s \in Stmt : \A n : At(s, n)' = At(s, n) /\ The(s, n)' = The(s, n)
    BY <2>1 DEF At, The
  <2>4. /\ \A s \in Stmt : \A n, kinds : Works(s, n, kinds)' <=> Works(s, n, kinds)
        /\ \A s \in Stmt : \A n : Midway(s, n)' <=> Midway(s, n)
    BY <2>1, <2>2, <2>3 DEF Works, Midway
  <2>5. Registries'
    BY <2>1 DEF TablesInv, Registries
  <2>6. Slices'
    BY <2>1, <2>4 DEF TablesInv, Slices
  <2>7. NamesInv'
    <3>1. \A t : Underhand(t)' <=> Underhand(t)
      BY <2>1, <2>3, <2>4 DEF Underhand
    <3>2. \A t : Coherent(t)' <=> Coherent(t)
      BY <2>1 DEF Coherent
    <3>3. QED
      BY <2>1, <3>1, <3>2 DEF TablesInv, NamesInv
  <2>8. SameHeld'
    BY <2>1, <2>3, <2>4 DEF TablesInv, SameHeld
  <2>9. ASSUME NEW s \in Stmt PROVE DefinesInv(s)'
    <3>1. ASSUME NEW n, HalfDone(The(s, n), ops[s][n], s) PROVE HalfDone(The(s, n), ops[s][n], s)'
      BY <2>1, <2>3, <3>1 DEF HalfDone
    <3>2. QED
      BY <2>1, <2>4, <3>1 DEF TablesInv, DefinesInv
  <2>10. ASSUME NEW s \in Stmt PROVE CreatesInv(s)'
    BY <2>1, <2>2, <2>3 DEF TablesInv, CreatesInv, Creating, Untried, Fresh, Enlisted, Backed
  <2>11. ASSUME NEW s \in Stmt PROVE InsertsInv(s)'
    BY <2>1, <2>3, <2>4 DEF TablesInv, InsertsInv, Holds, HoldsHeap
  <2>12. QED
    BY <2>5, <2>6, <2>7, <2>8, <2>9, <2>10, <2>11 DEF TablesInv
<1>2. ASSUME NEW s \in Stmt, Step(s) PROVE TablesInv'
  <2>1. Alone(s)
    BY <1>2, ReadStepFine, WriteStepFine, ExecuteStepFine DEF Step, Fine
  <2>2. CASE ReadStep(s)
    BY <2>1, <2>2, ReadStepPassive, PassiveKeeps
  <2>3. CASE WriteStep(s)
    BY <2>1, <2>3, WriteStepKeeps
  <2>4. CASE Begin(s)
    BY <2>1, <2>4, BeginKeeps
  <2>5. CASE OpenFailed(s) \/ Pull(s) \/ Finish(s) \/ Finished(s)
    BY <2>1, <2>5, ExecutePassive, PassiveKeeps
  <2>6. QED
    BY <1>2, <2>2, <2>3, <2>4, <2>5 DEF Step, ExecuteStep
<1>3. CASE AllEnded
  BY <1>1, <1>3 DEF AllEnded
<1>4. QED
  BY <1>1, <1>2, <1>3 DEF Next

\* Once nobody is at work no definition is half done.
LEMMA CoherentAtRest ==
  ASSUME TablesInv, \A s \in Stmt : ~AtWork(s)
  PROVE  \A t \in DOMAIN catalog \union DOMAIN storage : Coherent(t)
<1>1. \A t : ~Underhand(t)
  BY DEF Underhand, Midway, Works
<1>2. QED
  BY <1>1 DEF TablesInv, NamesInv

\* Where no table is redefined under a definition or an INSERT, but for drops under
\* drops and INSERTs, every row has, between statements, a value for each column of its table: INSERT, UPDATE, DELETE, CREATE
\* TABLE, DROP TABLE and ALTER TABLE keep the rows of the heaps aligned with the columns
\* of the catalog (heap.go:94-95), for any plans and tables and in any order of steps.
THEOREM RowsStayAligned == Spec /\ []Apart => []RowsAligned
<1>1. Init => LifeInv /\ TablesInv
  BY LifeInvInit, TablesInvInit
<1>2. LifeInv /\ [Next]_vars => LifeInv'
  BY LifeInvStep
<1>3. LifeInv /\ LifeInv' /\ TablesInv /\ Apart /\ Apart' /\ [Next]_vars => TablesInv'
  BY TablesInvStep
<1>4. TablesInv => RowsAligned
  BY CoherentAtRest DEF RowsAligned, Coherent, Wide
<1>5. QED
  BY <1>1, <1>2, <1>3, <1>4, PTL DEF Spec

\* Under the same hypothesis a table is, between statements, in the catalog if and
\* only if it is in the storage (ddl.go changes the two one after the other).
THEOREM TablesInBoth == Spec /\ []Apart => []RegistriesAgree
<1>1. Init => LifeInv /\ TablesInv
  BY LifeInvInit, TablesInvInit
<1>2. LifeInv /\ [Next]_vars => LifeInv'
  BY LifeInvStep
<1>3. LifeInv /\ LifeInv' /\ TablesInv /\ Apart /\ Apart' /\ [Next]_vars => TablesInv'
  BY TablesInvStep
<1>4. TablesInv => RegistriesAgree
  BY CoherentAtRest DEF RegistriesAgree, Coherent
<1>5. QED
  BY <1>1, <1>2, <1>3, <1>4, PTL DEF Spec
=============================================================================
