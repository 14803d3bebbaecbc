------------------------ MODULE StatementLocksProofs ------------------------
(***************************************************************************)
(* For any number of statements, tables and rows: when the tables can be   *)
(* ordered as Ordered says, the statements never all wait for each other.  *)
(***************************************************************************)
EXTENDS StatementLocks, TLAPS, WellFoundedInduction

StmtInv == TypeOK /\ LockInv

USE DEF Goto

\* A step of one statement leaves the place of every other alone.
LEMMA StepLocal ==
  ASSUME TypeOK, NEW s \in Stmt, Begin(s) \/ Step(s)
  PROVE  /\ shape' = shape
         /\ \A t \in Stmt \ {s} : pc'[t] = pc[t] /\ left'[t] = left[t] /\ next'[t] = next[t]
BY DEF TypeOK, Step, Begin, RLock, Scan, Skip, RowDone, Announce, Acquire, AppendRow, Finish, Release

LEMMA InitInv == Init => StmtInv
<1> SUFFICES ASSUME Init PROVE StmtInv
  OBVIOUS
<1>1. TypeOK
  BY ShapeAssumption DEF Init, TypeOK, M!Free, M!Mutex
<1>2. WriterInv
  BY ShapeAssumption DEF Init, WriterInv, Writes, M!Free
<1>3. ReaderInv /\ MutexInv /\ PlaceInv
  BY ShapeAssumption DEF Init, ReaderInv, MutexInv, PlaceInv, M!Free
<1> QED BY <1>1, <1>2, <1>3 DEF StmtInv, LockInv

\* Every lock a statement is about to scan is a lock.
LEMMA ScannedIsLock ==
  ASSUME TypeOK, NEW s \in Stmt, Scans(s)
  PROVE  Scanned(s) \in Lock
<1>1. shape[s] \in ShapeType
  BY ShapeAssumption DEF TypeOK
<1>2. next[s] \in Nat
  BY DEF TypeOK
<1> QED BY <1>1, <1>2 DEF Scans, Scanned, ShapeType

LEMMA TargetIsLock ==
  ASSUME TypeOK, NEW s \in Stmt
  PROVE  /\ shape[s].target \in Lock
         /\ shape[s].rows \in 0 .. MaxRows
         /\ shape[s].reads \in Seq(Lock)
         /\ shape[s].kind \in {"change", "insert", "select"}
BY ShapeAssumption DEF TypeOK, ShapeType

LEMMA TypeStep ==
  ASSUME TypeOK, PlaceInv, NEW s \in Stmt, Begin(s) \/ Step(s)
  PROVE  TypeOK'
<1> DEFINE Label == {"idle", "row", "read", "lock", "wait", "append", "done"}
<1>1. /\ mu \in [Lock -> M!Mutex]
      /\ pc \in [Stmt -> Label]
      /\ shape \in [Stmt -> Shape]
      /\ left \in [Stmt -> 0 .. MaxRows]
      /\ next \in [Stmt -> Nat]
      /\ MaxRows \in Nat
  BY ShapeAssumption DEF TypeOK
<1>2. /\ shape[s].target \in Lock
      /\ shape[s].rows \in 0 .. MaxRows
      /\ mu[shape[s].target] \in M!Mutex
  BY <1>1, TargetIsLock
<1>3. SUFFICES /\ mu' \in [Lock -> M!Mutex]
               /\ pc' \in [Stmt -> Label]
               /\ left' \in [Stmt -> 0 .. MaxRows]
               /\ next' \in [Stmt -> Nat]
  BY <1>1, StepLocal DEF TypeOK
<1>4. CASE Begin(s)
  BY <1>1, <1>2, <1>4 DEF Begin
<1>5. CASE RLock(s)
  <2>1. Scanned(s) \in Lock
    BY <1>5, ScannedIsLock DEF RLock
  <2>2. M!RLocked(mu[Scanned(s)], s) \in M!Mutex
    BY <1>1, <2>1 DEF M!RLocked, M!Mutex
  <2>3. mu' \in [Lock -> M!Mutex]
    BY <1>1, <1>5, <2>1, <2>2 DEF RLock
  <2> QED BY <1>1, <1>5, <2>3 DEF RLock
<1>6. CASE Scan(s)
  <2>1. Scanned(s) \in Lock
    BY <1>6, ScannedIsLock DEF Scan, PlaceInv
  <2>2. M!RUnlocked(mu[Scanned(s)], s) \in M!Mutex
    BY <1>1, <2>1 DEF M!RUnlocked, M!Mutex
  <2>3. mu' \in [Lock -> M!Mutex]
    BY <1>1, <1>6, <2>1, <2>2 DEF Scan
  <2> QED BY <1>1, <1>6, <2>3 DEF Scan
<1>7. CASE RowDone(s) \/ Skip(s)
  <2>1. left[s] \in 0 .. MaxRows /\ left[s] > 0
    BY <1>1, <1>7 DEF RowDone, Skip, Evaluated
  <2>2. left' = left \/ left' = [left EXCEPT ![s] = @ - 1]
    BY <1>7 DEF RowDone, Skip
  <2>3. left' \in [Stmt -> 0 .. MaxRows]
    BY <1>1, <2>1, <2>2
  <2>4. pc' \in [Stmt -> Label] /\ next' \in [Stmt -> Nat]
    <3>1. next[s] \in Nat /\ next[s] + 1 \in Nat
      BY <1>1
    <3>2. next' = [next EXCEPT ![s] = next[s] + 1] \/ next' = [next EXCEPT ![s] = 1] \/ next' = next
      BY <1>7 DEF RowDone, Skip
    <3>3. pc' = pc \/ pc' = [pc EXCEPT ![s] = "lock"]
      BY <1>7 DEF RowDone, Skip
    <3> QED BY <1>1, <3>1, <3>2, <3>3
  <2> QED BY <1>1, <1>7, <2>3, <2>4 DEF RowDone, Skip
<1>8. CASE Announce(s)
  <2>1. M!Announced(mu[shape[s].target], s) \in M!Mutex
    BY <1>2 DEF M!Announced, M!Mutex
  <2>2. mu' \in [Lock -> M!Mutex]
    BY <1>1, <1>2, <1>8, <2>1 DEF Announce
  <2> QED BY <1>1, <1>8, <2>2 DEF Announce
<1>9. CASE Acquire(s)
  <2>1. M!Locked(mu[shape[s].target]) \in M!Mutex
    BY <1>2 DEF M!Locked, M!Mutex
  <2>2. mu' \in [Lock -> M!Mutex]
    BY <1>1, <1>2, <1>9, <2>1 DEF Acquire
  <2> QED BY <1>1, <1>9, <2>2 DEF Acquire
<1>10. ASSUME Release(s)
       PROVE  mu' \in [Lock -> M!Mutex]
  <2>1. M!Unlocked(mu[shape[s].target]) \in M!Mutex
    BY <1>2 DEF M!Unlocked, M!Free, M!Mutex
  <2> QED BY <1>1, <1>2, <1>10, <2>1 DEF Release
<1>11. CASE AppendRow(s)
  <2>1. left[s] > 0
    BY <1>11 DEF AppendRow, PlaceInv
  <2> QED BY <1>1, <1>10, <1>11, <2>1 DEF AppendRow
<1>12. CASE Finish(s)
  <2>1. mu' \in [Lock -> M!Mutex]
    BY <1>1, <1>10, <1>12 DEF Finish, Ends
  <2> QED BY <1>1, <1>12, <2>1 DEF Finish, Ends
<1> QED BY <1>4, <1>5, <1>6, <1>7, <1>8, <1>9, <1>11, <1>12 DEF Step

LEMMA PlaceStep ==
  ASSUME TypeOK, PlaceInv, NEW s \in Stmt, Begin(s) \/ Step(s)
  PROVE  PlaceInv'
<1>1. SUFFICES ASSUME NEW t \in Stmt
      PROVE /\ pc'[t] = "read" => Scans(t)'
            /\ pc'[t] \in {"lock", "wait"} => shape'[t].kind \in {"change", "insert"}
            /\ pc'[t] = "append" => shape'[t].kind = "insert" /\ left'[t] > 0
            /\ shape'[t].kind = "insert" /\ pc'[t] \in {"lock", "wait"} => left'[t] > 0
            /\ shape'[t].kind # "select" => next'[t] # 0
  BY DEF PlaceInv
<1>2. shape' = shape
  BY StepLocal
<1>3. CASE t # s
  BY <1>2, <1>3, StepLocal DEF PlaceInv, Scans
<1>4. CASE t = s
  <2> USE <1>4, TargetIsLock
  <2>1. next[s] \in Nat /\ left[s] \in 0 .. MaxRows /\ MaxRows \in Nat
    BY ShapeAssumption DEF TypeOK
  <2>2. CASE Begin(s)
    BY <2>1, <2>2 DEF Begin, TypeOK, PlaceInv, UnderLock
  <2>3. CASE RLock(s)
    BY <2>1, <2>3 DEF RLock, TypeOK, PlaceInv, Scans
  <2>4. CASE Scan(s)
    BY <2>1, <2>4 DEF Scan, TypeOK, PlaceInv
  <2>5. CASE RowDone(s) \/ Skip(s)
    BY <2>1, <2>5 DEF RowDone, Skip, Evaluated, TypeOK, PlaceInv, UnderLock
  <2>6. CASE Announce(s) \/ Acquire(s) \/ AppendRow(s) \/ Finish(s)
    BY <2>1, <2>6 DEF Announce, Acquire, AppendRow, Finish, Ends, TypeOK, PlaceInv, UnderLock
  <2> QED BY <2>2, <2>3, <2>4, <2>5, <2>6 DEF Step
<1> QED BY <1>3, <1>4

\* Where a statement other than the one that steps stands is unchanged.
LEMMA OthersStand ==
  ASSUME TypeOK, NEW s \in Stmt, Begin(s) \/ Step(s), NEW t \in Stmt, t # s
  PROVE  /\ \A m \in Lock : Writes(t, m)' <=> Writes(t, m)
         /\ (pc[t] = "read")' <=> pc[t] = "read"
         /\ Scanned(t)' = Scanned(t)
BY StepLocal DEF Writes, UnderLock, Scanned

LEMMA WriterStep ==
  ASSUME TypeOK, LockInv, NEW s \in Stmt, Begin(s) \/ Step(s)
  PROVE  WriterInv'
<1>1. SUFFICES ASSUME NEW m \in Lock, NEW t \in Stmt
      PROVE  mu'[m].writer = t <=> Writes(t, m)'
  BY DEF WriterInv
<1>2. mu[m].writer = t <=> Writes(t, m)
  BY DEF LockInv, WriterInv
<1>3. /\ mu \in [Lock -> M!Mutex]
      /\ pc \in [Stmt -> {"idle", "row", "read", "lock", "wait", "append", "done"}]
      /\ shape[s].target \in Lock
      /\ mu[m] \in M!Mutex
      /\ s # NoOne /\ t # NoOne
  BY TargetIsLock, ShapeAssumption DEF TypeOK
<1>4. t # s => (Writes(t, m)' <=> Writes(t, m))
  BY OthersStand
<1>5. shape' = shape
  BY StepLocal
<1>6. CASE Begin(s)
  BY <1>2, <1>3, <1>4, <1>5, <1>6 DEF Begin, Writes, UnderLock
<1>7. CASE RLock(s)
  <2>1. mu'[m].writer = mu[m].writer
    BY <1>3, <1>7 DEF RLock, M!RLocked, M!Mutex
  <2> QED BY <1>2, <1>3, <1>4, <1>5, <1>7, <2>1 DEF RLock, Writes, UnderLock
<1>8. CASE Scan(s)
  <2>1. mu'[m].writer = mu[m].writer
    BY <1>3, <1>8 DEF Scan, M!RUnlocked, M!Mutex
  <2> QED BY <1>2, <1>3, <1>4, <1>5, <1>8, <2>1 DEF Scan, Writes, UnderLock
<1>9. CASE RowDone(s) \/ Skip(s)
  BY <1>2, <1>3, <1>4, <1>5, <1>9 DEF RowDone, Skip, Evaluated, Writes, UnderLock
<1>10. CASE Announce(s)
  <2>1. mu'[m].writer = IF m = shape[s].target THEN s ELSE mu[m].writer
    BY <1>3, <1>10 DEF Announce, M!Announced, M!Mutex
  <2>2. m = shape[s].target => mu[m].writer = NoOne
    BY <1>10 DEF Announce, M!CanAnnounce
  <2>3. Writes(s, m)' <=> m = shape[s].target
    BY <1>3, <1>5, <1>10 DEF Announce, Writes
  <2> QED BY <1>2, <1>3, <1>4, <1>5, <1>10, <2>1, <2>2, <2>3 DEF Announce, Writes
<1>11. CASE Acquire(s)
  <2>1. mu'[m].writer = mu[m].writer
    BY <1>3, <1>11 DEF Acquire, M!Locked, M!Mutex
  <2> QED BY <1>2, <1>3, <1>4, <1>5, <1>11, <2>1 DEF Acquire, Writes, UnderLock
<1>12. ASSUME Release(s), Writes(s, shape[s].target), ~Writes(s, m)'
       PROVE  mu'[m].writer = t <=> Writes(t, m)'
  <2>1. mu'[m].writer = IF m = shape[s].target THEN NoOne ELSE mu[m].writer
    BY <1>3, <1>12 DEF Release, M!Unlocked, M!Free, M!Mutex
  <2>2. mu[shape[s].target].writer = s
    BY <1>3, <1>12 DEF LockInv, WriterInv
  <2>3. Writes(s, m) => m = shape[s].target
    BY DEF Writes
  <2> QED BY <1>2, <1>3, <1>4, <1>12, <2>1, <2>2, <2>3
<1>13. CASE AppendRow(s)
  <2>1. Writes(s, shape[s].target)
    BY <1>13 DEF AppendRow, Writes
  <2>2. ~UnderLock(s)
    BY <1>13 DEF AppendRow, LockInv, PlaceInv, UnderLock
  <2>3. ~Writes(s, m)'
    BY <1>3, <1>5, <1>13, <2>2 DEF AppendRow, Writes, UnderLock
  <2> QED BY <1>12, <1>13, <2>1, <2>3 DEF AppendRow
<1>14. CASE Finish(s)
  <2>1. ~Writes(s, m)'
    BY <1>3, <1>5, <1>14 DEF Finish, Ends, Writes, UnderLock
  <2>2. CASE UnderLock(s)
    <3>1. Writes(s, shape[s].target)
      BY <1>14, <2>2 DEF Finish, Ends, Writes
    <3> QED BY <1>12, <1>14, <2>1, <2>2, <3>1 DEF Finish, Ends
  <2>3. CASE ~UnderLock(s)
    <3>1. ~Writes(s, m)
      BY <1>14, <2>3 DEF Finish, Ends, Writes
    <3> QED BY <1>2, <1>4, <1>14, <2>1, <2>3, <3>1 DEF Finish, Ends
  <2> QED BY <2>2, <2>3
<1> QED BY <1>6, <1>7, <1>8, <1>9, <1>10, <1>11, <1>13, <1>14 DEF Step

LEMMA ReaderStep ==
  ASSUME TypeOK, LockInv, NEW s \in Stmt, Begin(s) \/ Step(s)
  PROVE  ReaderInv'
<1> DEFINE At(m)  == mu[m].readers \union mu[m].queued
           At1(m) == mu'[m].readers \union mu'[m].queued
<1>1. SUFFICES ASSUME NEW m \in Lock, NEW t \in Stmt
      PROVE  t \in At1(m) <=> (pc[t] = "read")' /\ Scanned(t)' = m
  BY DEF ReaderInv
<1>2. /\ t \in At(m) <=> pc[t] = "read" /\ Scanned(t) = m
      /\ s \in At(m) <=> pc[s] = "read" /\ Scanned(s) = m
  BY DEF LockInv, ReaderInv
<1>3. /\ mu \in [Lock -> M!Mutex]
      /\ pc \in [Stmt -> {"idle", "row", "read", "lock", "wait", "append", "done"}]
      /\ shape[s].target \in Lock
      /\ mu[m] \in M!Mutex
  BY TargetIsLock DEF TypeOK
<1>4. t # s => ((pc[t] = "read")' <=> pc[t] = "read") /\ Scanned(t)' = Scanned(t)
  BY OthersStand
<1>5. shape' = shape
  BY StepLocal
<1> HIDE DEF At, At1
<1>6. CASE Begin(s)
  BY <1>2, <1>3, <1>4, <1>6 DEF Begin, At, At1
<1>7. CASE RLock(s)
  <2>1. Scanned(s)' = Scanned(s) /\ pc'[s] = "read"
    BY <1>3, <1>7 DEF RLock, Scanned
  <2>2. mu'[m] = IF m = Scanned(s) THEN M!RLocked(mu[m], s) ELSE mu[m]
    BY <1>3, <1>7 DEF RLock
  <2>3. At1(m) = IF m = Scanned(s) THEN At(m) \union {s} ELSE At(m)
    BY <1>3, <2>2 DEF At, At1, M!RLocked, M!Mutex
  <2>4. pc[s] # "read"
    BY <1>7 DEF RLock
  <2> QED BY <1>2, <1>4, <2>1, <2>3, <2>4
<1>8. CASE Scan(s)
  <2>1. mu'[m] = IF m = Scanned(s) THEN M!RUnlocked(mu[m], s) ELSE mu[m]
    BY <1>3, <1>8 DEF Scan
  <2>2. s \in mu[m].readers => s \notin mu[m].queued
    BY DEF LockInv, MutexInv
  <2>3. m = Scanned(s) => s \in mu[m].readers
    BY <1>8 DEF Scan, M!Reading
  <2>4. At1(m) = IF m = Scanned(s) THEN At(m) \ {s} ELSE At(m)
    BY <1>3, <2>1, <2>2, <2>3 DEF At, At1, M!RUnlocked, M!Mutex
  <2>5. pc[s] = "read" /\ pc'[s] # "read"
    BY <1>3, <1>8 DEF Scan
  <2> QED BY <1>2, <1>4, <2>4, <2>5
<1>9. CASE RowDone(s) \/ Skip(s)
  <2>1. mu' = mu /\ pc[s] # "read" /\ pc'[s] # "read"
    BY <1>3, <1>9 DEF RowDone, Skip, Evaluated
  <2> QED BY <1>2, <1>4, <2>1 DEF At, At1
<1>10. CASE Announce(s)
  <2>1. mu'[m].readers = mu[m].readers /\ mu'[m].queued = mu[m].queued
    BY <1>3, <1>10 DEF Announce, M!Announced, M!Mutex
  <2>2. pc[s] # "read" /\ pc'[s] # "read"
    BY <1>3, <1>10 DEF Announce
  <2> QED BY <1>2, <1>4, <2>1, <2>2 DEF At, At1
<1>11. CASE Acquire(s)
  <2>1. mu'[m].readers = mu[m].readers /\ mu'[m].queued = mu[m].queued
    BY <1>3, <1>11 DEF Acquire, M!Locked, M!Mutex
  <2>2. pc[s] # "read" /\ pc'[s] # "read"
    BY <1>3, <1>11 DEF Acquire
  <2> QED BY <1>2, <1>4, <2>1, <2>2 DEF At, At1
<1>12. ASSUME Release(s), Writes(s, shape[s].target), pc[s] # "wait"
       PROVE  At1(m) = At(m)
  <2>1. mu[shape[s].target].writer = s
    BY <1>3, <1>12 DEF LockInv, WriterInv
  <2>2. mu[shape[s].target].readers = {}
    BY <1>3, <1>12, <2>1 DEF LockInv, MutexInv
  <2>3. mu'[m] = IF m = shape[s].target THEN M!Unlocked(mu[m]) ELSE mu[m]
    BY <1>3, <1>12 DEF Release
  <2> QED BY <1>3, <2>2, <2>3 DEF At, At1, M!Unlocked, M!Free, M!Mutex
<1>13. CASE AppendRow(s)
  <2>1. pc[s] = "append" /\ pc'[s] # "read" /\ Release(s)
    BY <1>3, <1>13 DEF AppendRow
  <2>2. Writes(s, shape[s].target)
    BY <2>1 DEF Writes
  <2> QED BY <1>2, <1>4, <1>12, <2>1, <2>2
<1>14. CASE Finish(s)
  <2>1. pc[s] = "row" /\ pc'[s] # "read"
    BY <1>3, <1>14 DEF Finish, Ends
  <2>2. UnderLock(s) => Writes(s, shape[s].target)
    BY <2>1 DEF Writes
  <2>3. At1(m) = At(m)
    BY <1>12, <1>14, <2>1, <2>2 DEF Finish, Ends, At, At1
  <2> QED BY <1>2, <1>4, <2>1, <2>3
<1> QED BY <1>6, <1>7, <1>8, <1>9, <1>10, <1>11, <1>13, <1>14 DEF Step

LEMMA MutexStep ==
  ASSUME TypeOK, LockInv, NEW s \in Stmt, Begin(s) \/ Step(s)
  PROVE  MutexInv'
<1>1. SUFFICES ASSUME NEW m \in Lock
      PROVE  /\ mu'[m].queued # {} => mu'[m].writer # NoOne
             /\ mu'[m].readers \intersect mu'[m].queued = {}
             /\ mu'[m].locked => mu'[m].writer # NoOne /\ mu'[m].readers = {}
             /\ \A t \in Stmt : mu'[m].writer = t => (mu'[m].locked <=> pc'[t] # "wait")
  BY DEF MutexInv
<1>2. /\ mu[m].queued # {} => mu[m].writer # NoOne
      /\ mu[m].readers \intersect mu[m].queued = {}
      /\ mu[m].locked => mu[m].writer # NoOne /\ mu[m].readers = {}
      /\ \A t \in Stmt : mu[m].writer = t => (mu[m].locked <=> pc[t] # "wait")
  BY DEF LockInv, MutexInv
<1>3. /\ mu \in [Lock -> M!Mutex]
      /\ pc \in [Stmt -> {"idle", "row", "read", "lock", "wait", "append", "done"}]
      /\ shape[s].target \in Lock
      /\ mu[m] \in M!Mutex
      /\ NoOne \notin Stmt
  BY TargetIsLock, ShapeAssumption DEF TypeOK
<1>4. \A t \in Stmt : t # s => pc'[t] = pc[t]
  BY StepLocal
<1>5. mu[m].writer = s => shape[s].target = m
                          /\ (pc[s] \in {"wait", "append"} \/ pc[s] \in {"row", "read"})
  BY DEF LockInv, WriterInv, Writes
<1>6. CASE Begin(s)
  BY <1>2, <1>3, <1>4, <1>5, <1>6 DEF Begin
<1>7. CASE RLock(s)
  <2>1. mu'[m] = IF m = Scanned(s) THEN M!RLocked(mu[m], s) ELSE mu[m]
    BY <1>3, <1>7 DEF RLock
  <2>2. s \notin mu[m].readers \union mu[m].queued
    BY <1>7 DEF RLock, LockInv, ReaderInv
  <2>3. pc[s] = "row" /\ pc'[s] = "read"
    BY <1>3, <1>7 DEF RLock
  <2> QED BY <1>2, <1>3, <1>4, <2>1, <2>2, <2>3 DEF M!RLocked, M!Mutex
<1>8. CASE Scan(s)
  <2>1. mu'[m] = IF m = Scanned(s) THEN M!RUnlocked(mu[m], s) ELSE mu[m]
    BY <1>3, <1>8 DEF Scan
  <2>2. pc[s] = "read" /\ pc'[s] = "row"
    BY <1>3, <1>8 DEF Scan
  <2> QED BY <1>2, <1>3, <1>4, <2>1, <2>2 DEF M!RUnlocked, M!Mutex
<1>9. CASE RowDone(s) \/ Skip(s)
  <2>1. mu' = mu /\ pc[s] = "row" /\ pc'[s] \in {"row", "lock"}
    BY <1>3, <1>9 DEF RowDone, Skip, Evaluated
  <2> QED BY <1>2, <1>3, <1>4, <2>1
<1>10. CASE Announce(s)
  <2>1. mu'[m] = IF m = shape[s].target THEN M!Announced(mu[m], s) ELSE mu[m]
    BY <1>3, <1>10 DEF Announce
  <2>2. m = shape[s].target => mu[m].writer = NoOne
    BY <1>10 DEF Announce, M!CanAnnounce
  <2>3. pc[s] = "lock" /\ pc'[s] = "wait"
    BY <1>3, <1>10 DEF Announce
  <2> QED BY <1>2, <1>3, <1>4, <1>5, <2>1, <2>2, <2>3 DEF M!Announced, M!Mutex
<1>11. CASE Acquire(s)
  <2>1. mu'[m] = IF m = shape[s].target THEN M!Locked(mu[m]) ELSE mu[m]
    BY <1>3, <1>11 DEF Acquire
  <2>2. m = shape[s].target => mu[m].writer = s /\ mu[m].readers = {}
    BY <1>11 DEF Acquire, M!CanLock
  <2>3. pc[s] = "wait" /\ pc'[s] \in {"row", "append"}
    BY <1>3, <1>11 DEF Acquire
  <2> QED BY <1>2, <1>3, <1>4, <1>5, <2>1, <2>2, <2>3 DEF M!Locked, M!Mutex
<1>12. ASSUME Release(s), mu[m].writer = s => m = shape[s].target
       PROVE  /\ mu'[m].queued # {} => mu'[m].writer # NoOne
              /\ mu'[m].readers \intersect mu'[m].queued = {}
              /\ mu'[m].locked => mu'[m].writer # NoOne /\ mu'[m].readers = {}
              /\ \A t \in Stmt : mu'[m].writer = t => (mu'[m].locked <=> pc'[t] # "wait")
  <2>1. mu'[m] = IF m = shape[s].target THEN M!Unlocked(mu[m]) ELSE mu[m]
    BY <1>3, <1>12 DEF Release
  <2>2. CASE m = shape[s].target
    BY <1>3, <2>1, <2>2 DEF M!Unlocked, M!Free, M!Mutex
  <2>3. CASE m # shape[s].target
    BY <1>2, <1>3, <1>4, <1>12, <2>1, <2>3
  <2> QED BY <2>2, <2>3
<1>13. CASE AppendRow(s)
  BY <1>5, <1>12, <1>13 DEF AppendRow
<1>14. CASE Finish(s)
  <2>1. CASE UnderLock(s)
    BY <1>5, <1>12, <1>14, <2>1 DEF Finish, Ends
  <2>2. CASE ~UnderLock(s)
    <3>1. mu[m].writer # s
      BY <1>14, <2>2 DEF Finish, Ends, LockInv, WriterInv, Writes
    <3> QED BY <1>2, <1>3, <1>4, <1>14, <2>2, <3>1 DEF Finish, Ends
  <2> QED BY <2>1, <2>2
<1> QED BY <1>6, <1>7, <1>8, <1>9, <1>10, <1>11, <1>13, <1>14 DEF Step

\* StmtInv is inductive.
LEMMA StmtInvHolds == Spec => []StmtInv
<1>1. Init => StmtInv
  BY InitInv
<1>2. StmtInv /\ [Next]_vars => StmtInv'
  <2> SUFFICES ASSUME StmtInv, [Next]_vars PROVE StmtInv'
    OBVIOUS
  <2>1. CASE Next
    <3>1. PICK s \in Stmt : Begin(s) \/ Step(s)
      BY <2>1 DEF Next
    <3> QED BY <3>1, TypeStep, WriterStep, ReaderStep, MutexStep, PlaceStep
            DEF StmtInv, LockInv
  <2>2. CASE UNCHANGED vars
    BY <2>2 DEF vars, StmtInv, TypeOK, LockInv, WriterInv, ReaderInv, MutexInv, PlaceInv,
                Writes, UnderLock, Scanned, Scans
  <2> QED BY <2>1, <2>2
<1> QED BY <1>1, <1>2, PTL DEF Spec

LEMMA SmallestMember ==
  ASSUME NEW T, T \subseteq Nat, T # {}
  PROVE  \E x \in T : \A y \in T : x <= y
<1>1. PICK x \in T : \A y \in T : ~(<<y, x>> \in OpToRel(<, Nat))
  BY NatLessThanWellFounded, WFMin
<1>2. \A y \in T : ~(y < x)
  BY <1>1 DEF OpToRel
<1> QED BY <1>2

\* Where a blocked statement waits, and for whom: with no reader left a
\* statement can only wait for a writer.
LEMMA BlockedByWriter ==
  ASSUME StmtInv, NEW s \in Stmt, Active(s), Blocked(s),
         \A m \in Lock : mu[m].readers = {}
  PROVE  \/ pc[s] = "read" /\ Scanned(s) \in Lock /\ mu[Scanned(s)].writer \in Stmt
         \/ pc[s] = "lock" /\ mu[shape[s].target].writer \in Stmt
<1>1. /\ mu \in [Lock -> M!Mutex]
      /\ shape[s].target \in Lock
  BY TargetIsLock DEF StmtInv, TypeOK
<1>2. \A m \in Lock : mu[m].writer \in Stmt \union {NoOne}
  BY <1>1 DEF M!Mutex
<1>3. CASE pc[s] = "read"
  <2>1. Scanned(s) \in Lock
    BY <1>3, ScannedIsLock DEF StmtInv, LockInv, PlaceInv
  <2>2. s \in mu[Scanned(s)].readers \union mu[Scanned(s)].queued
    BY <1>3, <2>1 DEF StmtInv, LockInv, ReaderInv
  <2>3. mu[Scanned(s)].queued # {}
    BY <2>1, <2>2
  <2>4. mu[Scanned(s)].writer # NoOne
    BY <2>1, <2>3 DEF StmtInv, LockInv, MutexInv
  <2> QED BY <1>2, <1>3, <2>1, <2>4
<1>4. CASE pc[s] = "lock"
  BY <1>1, <1>2, <1>4 DEF Blocked, M!CanAnnounce
<1>5. CASE pc[s] = "wait"
  <2>1. mu[shape[s].target].writer = s
    BY <1>1, <1>5 DEF StmtInv, LockInv, WriterInv, Writes
  <2> QED BY <1>1, <1>5, <2>1 DEF Blocked, M!CanLock
<1> QED BY <1>3, <1>4, <1>5 DEF Blocked

\* A writer that is blocked is an UPDATE or DELETE inside a subquery, and
\* waits for the writer of a table of lower rank.
LEMMA WriterWaitsBelow ==
  ASSUME StmtInv, Ordered, NEW m \in Lock, mu[m].writer \in Stmt,
         \A s \in Stmt : Active(s) => Blocked(s),
         \A k \in Lock : mu[k].readers = {}
  PROVE  \E k \in Lock : mu[k].writer \in Stmt /\ Rank[k] < Rank[m]
<1> DEFINE s == mu[m].writer
<1>1. Writes(s, m)
  BY DEF StmtInv, LockInv, WriterInv
<1>2. Active(s) /\ Blocked(s) /\ pc[s] # "lock"
  BY <1>1 DEF Writes, Active
<1>3. pc[s] = "read" /\ Scanned(s) \in Lock /\ mu[Scanned(s)].writer \in Stmt
  BY <1>2, BlockedByWriter
<1>4. shape[s].kind = "change" /\ shape[s].target = m
  BY <1>1, <1>3 DEF Writes, UnderLock
<1>5. shape[s] \in Shape /\ shape[s] \in ShapeType /\ next[s] \in Nat
  BY ShapeAssumption DEF StmtInv, TypeOK
<1>6. next[s] # 0 /\ Scans(s)
  BY <1>3, <1>4 DEF StmtInv, LockInv, PlaceInv
<1>7. next[s] \in 1 .. Len(shape[s].reads) /\ Scanned(s) = shape[s].reads[next[s]]
  BY <1>5, <1>6 DEF Scans, Scanned, ShapeType
<1>8. Rank[Scanned(s)] < Rank[m]
  BY <1>4, <1>5, <1>7 DEF Ordered
<1> QED BY <1>3, <1>8

\* The inductive invariant: every variable in its domain, and every mutex
\* consistent with where the statements stand.
THEOREM LocksConsistent == Spec => [](TypeOK /\ LockInv)
<1>1. StmtInv => TypeOK /\ LockInv
  BY DEF StmtInv
<1> QED BY <1>1, StmtInvHolds, PTL

\* When subqueries of UPDATE and DELETE follow an order of the tables, some
\* statement that has begun can always go on: there is no deadlock.
THEOREM NoDeadlock == Spec => []SomeoneRuns
<1>1. StmtInv => SomeoneRuns
  <2> SUFFICES ASSUME StmtInv, Ordered, NEW s \in Stmt, Active(s),
                      \A t \in Stmt : Active(t) => Blocked(t)
               PROVE  FALSE
    BY DEF SomeoneRuns
  <2>1. \A m \in Lock : mu[m].readers = {}
    <3> SUFFICES ASSUME NEW m \in Lock, NEW t \in mu[m].readers
                 PROVE  FALSE
      OBVIOUS
    <3>1. t \in Stmt
      BY DEF StmtInv, TypeOK, M!Mutex
    <3>2. pc[t] = "read" /\ Scanned(t) = m
      BY <3>1 DEF StmtInv, LockInv, ReaderInv
    <3> QED BY <3>1, <3>2 DEF Active, Blocked, M!Reading
  <2> DEFINE T == {Rank[m] : m \in {k \in Lock : mu[k].writer \in Stmt}}
  <2>2. T # {}
    <3>1. shape[s].target \in Lock
      BY TargetIsLock DEF StmtInv
    <3> QED BY <2>1, <3>1, BlockedByWriter
  <2>3. T \subseteq Nat
    BY ShapeAssumption
  <2>4. PICK x \in T : \A y \in T : x <= y
    BY <2>2, <2>3, SmallestMember
  <2>5. PICK m \in Lock : mu[m].writer \in Stmt /\ x = Rank[m]
    BY <2>4
  <2>6. PICK k \in Lock : mu[k].writer \in Stmt /\ Rank[k] < Rank[m]
    BY <2>1, <2>5, WriterWaitsBelow
  <2>7. Rank[k] \in T /\ Rank[k] \in Nat /\ Rank[m] \in Nat
    BY <2>6, ShapeAssumption
  <2> QED BY <2>4, <2>5, <2>6, <2>7
<1> QED BY <1>1, StmtInvHolds, PTL

=============================================================================
