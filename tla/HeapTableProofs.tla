-------------------------- MODULE HeapTableProofs --------------------------
(***************************************************************************)
(* For any number of goroutines, rows and calls: the methods of HeapTable  *)
(* implement AtomicTable.                                                  *)
(***************************************************************************)
EXTENDS HeapTable, TLAPS, FiniteSetTheorems, SequenceTheorems

HInv == TypeOK /\ HeapInv

USE DEF Goto

LEMMA InitInv == Init => HInv
<1> SUFFICES ASSUME Init PROVE HInv
  OBVIOUS
<1> USE NoOneAssumption, CallsAssumption
<1>1. TypeOK
  BY DEF Init, TypeOK, M!Free, M!Mutex, Number
<1>2. MutexInv
  BY DEF Init, MutexInv, M!Free, Working
<1>3. CallInv /\ FreshInv /\ ScanInv /\ LoopInv /\ CompactionSound /\ EffectInv
  BY DEF Init, CallInv, FreshInv, ScanInv, LoopInv, CompactionSound, EffectInv,
         M!Free, M!Reading
<1> QED BY <1>1, <1>2, <1>3 DEF HInv, HeapInv

\* What a call under way looks like.
LEMMA CallFacts ==
  ASSUME CallInv, NEW c \in Client, pc[c] # "idle"
  PROVE  /\ call[c] \in Calls
         /\ call[c].kind \in Kind
         /\ call[c].row \in Value
         /\ call[c].match \in SUBSET Value
         /\ call[c].to \in [Value -> Value]
BY CallsAssumption DEF CallInv, Call

\* A step of one goroutine leaves the locals of every other alone.
LEMMA StepLocal ==
  ASSUME TypeOK, NEW c \in Client, Invoke(c) \/ Step(c), NEW d \in Client \ {c}
  PROVE  /\ pc'[d] = pc[d] /\ call'[d] = call[d] /\ at'[d] = at[d]
         /\ kept'[d] = kept[d] /\ count'[d] = count[d] /\ out'[d] = out[d]
         /\ answer'[d] = answer[d]
BY DEF TypeOK, Step, Invoke, RLock, ScanRow, RUnlock, Announce, Acquire, InsertRow,
       Truncate, UpdateRow, DeleteRow, LoopEnd, Unlock

\* While a writer works it is alone.
LEMMA WriterAlone ==
  ASSUME MutexInv, NEW c \in Client, Working(c)
  PROVE  /\ mu.readers = {}
         /\ \A d \in Client : Working(d) => d = c
BY DEF MutexInv

LEMMA TypeStep ==
  ASSUME TypeOK, CallInv, LoopInv, CompactionSound, NEW c \in Client, Invoke(c) \/ Step(c)
  PROVE  TypeOK'
<1> DEFINE Label == {"idle", "rlock", "read", "lock", "wait", "work", "unlock", "done"}
           Answer == [n : Nat, rows : Seq(Value)]
<1>1. /\ rows \in Seq(Value)
      /\ mu \in M!Mutex
      /\ pc \in [Client -> Label]
      /\ call \in [Client -> Calls \union {NoCall}]
      /\ at \in [Client -> Nat \ {0}]
      /\ kept \in [Client -> Nat]
      /\ count \in [Client -> Nat]
      /\ out \in [Client -> Seq(Value)]
      /\ answer \in [Client -> Answer]
      /\ before \in Seq(Value)
      /\ src \in Seq(Nat \ {0})
  BY DEF TypeOK
<1>2. SUFFICES /\ rows' \in Seq(Value)
               /\ mu' \in M!Mutex
               /\ pc' \in [Client -> Label]
               /\ call' \in [Client -> Calls \union {NoCall}]
               /\ at' \in [Client -> Nat \ {0}]
               /\ kept' \in [Client -> Nat]
               /\ count' \in [Client -> Nat]
               /\ out' \in [Client -> Seq(Value)]
               /\ answer' \in [Client -> Answer]
               /\ before' \in Seq(Value)
               /\ src' \in Seq(Nat \ {0})
  BY DEF TypeOK
<1>a. [at EXCEPT ![c] = @ + 1] \in [Client -> Nat \ {0}]
  <2>1. at[c] + 1 \in Nat \ {0}
    BY <1>1
  <2> QED BY <1>1, <2>1
<1>b. [kept EXCEPT ![c] = @ + 1] \in [Client -> Nat]
  BY <1>1
<1>c. [count EXCEPT ![c] = @ + 1] \in [Client -> Nat]
  BY <1>1
<1>3. CASE Invoke(c)
  BY <1>1, <1>3 DEF Invoke
<1>4. CASE RLock(c)
  <2>1. mu' \in M!Mutex
    BY <1>1, <1>4 DEF RLock, M!RLocked, M!Mutex
  <2> QED BY <1>1, <1>4, <2>1 DEF RLock
<1>5. CASE ScanRow(c)
  <2>1. rows[at[c]] \in Value
    BY <1>1, <1>5 DEF ScanRow
  <2>2. out' \in [Client -> Seq(Value)]
    BY <1>1, <1>5, <2>1 DEF ScanRow
  <2> QED BY <1>1, <1>a, <1>5, <2>2 DEF ScanRow
<1>6. CASE RUnlock(c)
  <2>1. mu' \in M!Mutex
    BY <1>1, <1>6 DEF RUnlock, M!RUnlocked, M!Mutex
  <2>2. Found(out[c]) \in Answer /\ Number(Len(rows)) \in Answer
    BY <1>1 DEF Found, Number
  <2>3. answer' \in [Client -> Answer]
    BY <1>1, <1>6, <2>2 DEF RUnlock, RowCount
  <2> QED BY <1>1, <1>6, <2>1, <2>3 DEF RUnlock
<1>7. CASE Announce(c)
  <2>1. mu' \in M!Mutex
    BY <1>1, <1>7 DEF Announce, M!Announced, M!Mutex
  <2> QED BY <1>1, <1>7, <2>1 DEF Announce
<1>8. CASE Acquire(c)
  <2>1. mu' \in M!Mutex
    BY <1>1, <1>8 DEF Acquire, M!Locked, M!Mutex
  <2> QED BY <1>1, <1>8, <2>1 DEF Acquire
<1>9. CASE InsertRow(c)
  <2>1. rows' \in Seq(Value)
    BY <1>1, <1>9, CallFacts DEF InsertRow
  <2> QED BY <1>1, <1>9, <2>1 DEF InsertRow
<1>10. CASE Truncate(c)
  BY <1>1, <1>10 DEF Truncate
<1>11. CASE UpdateRow(c)
  <2>1. /\ at[c] \in 1 .. Len(rows) /\ rows[at[c]] \in Value
        /\ call[c].to \in [Value -> Value]
    BY <1>1, <1>11, CallFacts DEF UpdateRow
  <2>2. [rows EXCEPT ![at[c]] = call[c].to[rows[at[c]]]] \in Seq(Value)
    BY <1>1, <2>1, ExceptSeq
  <2>3. CASE rows[at[c]] \in call[c].match
    BY <1>1, <1>a, <1>c, <1>11, <2>2, <2>3 DEF UpdateRow
  <2>4. CASE rows[at[c]] \notin call[c].match
    BY <1>1, <1>a, <1>b, <1>c, <1>11, <2>4 DEF UpdateRow
  <2> QED BY <2>3, <2>4
<1>12. CASE DeleteRow(c)
  <2>1. at[c] \in 1 .. Len(rows) /\ rows[at[c]] \in Value
    BY <1>1, <1>12 DEF DeleteRow
  <2>2. kept[c] + 1 \in 1 .. Len(rows)
    BY <1>1, <1>12, <2>1 DEF DeleteRow, CompactionSound
  <2>3. [rows EXCEPT ![kept[c] + 1] = rows[at[c]]] \in Seq(Value)
    BY <1>1, <2>1, <2>2, ExceptSeq
  <2>4. Append(src, at[c]) \in Seq(Nat \ {0})
    BY <1>1
  <2>5. CASE rows[at[c]] \in call[c].match
    BY <1>1, <1>a, <1>b, <1>c, <1>12, <2>5 DEF DeleteRow
  <2>6. CASE rows[at[c]] \notin call[c].match
    BY <1>1, <1>a, <1>b, <1>12, <2>3, <2>4, <2>6 DEF DeleteRow
  <2> QED BY <2>5, <2>6
<1>13. CASE LoopEnd(c)
  <2>1. CASE call[c].kind = "delete"
    <3>a. pc[c] = "work"
      BY <1>13 DEF LoopEnd
    <3>b. at[c] <= Len(rows) + 1
      BY <3>a DEF LoopInv
    <3>c. kept[c] < at[c]
      BY <2>1, <3>a DEF CompactionSound
    <3>1. kept[c] <= Len(rows)
      BY <1>1, <3>b, <3>c
    <3>2. \A i \in 1 .. kept[c] : rows[i] \in Value
      BY <1>1, <3>1
    <3>3. SubSeq(rows, 1, kept[c]) \in Seq(Value)
      BY <1>1, <3>2, SubSeqProperties
    <3> QED BY <1>1, <1>13, <2>1, <3>3 DEF LoopEnd
  <2>2. CASE call[c].kind # "delete"
    BY <1>1, <1>13, <2>2 DEF LoopEnd
  <2> QED BY <2>1, <2>2
<1>14. CASE Unlock(c)
  <2>1. mu' \in M!Mutex
    BY <1>1, <1>14 DEF Unlock, M!Unlocked, M!Free, M!Mutex
  <2>2. answer' \in [Client -> Answer]
    BY <1>1, <1>14 DEF Unlock, Number
  <2> QED BY <1>1, <1>14, <2>1, <2>2 DEF Unlock
<1> QED BY <1>3, <1>4, <1>5, <1>6, <1>7, <1>8, <1>9, <1>10, <1>11, <1>12, <1>13, <1>14 DEF Step

LEMMA MutexStep ==
  ASSUME TypeOK, MutexInv, CallInv, NEW c \in Client, Invoke(c) \/ Step(c)
  PROVE  MutexInv'
<1>1. /\ mu \in M!Mutex
      /\ pc \in [Client -> {"idle", "rlock", "read", "lock", "wait", "work", "unlock", "done"}]
      /\ c # NoOne
  BY NoOneAssumption DEF TypeOK
<1>2. \A d \in Client \ {c} : pc'[d] = pc[d]
  BY StepLocal
<1> USE DEF MutexInv, Working
<1>3. CASE Invoke(c)
  BY <1>1, <1>2, <1>3 DEF Invoke
<1>4. CASE RLock(c)
  <2>1. c \notin mu.readers \union mu.queued /\ pc'[c] = "read" /\ pc[c] = "rlock"
    BY <1>1, <1>4 DEF RLock
  <2>2. CASE mu.writer = NoOne
    <3>1. mu' = [mu EXCEPT !.readers = @ \union {c}]
      BY <1>4, <2>2 DEF RLock, M!RLocked
    <3> QED BY <1>1, <1>2, <2>1, <2>2, <3>1, NoOneAssumption DEF M!Mutex
  <2>3. CASE mu.writer # NoOne
    <3>1. mu' = [mu EXCEPT !.queued = @ \union {c}]
      BY <1>4, <2>3 DEF RLock, M!RLocked
    <3> QED BY <1>1, <1>2, <2>1, <2>3, <3>1 DEF M!Mutex
  <2> QED BY <2>2, <2>3
<1>5. CASE ScanRow(c)
  BY <1>1, <1>2, <1>5 DEF ScanRow
<1>6. CASE RUnlock(c)
  <2>1. mu' = [mu EXCEPT !.readers = @ \ {c}] /\ c \in mu.readers
    BY <1>6 DEF RUnlock, M!RUnlocked, M!Reading
  <2>2. pc[c] = "read" /\ pc'[c] = "done"
    BY <1>1, <1>6 DEF RUnlock
  <2> QED BY <1>1, <1>2, <2>1, <2>2 DEF M!Mutex
<1>7. CASE Announce(c)
  <2>1. mu' = [mu EXCEPT !.writer = c] /\ mu.writer = NoOne
    BY <1>7 DEF Announce, M!CanAnnounce, M!Announced
  <2>2. pc[c] = "lock" /\ pc'[c] = "wait"
    BY <1>1, <1>7 DEF Announce
  <2> QED BY <1>1, <1>2, <2>1, <2>2, NoOneAssumption DEF M!Mutex
<1>8. CASE Acquire(c)
  <2>1. mu' = [mu EXCEPT !.locked = TRUE] /\ mu.writer = c /\ mu.readers = {}
    BY <1>8 DEF Acquire, M!CanLock, M!Locked
  <2>2. pc[c] = "wait" /\ pc'[c] = "work"
    BY <1>1, <1>8 DEF Acquire
  <2> QED BY <1>1, <1>2, <2>1, <2>2 DEF M!Mutex
<1>9. CASE InsertRow(c) \/ Truncate(c) \/ LoopEnd(c)
  <2>1. mu' = mu /\ pc[c] = "work" /\ pc'[c] = "unlock"
    BY <1>1, <1>9 DEF InsertRow, Truncate, LoopEnd
  <2> QED BY <1>1, <1>2, <2>1
<1>10. CASE UpdateRow(c) \/ DeleteRow(c)
  <2>1. mu' = mu /\ pc' = pc
    BY <1>10 DEF UpdateRow, DeleteRow
  <2> QED BY <2>1
<1>11. CASE Unlock(c)
  <2>1. mu' = [writer |-> NoOne, locked |-> FALSE, readers |-> mu.queued, queued |-> {}]
    BY <1>11 DEF Unlock, M!Unlocked, M!Free
  <2>2. pc[c] = "unlock" /\ pc'[c] = "done"
    BY <1>1, <1>11 DEF Unlock
  <2>3. mu.writer = c /\ mu.readers = {}
    BY <2>2
  <2> QED BY <1>1, <1>2, <2>1, <2>2, <2>3, NoOneAssumption
<1> QED BY <1>3, <1>4, <1>5, <1>6, <1>7, <1>8, <1>9, <1>10, <1>11 DEF Step

LEMMA CallStep ==
  ASSUME TypeOK, CallInv, NEW c \in Client, Invoke(c) \/ Step(c)
  PROVE  CallInv'
<1>1. SUFFICES ASSUME NEW d \in Client
      PROVE  /\ pc'[d] # "idle" => call'[d] \in Calls
             /\ pc'[d] \in {"rlock", "read"} => Reads(call'[d])
             /\ pc'[d] \in {"lock", "wait", "work", "unlock"} => ~Reads(call'[d])
  BY DEF CallInv
<1>2. CASE d # c
  BY <1>2, StepLocal DEF CallInv
<1>3. CASE d = c
  <2>1. /\ pc \in [Client -> {"idle", "rlock", "read", "lock", "wait", "work", "unlock", "done"}]
        /\ call \in [Client -> Calls \union {NoCall}]
    BY DEF TypeOK
  <2>2. CASE Invoke(c)
    BY <1>3, <2>1, <2>2 DEF Invoke
  <2>3. CASE Step(c)
    <3>1. call' = call
      BY <2>3 DEF Step, RLock, ScanRow, RUnlock, Announce, Acquire, InsertRow,
                  Truncate, UpdateRow, DeleteRow, LoopEnd, Unlock
    <3>2. \/ pc'[c] = pc[c] \/ pc'[c] = "done"
          \/ pc[c] = "rlock" /\ pc'[c] = "read"
          \/ pc[c] \in {"lock", "wait", "work"} /\ pc'[c] \in {"wait", "work", "unlock"}
      BY <2>1, <2>3 DEF Step, RLock, ScanRow, RUnlock, Announce, Acquire, InsertRow,
                  Truncate, UpdateRow, DeleteRow, LoopEnd, Unlock
    <3>3. pc[c] # "idle"
      BY <2>3 DEF Step, RLock, ScanRow, RUnlock, Announce, Acquire, InsertRow,
                  Truncate, UpdateRow, DeleteRow, LoopEnd, Unlock
    <3> QED BY <1>3, <3>1, <3>2, <3>3 DEF CallInv
  <2> QED BY <2>2, <2>3
<1> QED BY <1>2, <1>3

\* Who comes to read in a step of c, and who stays.
LEMMA ReadersStep ==
  ASSUME TypeOK, MutexInv, NEW c \in Client, Invoke(c) \/ Step(c),
         NEW d \in Client, d # c
  PROVE  /\ M!Reading(mu, d) => M!Reading(mu', d)
         /\ M!Reading(mu', d) => M!Reading(mu, d) \/ (pc[d] = "read" /\ Unlock(c))
<1>1. mu \in M!Mutex
  BY DEF TypeOK
<1>2. CASE RLock(c)
  BY <1>1, <1>2 DEF RLock, M!RLocked, M!Reading, M!Mutex
<1>3. CASE RUnlock(c)
  BY <1>1, <1>3 DEF RUnlock, M!RUnlocked, M!Reading, M!Mutex
<1>4. CASE Announce(c)
  BY <1>1, <1>4 DEF Announce, M!Announced, M!Reading, M!Mutex
<1>5. CASE Acquire(c)
  BY <1>1, <1>5 DEF Acquire, M!Locked, M!Reading, M!Mutex
<1>6. CASE Unlock(c)
  <2>1. mu.readers = {}
    BY <1>6, WriterAlone DEF Unlock, Working
  <2>2. d \in mu.queued => pc[d] = "read"
    BY DEF MutexInv
  <2> QED BY <1>1, <1>6, <2>1, <2>2 DEF Unlock, M!Unlocked, M!Free, M!Reading
<1>7. CASE mu' = mu
  BY <1>7
<1> QED BY <1>2, <1>3, <1>4, <1>5, <1>6, <1>7
        DEF Step, Invoke, ScanRow, InsertRow, Truncate, UpdateRow, DeleteRow, LoopEnd

\* Only the writer that works changes the rows.
LEMMA RowsFrame ==
  ASSUME NEW c \in Client, Invoke(c) \/ Step(c), ~Working(c)
  PROVE  /\ rows' = rows
         /\ Acquire(c) \/ (before' = before /\ src' = src)
BY DEF Step, Invoke, RLock, ScanRow, RUnlock, Announce, Acquire, InsertRow, Truncate,
       UpdateRow, DeleteRow, LoopEnd, Unlock, Working

\* What a working writer relies on is not touched by others.
LEMMA WriterFrame ==
  ASSUME TypeOK, MutexInv, NEW c \in Client, Invoke(c) \/ Step(c),
         NEW d \in Client, d # c, Working(d)
  PROVE  rows' = rows /\ before' = before /\ src' = src
<1>1. ~Working(c) /\ mu.writer = d
  BY WriterAlone DEF MutexInv
<1>2. ~Acquire(c)
  BY <1>1 DEF Acquire, M!CanLock
<1> QED BY <1>1, <1>2, RowsFrame

LEMMA FreshStep ==
  ASSUME TypeOK, MutexInv, FreshInv, NEW c \in Client, Invoke(c) \/ Step(c)
  PROVE  FreshInv'
<1>1. SUFFICES ASSUME NEW d \in Client, ~Working(d)', pc'[d] # "done", ~M!Reading(mu', d)
      PROVE  at'[d] = 1 /\ kept'[d] = 0 /\ count'[d] = 0 /\ out'[d] = <<>>
  BY DEF FreshInv, Working
<1>2. CASE d # c
  <2>1. ~Working(d) /\ pc[d] # "done"
    BY <1>1, <1>2, StepLocal DEF Working
  <2>2. ~M!Reading(mu, d)
    BY <1>1, <1>2, ReadersStep
  <2> QED BY <1>2, <2>1, <2>2, StepLocal DEF FreshInv
<1>3. CASE d = c
  <2>1. pc \in [Client -> {"idle", "rlock", "read", "lock", "wait", "work", "unlock", "done"}]
    BY DEF TypeOK
  <2>2. c \in mu.readers => pc[c] = "read"
    BY DEF MutexInv
  <2>3. CASE Invoke(c)
    BY <1>3, <2>1, <2>2, <2>3 DEF Invoke, FreshInv, Working, M!Reading
  <2>4. CASE RLock(c)
    BY <1>3, <2>1, <2>2, <2>4 DEF RLock, FreshInv, Working, M!Reading
  <2>5. CASE Announce(c)
    BY <1>3, <2>1, <2>2, <2>5 DEF Announce, FreshInv, Working, M!Reading
  <2>6. CASE ScanRow(c)
    BY <1>1, <1>3, <2>6 DEF ScanRow
  <2>7. CASE RUnlock(c) \/ Unlock(c)
    BY <1>1, <1>3, <2>1, <2>7 DEF RUnlock, Unlock
  <2>8. CASE \/ Acquire(c) \/ InsertRow(c) \/ Truncate(c) \/ UpdateRow(c)
             \/ DeleteRow(c) \/ LoopEnd(c)
    BY <1>1, <1>3, <2>1, <2>8
       DEF Acquire, InsertRow, Truncate, UpdateRow, DeleteRow, LoopEnd, Working
  <2> QED BY <2>3, <2>4, <2>5, <2>6, <2>7, <2>8 DEF Step
<1> QED BY <1>2, <1>3

LEMMA ScanStep ==
  ASSUME TypeOK, MutexInv, FreshInv, ScanInv, NEW c \in Client, Invoke(c) \/ Step(c)
  PROVE  ScanInv'
<1>1. SUFFICES ASSUME NEW d \in Client, M!Reading(mu', d)
      PROVE  /\ at'[d] <= Len(rows') + 1
             /\ Len(out'[d]) = at'[d] - 1
             /\ \A i \in 1 .. at'[d] - 1 : out'[d][i] = rows'[i]
  BY DEF ScanInv
<1>2. /\ rows \in Seq(Value) /\ Len(rows) \in Nat
      /\ at \in [Client -> Nat \ {0}] /\ out \in [Client -> Seq(Value)]
      /\ mu \in M!Mutex
  BY DEF TypeOK
<1>3. CASE d # c
  <2>1. at'[d] = at[d] /\ out'[d] = out[d]
    BY <1>3, StepLocal
  <2>2. CASE M!Reading(mu, d)
    <3>1. ~Working(c)
      BY <2>2, WriterAlone DEF M!Reading
    <3>2. rows' = rows
      BY <3>1, RowsFrame
    <3> QED BY <2>1, <2>2, <3>2 DEF ScanInv
  <2>3. CASE ~M!Reading(mu, d)
    <3>1. pc[d] = "read" /\ Unlock(c)
      BY <1>1, <1>3, <2>3, ReadersStep
    <3>2. at[d] = 1 /\ out[d] = <<>> /\ rows' = rows
      BY <2>3, <3>1 DEF FreshInv, Working, Unlock
    <3> QED BY <1>2, <2>1, <3>2
  <2> QED BY <2>2, <2>3
<1>4. CASE d = c
  <2>1. c \in mu.readers => pc[c] = "read"
    BY DEF MutexInv
  <2>2. CASE RLock(c)
    <3>1. at[c] = 1 /\ out[c] = <<>>
      BY <2>1, <2>2 DEF RLock, FreshInv, Working, M!Reading
    <3> QED BY <1>2, <1>4, <2>2, <3>1 DEF RLock
  <2>3. CASE ScanRow(c)
    <3>1. /\ at[c] <= Len(rows) /\ Len(out[c]) = at[c] - 1
          /\ \A i \in 1 .. at[c] - 1 : out[c][i] = rows[i]
          /\ rows' = rows /\ rows[at[c]] \in Value
      BY <1>2, <2>3 DEF ScanRow, ScanInv
    <3>2. at'[c] = at[c] + 1 /\ out'[c] = Append(out[c], rows[at[c]])
      BY <1>2, <2>3 DEF ScanRow
    <3>3. \A i \in 1 .. at[c] : out'[c][i] = rows[i]
      BY <1>2, <3>1, <3>2, AppendProperties
    <3>4. Len(out'[c]) = at[c]
      BY <1>2, <3>1, <3>2, AppendProperties
    <3> QED BY <1>2, <1>4, <3>1, <3>2, <3>3, <3>4
  <2>4. CASE RUnlock(c)
    <3>1. ~M!Reading(mu', c)
      BY <1>2, <2>4 DEF RUnlock, M!RUnlocked, M!Reading, M!Mutex
    <3> QED BY <1>1, <1>4, <3>1
  <2>5. CASE Unlock(c)
    <3>1. c \notin mu.queued
      BY <2>5 DEF Unlock, MutexInv
    <3>2. ~M!Reading(mu', c)
      BY <1>2, <2>5, <3>1 DEF Unlock, M!Unlocked, M!Free, M!Reading
    <3> QED BY <1>1, <1>4, <3>2
  <2>6. CASE \/ Invoke(c) \/ Announce(c) \/ Acquire(c) \/ InsertRow(c) \/ Truncate(c)
             \/ UpdateRow(c) \/ DeleteRow(c) \/ LoopEnd(c)
    <3>1. pc[c] # "read"
      BY <2>6 DEF Invoke, Announce, Acquire, InsertRow, Truncate, UpdateRow, DeleteRow, LoopEnd
    <3>2. mu'.readers = mu.readers
      BY <1>2, <2>6 DEF Invoke, Announce, Acquire, InsertRow, Truncate, UpdateRow, DeleteRow,
                        LoopEnd, M!Announced, M!Locked, M!Mutex
    <3> QED BY <1>1, <1>4, <2>1, <3>1, <3>2 DEF M!Reading
  <2> QED BY <2>2, <2>3, <2>4, <2>5, <2>6 DEF Step
<1> QED BY <1>3, <1>4

\* One more row of a prefix: the number of matching rows.
LEMMA CountOneMore ==
  ASSUME NEW s \in Seq(Value), NEW S, NEW k \in Nat \ {0}, k <= Len(s)
  PROVE  LET Upto(n) == {i \in 1 .. n : s[i] \in S}
         IN  /\ Cardinality(Upto(k - 1)) \in Nat
             /\ Cardinality(Upto(k)) =
                  IF s[k] \in S THEN Cardinality(Upto(k - 1)) + 1 ELSE Cardinality(Upto(k - 1))
<1> DEFINE Upto(n) == {i \in 1 .. n : s[i] \in S}
<1>1. IsFiniteSet(1 .. (k - 1))
  BY FS_Interval
<1>2. IsFiniteSet(Upto(k - 1))
  BY <1>1, FS_Subset
<1>3. CASE s[k] \in S
  <2>1. Upto(k) = Upto(k - 1) \union {k} /\ k \notin Upto(k - 1)
    BY <1>3
  <2> HIDE DEF Upto
  <2>2. Cardinality(Upto(k)) = Cardinality(Upto(k - 1)) + 1
    BY <1>2, <2>1, FS_AddElement
  <2>3. Cardinality(Upto(k - 1)) \in Nat
    BY <1>2, FS_CardinalityType
  <2> QED BY <1>3, <2>2, <2>3 DEF Upto
<1>4. CASE s[k] \notin S
  <2>1. Upto(k) = Upto(k - 1)
    BY <1>4
  <2> HIDE DEF Upto
  <2>2. Cardinality(Upto(k - 1)) \in Nat
    BY <1>2, FS_CardinalityType
  <2> QED BY <1>4, <2>1, <2>2 DEF Upto
<1> QED BY <1>3, <1>4

\* What is known when a writer takes a row of its loop.
LEMMA LoopFacts ==
  ASSUME TypeOK, CallInv, LoopInv, NEW c \in Client, pc[c] = "work"
  PROVE  /\ rows \in Seq(Value) /\ before \in Seq(Value) /\ src \in Seq(Nat \ {0})
         /\ Len(rows) \in Nat /\ Len(rows) = Len(before)
         /\ at[c] \in Nat \ {0} /\ at[c] <= Len(rows) + 1
         /\ kept[c] \in Nat /\ count[c] \in Nat
         /\ \A i \in at[c] .. Len(rows) : rows[i] = before[i]
         /\ call[c].to \in [Value -> Value]
<1>1. /\ rows \in Seq(Value) /\ before \in Seq(Value) /\ src \in Seq(Nat \ {0})
      /\ at[c] \in Nat \ {0} /\ kept[c] \in Nat /\ count[c] \in Nat
  BY DEF TypeOK
<1>2. Len(rows) \in Nat
  BY <1>1
<1>3. /\ Len(rows) = Len(before) /\ at[c] <= Len(rows) + 1
      /\ \A i \in at[c] .. Len(rows) : rows[i] = before[i]
  BY DEF LoopInv
<1>4. call[c].to \in [Value -> Value]
  BY CallFacts
<1> QED BY <1>1, <1>2, <1>3, <1>4

LEMMA UpdateLoopStep ==
  ASSUME TypeOK, CallInv, LoopInv, NEW c \in Client, UpdateRow(c)
  PROVE  /\ Len(rows') = Len(before)
         /\ at'[c] <= Len(rows') + 1
         /\ \A i \in at'[c] .. Len(rows') : rows'[i] = before[i]
         /\ \A i \in 1 .. at'[c] - 1 :
              rows'[i] = IF before[i] \in call[c].match
                         THEN call[c].to[before[i]] ELSE before[i]
         /\ count'[c] = Cardinality({i \in 1 .. at'[c] - 1 : before[i] \in call[c].match})
<1>1. pc[c] = "work" /\ call[c].kind = "update" /\ at[c] <= Len(rows)
  BY DEF UpdateRow
<1>2. /\ rows \in Seq(Value) /\ before \in Seq(Value)
      /\ Len(rows) \in Nat /\ Len(rows) = Len(before)
      /\ at[c] \in 1 .. Len(rows)
      /\ \A i \in at[c] .. Len(rows) : rows[i] = before[i]
      /\ call[c].to \in [Value -> Value]
      /\ rows[at[c]] \in Value /\ rows[at[c]] = before[at[c]]
  <2>1. /\ rows \in Seq(Value) /\ before \in Seq(Value)
        /\ Len(rows) \in Nat /\ Len(rows) = Len(before)
        /\ at[c] \in Nat \ {0}
        /\ \A i \in at[c] .. Len(rows) : rows[i] = before[i]
        /\ call[c].to \in [Value -> Value]
    BY <1>1, LoopFacts
  <2>2. at[c] \in 1 .. Len(rows) /\ at[c] \in at[c] .. Len(rows)
    BY <1>1, <2>1
  <2>3. rows[at[c]] \in Value
    BY <2>1, <2>2
  <2>4. rows[at[c]] = before[at[c]]
    BY <2>1, <2>2
  <2> QED BY <2>1, <2>2, <2>3, <2>4
<1>3. /\ \A i \in 1 .. at[c] - 1 :
           rows[i] = IF before[i] \in call[c].match THEN call[c].to[before[i]] ELSE before[i]
      /\ count[c] = Cardinality({i \in 1 .. at[c] - 1 : before[i] \in call[c].match})
  BY <1>1 DEF LoopInv
<1>4. at'[c] = at[c] + 1 /\ at'[c] - 1 = at[c]
  BY <1>2 DEF UpdateRow, TypeOK
<1>5. /\ Len(rows') = Len(rows)
      /\ \A i \in 1 .. Len(rows) :
           rows'[i] = IF i = at[c] /\ before[i] \in call[c].match
                      THEN call[c].to[before[i]] ELSE rows[i]
  <2>1. CASE rows[at[c]] \in call[c].match
    <3>1. rows' = [rows EXCEPT ![at[c]] = call[c].to[rows[at[c]]]]
      BY <2>1 DEF UpdateRow
    <3> QED BY <1>2, <2>1, <3>1, ExceptSeq
  <2>2. CASE rows[at[c]] \notin call[c].match
    BY <1>2, <2>2 DEF UpdateRow
  <2> QED BY <2>1, <2>2
<1>6. count'[c] = IF before[at[c]] \in call[c].match THEN count[c] + 1 ELSE count[c]
  BY <1>2 DEF UpdateRow, TypeOK
<1>7. count'[c] = Cardinality({i \in 1 .. at[c] : before[i] \in call[c].match})
  BY <1>2, <1>3, <1>6, CountOneMore
<1>8. \A i \in 1 .. at[c] :
        rows'[i] = IF before[i] \in call[c].match THEN call[c].to[before[i]] ELSE before[i]
  BY <1>2, <1>3, <1>5
<1>9. \A i \in at[c] + 1 .. Len(rows) : rows'[i] = before[i]
  BY <1>2, <1>5
<1>10. Len(rows') = Len(before) /\ at'[c] <= Len(rows') + 1
  BY <1>2, <1>4, <1>5
<1> QED BY <1>4, <1>5, <1>7, <1>8, <1>9, <1>10

\* The first k rows of rw are what survives match in the first n of bf, taken
\* from the places sr, and the rows from n + 1 on are untouched.
Compacted(rw, bf, sr, match, n, k) ==
  /\ Len(rw) = Len(bf) /\ Len(sr) = k /\ k <= n
  /\ \A i \in n + 1 .. Len(rw) : rw[i] = bf[i]
  /\ \A j \in 1 .. k : sr[j] <= n /\ rw[j] = bf[sr[j]]
  /\ \A j, l \in 1 .. k : j < l => sr[j] < sr[l]
  /\ \A i \in 1 .. n : bf[i] \notin match <=> \E j \in 1 .. k : sr[j] = i

LEMMA CompactDropped ==
  ASSUME NEW rw \in Seq(Value), NEW bf \in Seq(Value), NEW sr \in Seq(Nat \ {0}), NEW match,
         NEW n \in Nat, NEW k \in Nat, n < Len(rw),
         Compacted(rw, bf, sr, match, n, k), rw[n + 1] \in match
  PROVE  Compacted(rw, bf, sr, match, n + 1, k)
<1>1. Len(rw) \in Nat /\ \A j \in 1 .. k : sr[j] \in Nat
  BY DEF Compacted
<1>2. bf[n + 1] \in match
  BY <1>1 DEF Compacted
<1>3. ~ \E j \in 1 .. k : sr[j] = n + 1
  BY <1>1 DEF Compacted
<1>4. \A i \in 1 .. n + 1 : bf[i] \notin match <=> \E j \in 1 .. k : sr[j] = i
  <2> SUFFICES ASSUME NEW i \in 1 .. n + 1
               PROVE  bf[i] \notin match <=> \E j \in 1 .. k : sr[j] = i
    OBVIOUS
  <2>1. CASE i = n + 1
    BY <1>2, <1>3, <2>1
  <2>2. CASE i # n + 1
    <3>1. i \in 1 .. n
      BY <2>2
    <3> QED BY <3>1 DEF Compacted
  <2> QED BY <2>1, <2>2
<1>5. \A j \in 1 .. k : sr[j] <= n + 1 /\ rw[j] = bf[sr[j]]
  <2>1. \A j \in 1 .. k : sr[j] <= n /\ rw[j] = bf[sr[j]]
    BY DEF Compacted
  <2> QED BY <1>1, <2>1
<1>6. k <= n + 1 /\ \A i \in n + 1 + 1 .. Len(rw) : rw[i] = bf[i]
  BY <1>1 DEF Compacted
<1> QED BY <1>4, <1>5, <1>6 DEF Compacted

LEMMA CompactKept ==
  ASSUME NEW rw \in Seq(Value), NEW bf \in Seq(Value), NEW sr \in Seq(Nat \ {0}), NEW match,
         NEW n \in Nat, NEW k \in Nat, n < Len(rw),
         Compacted(rw, bf, sr, match, n, k), rw[n + 1] \notin match
  PROVE  Compacted([rw EXCEPT ![k + 1] = rw[n + 1]], bf, Append(sr, n + 1), match, n + 1, k + 1)
<1> DEFINE rw1 == [rw EXCEPT ![k + 1] = rw[n + 1]]
           sr1 == Append(sr, n + 1)
<1>1. Len(rw) \in Nat /\ Len(rw) = Len(bf) /\ Len(sr) = k /\ k <= n
  BY DEF Compacted
<1>2. \A j \in 1 .. k : sr[j] \in Nat /\ sr[j] <= n /\ rw[j] = bf[sr[j]]
  BY <1>1 DEF Compacted
<1>3. rw[n + 1] = bf[n + 1] /\ n + 1 \in 1 .. Len(rw) /\ rw[n + 1] \in Value
  BY <1>1 DEF Compacted
<1>4. /\ Len(rw1) = Len(rw)
      /\ \A i \in 1 .. Len(rw) : rw1[i] = IF i = k + 1 THEN bf[n + 1] ELSE rw[i]
  <2>1. k + 1 \in 1 .. Len(rw)
    BY <1>1
  <2> QED BY <1>1, <1>3, <2>1, ExceptSeq
<1>5. /\ Len(sr1) = k + 1 /\ sr1[k + 1] = n + 1
      /\ \A j \in 1 .. k : sr1[j] = sr[j]
  BY <1>1, AppendProperties
<1> HIDE DEF rw1, sr1
<1>6. \A i \in n + 1 + 1 .. Len(rw) : rw1[i] = bf[i]
  <2> SUFFICES ASSUME NEW i \in n + 1 + 1 .. Len(rw) PROVE rw1[i] = bf[i]
    OBVIOUS
  <2>1. i \in 1 .. Len(rw) /\ i # k + 1 /\ i \in n + 1 .. Len(rw)
    BY <1>1
  <2>2. rw[i] = bf[i]
    BY <2>1 DEF Compacted
  <2> QED BY <1>4, <2>1, <2>2
<1>7. \A j \in 1 .. k + 1 : sr1[j] <= n + 1 /\ rw1[j] = bf[sr1[j]]
  <2> SUFFICES ASSUME NEW j \in 1 .. k + 1 PROVE sr1[j] <= n + 1 /\ rw1[j] = bf[sr1[j]]
    OBVIOUS
  <2>1. j \in 1 .. Len(rw)
    BY <1>1
  <2>2. CASE j = k + 1
    BY <1>4, <1>5, <2>1, <2>2
  <2>3. CASE j # k + 1
    <3>1. j \in 1 .. k
      BY <2>3
    <3>2. sr1[j] = sr[j] /\ sr[j] <= n /\ sr[j] \in Nat /\ rw[j] = bf[sr[j]] /\ rw1[j] = rw[j]
      BY <1>2, <1>4, <1>5, <2>1, <2>3, <3>1
    <3> QED BY <3>2
  <2> QED BY <2>2, <2>3
<1>8. \A j, l \in 1 .. k + 1 : j < l => sr1[j] < sr1[l]
  <2> SUFFICES ASSUME NEW j \in 1 .. k + 1, NEW l \in 1 .. k + 1, j < l
               PROVE  sr1[j] < sr1[l]
    OBVIOUS
  <2>a. j \in 1 .. k
    OBVIOUS
  <2>1. j \in 1 .. k /\ sr1[j] = sr[j] /\ sr[j] \in Nat /\ sr[j] <= n
    BY <1>2, <1>5, <2>a
  <2>2. CASE l = k + 1
    BY <1>5, <2>1, <2>2
  <2>3. CASE l # k + 1
    <3>1. l \in 1 .. k /\ sr1[l] = sr[l]
      BY <1>5, <2>3
    <3> QED BY <2>1, <3>1 DEF Compacted
  <2> QED BY <2>2, <2>3
<1>9. \A i \in 1 .. n + 1 : bf[i] \notin match <=> \E j \in 1 .. k + 1 : sr1[j] = i
  <2> SUFFICES ASSUME NEW i \in 1 .. n + 1
               PROVE  bf[i] \notin match <=> \E j \in 1 .. k + 1 : sr1[j] = i
    OBVIOUS
  <2>1. CASE i = n + 1
    <3>1. bf[i] \notin match
      BY <1>3, <2>1
    <3>2. k + 1 \in 1 .. k + 1 /\ sr1[k + 1] = i
      BY <1>5, <2>1
    <3> QED BY <3>1, <3>2
  <2>2. CASE i # n + 1
    <3>1. i \in 1 .. n
      BY <2>2
    <3>2. (\E j \in 1 .. k : sr[j] = i) => \E j \in 1 .. k + 1 : sr1[j] = i
      <4>1. \A j \in 1 .. k : j \in 1 .. k + 1
        OBVIOUS
      <4> QED BY <1>5, <4>1
    <3>3. ASSUME NEW j \in 1 .. k + 1, sr1[j] = i
          PROVE  \E l \in 1 .. k : sr[l] = i
      <4>1. j # k + 1
        BY <1>5, <2>2, <3>3
      <4>2. j \in 1 .. k
        BY <4>1
      <4> QED BY <1>5, <3>3, <4>2
    <3>4. bf[i] \notin match <=> \E j \in 1 .. k : sr[j] = i
      BY <3>1 DEF Compacted
    <3> QED BY <3>2, <3>3, <3>4
  <2> QED BY <2>1, <2>2
<1>10. k + 1 <= n + 1
  BY <1>1
<1>11. Len(rw1) = Len(bf)
  BY <1>1, <1>4
<1>12. Compacted(rw1, bf, sr1, match, n + 1, k + 1)
  BY <1>4, <1>5, <1>6, <1>7, <1>8, <1>9, <1>10, <1>11 DEF Compacted
<1> QED BY <1>12 DEF rw1, sr1

\* The same, as CompactionSound says it of the loop at place p.
CompactedBefore(rw, bf, sr, match, p, k) ==
  /\ Len(rw) = Len(bf) /\ Len(sr) = k
  /\ k < p
  /\ \A i \in p .. Len(rw) : rw[i] = bf[i]
  /\ \A j \in 1 .. k : sr[j] < p /\ rw[j] = bf[sr[j]]
  /\ \A j, l \in 1 .. k : j < l => sr[j] < sr[l]
  /\ \A i \in 1 .. p - 1 : bf[i] \notin match <=> \E j \in 1 .. k : sr[j] = i

LEMMA CompactedAt ==
  ASSUME NEW rw \in Seq(Value), NEW bf \in Seq(Value), NEW sr \in Seq(Nat \ {0}), NEW match,
         NEW p \in Nat \ {0}, NEW k \in Nat
  PROVE  Compacted(rw, bf, sr, match, p - 1, k) <=> CompactedBefore(rw, bf, sr, match, p, k)
<1>1. p - 1 \in Nat /\ p - 1 + 1 = p
  OBVIOUS
<1>2. k <= p - 1 <=> k < p
  OBVIOUS
<1>3. Len(sr) = k => \A j \in 1 .. k : sr[j] <= p - 1 <=> sr[j] < p
  <2> SUFFICES ASSUME Len(sr) = k, NEW j \in 1 .. k PROVE sr[j] <= p - 1 <=> sr[j] < p
    OBVIOUS
  <2>1. sr[j] \in Nat
    OBVIOUS
  <2> QED BY <2>1
<1>4. Len(sr) = k => ((\A j \in 1 .. k : sr[j] <= p - 1 /\ rw[j] = bf[sr[j]])
                       <=> (\A j \in 1 .. k : sr[j] < p /\ rw[j] = bf[sr[j]]))
  BY <1>3
<1> QED BY <1>1, <1>2, <1>4 DEF Compacted, CompactedBefore

LEMMA DeleteLoopStep ==
  ASSUME TypeOK, CallInv, LoopInv, CompactionSound, NEW c \in Client, DeleteRow(c)
  PROVE  /\ at'[c] = at[c] + 1
         /\ Len(rows') = Len(before) /\ at'[c] <= Len(rows') + 1
         /\ \A i \in at'[c] .. Len(rows') : rows'[i] = before[i]
         /\ count'[c] = at'[c] - 1 - kept'[c]
         /\ Compacted(rows', before, src', call[c].match, at'[c] - 1, kept'[c])
<1> DEFINE match == call[c].match
<1>1. pc[c] = "work" /\ call[c].kind = "delete" /\ at[c] <= Len(rows)
  BY DEF DeleteRow
<1>2. /\ rows \in Seq(Value) /\ before \in Seq(Value) /\ src \in Seq(Nat \ {0})
      /\ Len(rows) \in Nat /\ Len(rows) = Len(before)
      /\ at[c] \in Nat \ {0}
      /\ kept[c] \in Nat /\ count[c] \in Nat
  BY <1>1, LoopFacts
<1>3. kept[c] < at[c] /\ count[c] = at[c] - 1 - kept[c]
  BY <1>1 DEF CompactionSound, LoopInv
<1>4. Compacted(rows, before, src, match, at[c] - 1, kept[c])
  <2>1. CompactedBefore(rows, before, src, match, at[c], kept[c])
    BY <1>1 DEF CompactionSound, CompactedBefore
  <2> HIDE DEF match
  <2> QED BY <1>2, <2>1, CompactedAt
<1>5. at'[c] = at[c] + 1 /\ at'[c] - 1 = at[c]
  BY <1>2 DEF DeleteRow, TypeOK
<1>6. at[c] - 1 \in Nat /\ at[c] - 1 < Len(rows) /\ at[c] - 1 + 1 = at[c]
  <2>1. Len(rows) \in Nat /\ at[c] \in Nat \ {0} /\ at[c] <= Len(rows)
    BY <1>1, <1>2
  <2> QED BY <2>1
<1>7. CASE rows[at[c]] \in match
  <2>1. rows' = rows /\ kept' = kept /\ src' = src /\ count'[c] = count[c] + 1
    BY <1>7, <1>2 DEF DeleteRow, TypeOK
  <2>2. Compacted(rows, before, src, match, at[c] - 1 + 1, kept[c])
    <3> HIDE DEF match
    <3> QED BY <1>2, <1>4, <1>6, <1>7, CompactDropped
  <2>3. Compacted(rows', before, src', match, at'[c] - 1, kept'[c])
    BY <1>5, <1>6, <2>1, <2>2
  <2>4. \A i \in at[c] + 1 .. Len(rows) : rows[i] = before[i]
    BY <1>2, <1>6, <2>2 DEF Compacted
  <2>5. count'[c] = at'[c] - 1 - kept'[c]
    BY <1>2, <1>3, <1>5, <2>1
  <2>6. at'[c] <= Len(rows) + 1
    BY <1>1, <1>2, <1>5
  <2> QED BY <1>2, <1>5, <2>1, <2>3, <2>4, <2>5, <2>6
<1>8. CASE rows[at[c]] \notin match
  <2>1. /\ rows' = [rows EXCEPT ![kept[c] + 1] = rows[at[c]]]
        /\ src' = Append(src, at[c]) /\ count' = count
    BY <1>8 DEF DeleteRow
  <2>2. kept'[c] = kept[c] + 1
    BY <1>8, <1>2 DEF DeleteRow, TypeOK
  <2>3. Compacted([rows EXCEPT ![kept[c] + 1] = rows[at[c] - 1 + 1]], before,
                  Append(src, at[c] - 1 + 1), match, at[c] - 1 + 1, kept[c] + 1)
    <3> HIDE DEF match
    <3>1. rows[at[c] - 1 + 1] \notin match
      BY <1>6, <1>8
    <3> QED BY <1>2, <1>4, <1>6, <3>1, CompactKept
  <2>4. Compacted(rows', before, src', match, at[c], kept[c] + 1)
    BY <1>6, <2>1, <2>3
  <2>5. Compacted(rows', before, src', match, at'[c] - 1, kept'[c])
    BY <1>5, <2>2, <2>4
  <2>6. Len(rows') = Len(before) /\ \A i \in at[c] + 1 .. Len(rows') : rows'[i] = before[i]
    BY <2>4 DEF Compacted
  <2>7. count'[c] = at'[c] - 1 - kept'[c]
    BY <1>2, <1>3, <1>5, <2>1, <2>2
  <2>8. at'[c] <= Len(rows') + 1
    BY <1>1, <1>2, <1>5, <2>6
  <2> QED BY <1>5, <2>5, <2>6, <2>7, <2>8
<1> QED BY <1>7, <1>8

\* A working writer is left alone by the others; it starts on fresh variables.
LEMMA LoopStep ==
  ASSUME TypeOK, MutexInv, CallInv, FreshInv, LoopInv, CompactionSound,
         NEW c \in Client, Invoke(c) \/ Step(c)
  PROVE  LoopInv'
<1>1. SUFFICES ASSUME NEW d \in Client, pc'[d] = "work"
      PROVE  /\ Len(rows') = Len(before')
             /\ at'[d] <= Len(rows') + 1
             /\ \A i \in at'[d] .. Len(rows') : rows'[i] = before'[i]
             /\ call'[d].kind \notin {"update", "delete"} => at'[d] = 1 /\ count'[d] = 0
             /\ call'[d].kind = "update" =>
                  /\ \A i \in 1 .. at'[d] - 1 :
                       rows'[i] = IF before'[i] \in call'[d].match
                                  THEN call'[d].to[before'[i]] ELSE before'[i]
                  /\ count'[d] = Cardinality({i \in 1 .. at'[d] - 1 :
                                                before'[i] \in call'[d].match})
             /\ call'[d].kind = "delete" => count'[d] = at'[d] - 1 - kept'[d]
  BY DEF LoopInv
<1>2. CASE d # c
  <2>1. /\ pc[d] = "work" /\ call'[d] = call[d] /\ at'[d] = at[d]
        /\ kept'[d] = kept[d] /\ count'[d] = count[d]
    BY <1>1, <1>2, StepLocal
  <2>2. rows' = rows /\ before' = before
    BY <1>2, <2>1, WriterFrame DEF Working
  <2> QED BY <2>1, <2>2 DEF LoopInv
<1>3. CASE d = c
  <2>1. pc \in [Client -> {"idle", "rlock", "read", "lock", "wait", "work", "unlock", "done"}]
    BY DEF TypeOK
  <2>2. Acquire(c) \/ UpdateRow(c) \/ DeleteRow(c)
    BY <1>1, <1>3, <2>1
       DEF Step, Invoke, RLock, ScanRow, RUnlock, Announce, InsertRow, Truncate, LoopEnd, Unlock
  <2>3. CASE Acquire(c)
    <3>1. /\ rows' = rows /\ before' = rows /\ call' = call /\ at' = at
          /\ kept' = kept /\ count' = count /\ pc[c] = "wait"
      BY <2>3 DEF Acquire
    <3>2. at[c] = 1 /\ kept[c] = 0 /\ count[c] = 0
      <4>1. c \notin mu.readers
        BY <3>1 DEF MutexInv
      <4> QED BY <3>1, <4>1 DEF FreshInv, Working, M!Reading
    <3>3. Len(rows) \in Nat
      BY DEF TypeOK
    <3>4. {i \in 1 .. at[c] - 1 : rows[i] \in call[c].match} = {}
      BY <3>2
    <3>5. Cardinality({i \in 1 .. at[c] - 1 : rows[i] \in call[c].match}) = 0
      BY <3>4, FS_EmptySet
    <3> QED BY <1>3, <3>1, <3>2, <3>3, <3>5
  <2>4. CASE UpdateRow(c)
    <3>1. call' = call /\ before' = before /\ call[c].kind = "update"
      BY <2>4 DEF UpdateRow
    <3> QED BY <1>3, <2>4, <3>1, UpdateLoopStep
  <2>5. CASE DeleteRow(c)
    <3>1. call' = call /\ before' = before /\ call[c].kind = "delete"
      BY <2>5 DEF DeleteRow
    <3> QED BY <1>3, <2>5, <3>1, DeleteLoopStep
  <2> QED BY <2>2, <2>3, <2>4, <2>5
<1> QED BY <1>2, <1>3

LEMMA CompactionStep ==
  ASSUME TypeOK, MutexInv, CallInv, FreshInv, LoopInv, CompactionSound, TypeOK',
         NEW c \in Client, Invoke(c) \/ Step(c)
  PROVE  CompactionSound'
<1> DEFINE Good(d) == CompactedBefore(rows, before, src, call[d].match, at[d], kept[d])
<1>1. SUFFICES ASSUME NEW d \in Client, pc'[d] = "work", call'[d].kind = "delete"
      PROVE  Good(d)'
  BY DEF CompactionSound, CompactedBefore
<1>2. CASE d # c
  <2>1. /\ pc[d] = "work" /\ call'[d] = call[d] /\ at'[d] = at[d] /\ kept'[d] = kept[d]
    BY <1>1, <1>2, StepLocal
  <2>2. rows' = rows /\ before' = before /\ src' = src
    BY <1>2, <2>1, WriterFrame DEF Working
  <2>3. Good(d)
    BY <1>1, <2>1 DEF CompactionSound, CompactedBefore
  <2> QED BY <2>1, <2>2, <2>3
<1>3. CASE d = c
  <2>1. pc \in [Client -> {"idle", "rlock", "read", "lock", "wait", "work", "unlock", "done"}]
    BY DEF TypeOK
  <2>2. Acquire(c) \/ UpdateRow(c) \/ DeleteRow(c)
    BY <1>1, <1>3, <2>1
       DEF Step, Invoke, RLock, ScanRow, RUnlock, Announce, InsertRow, Truncate, LoopEnd, Unlock
  <2>3. CASE Acquire(c)
    <3>1. /\ rows' = rows /\ before' = rows /\ src' = <<>> /\ at' = at
          /\ kept' = kept /\ pc[c] = "wait"
      BY <2>3 DEF Acquire
    <3>2. at[c] = 1 /\ kept[c] = 0
      <4>1. c \notin mu.readers
        BY <3>1 DEF MutexInv
      <4> QED BY <3>1, <4>1 DEF FreshInv, Working, M!Reading
    <3> QED BY <1>3, <3>1, <3>2 DEF CompactedBefore
  <2>4. CASE UpdateRow(c)
    <3>1. call' = call /\ call[c].kind = "update"
      BY <2>4 DEF UpdateRow
    <3> QED BY <1>1, <1>3, <3>1
  <2>5. CASE DeleteRow(c)
    <3>1. call' = call /\ before' = before
      BY <2>5 DEF DeleteRow
    <3>2. /\ rows' \in Seq(Value) /\ before' \in Seq(Value) /\ src' \in Seq(Nat \ {0})
          /\ at'[c] \in Nat \ {0} /\ kept'[c] \in Nat
      BY DEF TypeOK
    <3>3. Compacted(rows', before', src', call'[c].match, at'[c] - 1, kept'[c])
      BY <2>5, <3>1, DeleteLoopStep
    <3>4. CompactedBefore(rows', before', src', call'[c].match, at'[c], kept'[c])
      BY <3>2, <3>3, CompactedAt
    <3> QED BY <1>3, <3>4
  <2> QED BY <2>2, <2>3, <2>4, <2>5
<1> QED BY <1>2, <1>3

LEMMA RemainderKept ==
  ASSUME NEW rw \in Seq(Value), NEW bf \in Seq(Value), NEW sr \in Seq(Nat \ {0}), NEW match,
         NEW k \in Nat, Compacted(rw, bf, sr, match, Len(rw), k)
  PROVE  /\ Len(SubSeq(rw, 1, k)) = k
         /\ Atomic!Remainder(SubSeq(rw, 1, k), bf, match)
<1> DEFINE new == SubSeq(rw, 1, k)
<1>1. Len(rw) \in Nat /\ Len(rw) = Len(bf) /\ Len(sr) = k /\ k <= Len(rw)
  BY DEF Compacted
<1>2. Len(new) = k /\ \A i \in 1 .. k : new[i] = rw[i]
  <2>1. \A i \in 1 .. k : rw[i] \in Value
    BY <1>1
  <2> QED BY <1>1, <2>1, SubSeqProperties
<1>3. \A j \in 1 .. k : sr[j] \in 1 .. Len(bf) /\ rw[j] = bf[sr[j]]
  <2>1. \A j \in 1 .. k : sr[j] <= Len(rw) /\ rw[j] = bf[sr[j]]
    BY DEF Compacted
  <2>2. \A j \in 1 .. k : sr[j] \in Nat \ {0}
    BY <1>1
  <2> QED BY <1>1, <2>1, <2>2
<1>4. /\ \A j, l \in 1 .. k : j < l => sr[j] < sr[l]
      /\ \A i \in 1 .. Len(rw) : bf[i] \notin match <=> \E j \in 1 .. k : sr[j] = i
  BY DEF Compacted
<1> DEFINE from == [j \in 1 .. k |-> sr[j]]
<1>5. from \in [1 .. k -> 1 .. Len(bf)] /\ \A j \in 1 .. k : from[j] = sr[j]
  BY <1>3
<1> HIDE DEF new, from
<1>6. /\ \A i, j \in 1 .. Len(new) : i < j => from[i] < from[j]
      /\ \A i \in 1 .. Len(new) : new[i] = bf[from[i]]
      /\ \A l \in 1 .. Len(bf) : bf[l] \notin match <=> \E i \in 1 .. Len(new) : from[i] = l
  BY <1>1, <1>2, <1>3, <1>4, <1>5
<1>7. Atomic!Remainder(new, bf, match)
  BY <1>2, <1>5, <1>6 DEF Atomic!Remainder
<1> QED BY <1>2, <1>7 DEF new

\* What a writer does to the rows between Lock and Unlock is its method's effect.
LEMMA EffectStep ==
  ASSUME TypeOK, MutexInv, CallInv, LoopInv, CompactionSound, EffectInv,
         NEW c \in Client, Invoke(c) \/ Step(c)
  PROVE  EffectInv'
<1>1. SUFFICES ASSUME NEW d \in Client, pc'[d] = "unlock"
      PROVE  Atomic!Effect(call'[d], before', rows', Number(count'[d]))
  BY DEF EffectInv
<1>2. CASE d # c
  <2>1. pc[d] = "unlock" /\ call'[d] = call[d] /\ count'[d] = count[d]
    BY <1>1, <1>2, StepLocal
  <2>2. rows' = rows /\ before' = before
    BY <1>2, <2>1, WriterFrame DEF Working
  <2>3. Atomic!Effect(call[d], before, rows, Number(count[d]))
    BY <2>1 DEF EffectInv
  <2> QED BY <2>1, <2>2, <2>3
<1>3. CASE d = c
  <2>1. pc \in [Client -> {"idle", "rlock", "read", "lock", "wait", "work", "unlock", "done"}]
    BY DEF TypeOK
  <2>2. InsertRow(c) \/ Truncate(c) \/ LoopEnd(c)
    BY <1>1, <1>3, <2>1
       DEF Step, Invoke, RLock, ScanRow, RUnlock, Announce, Acquire, UpdateRow, DeleteRow, Unlock
  <2>3. pc[c] = "work" /\ call' = call /\ before' = before /\ count' = count
    BY <2>2 DEF InsertRow, Truncate, LoopEnd
  <2>4. /\ rows \in Seq(Value) /\ before \in Seq(Value) /\ src \in Seq(Nat \ {0})
        /\ Len(rows) \in Nat /\ Len(rows) = Len(before)
        /\ at[c] \in Nat \ {0} /\ at[c] <= Len(rows) + 1
        /\ kept[c] \in Nat /\ count[c] \in Nat
        /\ \A i \in at[c] .. Len(rows) : rows[i] = before[i]
    BY <2>3, LoopFacts
  <2>5. CASE InsertRow(c)
    <3>1. call[c].kind = "insert" /\ rows' = Append(rows, call[c].row)
      BY <2>5 DEF InsertRow
    <3>2. at[c] = 1 /\ count[c] = 0
      BY <2>3, <3>1 DEF LoopInv
    <3>3. rows = before
      BY <2>4, <3>2, SeqEqual
    <3> QED BY <1>3, <2>3, <3>1, <3>2, <3>3 DEF Atomic!Effect, Number, Atomic!Number
  <2>6. CASE Truncate(c)
    <3>1. call[c].kind = "truncate" /\ rows' = <<>>
      BY <2>6 DEF Truncate
    <3>2. count[c] = 0
      BY <2>3, <3>1 DEF LoopInv
    <3> QED BY <1>3, <2>3, <3>1, <3>2 DEF Atomic!Effect, Number, Atomic!Number
  <2>7. CASE LoopEnd(c)
    <3>1. at[c] = Len(rows) + 1 /\ at[c] - 1 = Len(before)
      BY <2>4, <2>7 DEF LoopEnd
    <3>2. CASE call[c].kind = "update"
      <4>1. rows' = rows
        BY <2>7, <3>2 DEF LoopEnd
      <4>2. /\ \A i \in 1 .. Len(before) :
                 rows[i] = IF before[i] \in call[c].match
                           THEN call[c].to[before[i]] ELSE before[i]
            /\ count[c] = Cardinality({i \in 1 .. Len(before) : before[i] \in call[c].match})
        BY <2>3, <3>1, <3>2 DEF LoopInv
      <4>3. rows = Atomic!Updated(before, call[c].match, call[c].to)
        BY <2>4, <4>2 DEF Atomic!Updated
      <4>4. count[c] = Cardinality(Atomic!Matching(before, call[c].match))
        BY <4>2 DEF Atomic!Matching
      <4>5. rows' = Atomic!Updated(before, call[c].match, call[c].to)
        BY <4>1, <4>3
      <4>6. Number(count[c]) = Atomic!Number(Atomic!Cardinality(Atomic!Matching(before, call[c].match)))
        BY <4>4 DEF Number, Atomic!Number, Cardinality, Atomic!Cardinality
      <4>7. Atomic!Effect(call[c], before, rows', Number(count[c]))
        BY <3>2, <4>5, <4>6 DEF Atomic!Effect
      <4> QED BY <1>3, <2>3, <4>7
    <3>3. CASE call[c].kind = "delete"
      <4>1. rows' = SubSeq(rows, 1, kept[c])
        BY <2>7, <3>3 DEF LoopEnd
      <4>2. CompactedBefore(rows, before, src, call[c].match, at[c], kept[c])
        BY <2>3, <3>3 DEF CompactionSound, CompactedBefore
      <4>3. Compacted(rows, before, src, call[c].match, at[c] - 1, kept[c])
        BY <2>4, <4>2, CompactedAt
      <4>4. Compacted(rows, before, src, call[c].match, Len(rows), kept[c])
        BY <2>4, <3>1, <4>3
      <4>5. Len(rows') = kept[c] /\ Atomic!Remainder(rows', before, call[c].match)
        BY <2>4, <4>1, <4>4, RemainderKept
      <4>6. count[c] = at[c] - 1 - kept[c]
        BY <2>3, <3>3 DEF LoopInv
      <4>7. count[c] = Len(before) - Len(rows')
        BY <2>4, <3>1, <4>5, <4>6
      <4> QED BY <1>3, <2>3, <3>3, <4>5, <4>7 DEF Atomic!Effect, Number, Atomic!Number
    <3> QED BY <2>7, <3>2, <3>3 DEF LoopEnd, Loops
  <2> QED BY <2>2, <2>5, <2>6, <2>7
<1> QED BY <1>2, <1>3

-----------------------------------------------------------------------------
LEMMA InvStep == HInv /\ [Next]_vars => HInv'
<1> SUFFICES ASSUME HInv, [Next]_vars PROVE HInv'
  OBVIOUS
<1>1. TypeOK /\ HeapInv
  BY DEF HInv
<1>2. CASE UNCHANGED vars
  <2>1. /\ rows' = rows /\ mu' = mu /\ pc' = pc /\ call' = call /\ at' = at /\ kept' = kept
        /\ count' = count /\ out' = out /\ answer' = answer /\ before' = before /\ src' = src
    BY <1>2 DEF vars
  <2>2. TypeOK'
    BY <1>1, <2>1 DEF TypeOK
  <2>3. MutexInv' /\ CallInv'
    BY <1>1, <2>1 DEF HeapInv, MutexInv, CallInv, Working
  <2>4. FreshInv' /\ ScanInv'
    BY <1>1, <2>1 DEF HeapInv, FreshInv, ScanInv, Working
  <2>5. LoopInv'
    BY <1>1, <2>1 DEF HeapInv, LoopInv
  <2>6. CompactionSound'
    BY <1>1, <2>1 DEF HeapInv, CompactionSound
  <2>7. EffectInv'
    BY <1>1, <2>1 DEF HeapInv, EffectInv
  <2> QED BY <2>2, <2>3, <2>4, <2>5, <2>6, <2>7 DEF HInv, HeapInv
<1>3. CASE Next
  <2>1. PICK c \in Client : Invoke(c) \/ Step(c)
    BY <1>3 DEF Next
  <2>2. /\ TypeOK /\ MutexInv /\ CallInv /\ FreshInv /\ ScanInv /\ LoopInv
        /\ CompactionSound /\ EffectInv
    BY <1>1 DEF HeapInv
  <2>3. TypeOK'
    BY <2>1, <2>2, TypeStep
  <2>4. MutexInv' /\ CallInv' /\ FreshInv' /\ ScanInv'
    BY <2>1, <2>2, MutexStep, CallStep, FreshStep, ScanStep
  <2>5. LoopInv' /\ CompactionSound'
    BY <2>1, <2>2, <2>3, LoopStep, CompactionStep
  <2>6. EffectInv'
    BY <2>1, <2>2, EffectStep
  <2> QED BY <2>3, <2>4, <2>5, <2>6 DEF HInv, HeapInv
<1> QED BY <1>2, <1>3 DEF Next

\* For every set of clients, rows and calls: the mutex, the loops and what the
\* methods have done to the rows so far are consistent in every state.
THEOREM HeapConsistent == Spec => [](TypeOK /\ HeapInv)
<1>1. Spec => []HInv
  BY InitInv, InvStep, PTL DEF Spec
<1>2. HInv => TypeOK /\ HeapInv
  BY DEF HInv
<1> QED BY <1>1, <1>2, PTL

\* DeleteWhere may compact the very slice it ranges over.
THEOREM CompactionIsSound == Spec => []CompactionSound
<1>1. TypeOK /\ HeapInv => CompactionSound
  BY DEF HeapInv
<1> QED BY <1>1, HeapConsistent, PTL

-----------------------------------------------------------------------------
(* The refinement: the rows are those of the last Unlock, and a call is     *)
(* pending until it has returned.                                           *)

RowsBar  == IF \E c \in Client : Working(c) THEN before ELSE rows
PhaseBar == [c \in Client |-> Phase(c)]

LEMMA PhaseStep ==
  ASSUME TypeOK, NEW c \in Client, Invoke(c) \/ Step(c)
  PROVE  PhaseBar' = [PhaseBar EXCEPT ![c] = Phase(c)']
BY StepLocal DEF PhaseBar, Phase

\* A step that stays pending, keeps the rows of the table and answers nothing.
LEMMA StutterStep ==
  ASSUME TypeOK, NEW c \in Client, Step(c), Phase(c)' = Phase(c), RowsBar' = RowsBar,
         call' = call, answer' = answer
  PROVE  UNCHANGED Atomic!vars
<1>1. PhaseBar \in [Client -> {"idle", "done", "pending"}] /\ PhaseBar[c] = Phase(c)
  BY DEF PhaseBar, Phase
<1>2. PhaseBar' = PhaseBar
  BY <1>1, PhaseStep
<1> QED BY <1>2 DEF Atomic!vars, RowsBar, PhaseBar

\* A step in which the call of c returns.
LEMMA PerformStep ==
  ASSUME TypeOK, NEW c \in Client, Step(c), Phase(c) = "pending", Phase(c)' = "done",
         call' = call, NEW r, answer' = [answer EXCEPT ![c] = r],
         Atomic!Effect(call[c], RowsBar, RowsBar', r)
  PROVE  Atomic!Perform(c)
<1>1. answer'[c] = r /\ answer' = [answer EXCEPT ![c] = answer'[c]]
  BY DEF TypeOK
<1>2. PhaseBar' = [PhaseBar EXCEPT ![c] = "done"] /\ PhaseBar[c] = "pending"
  BY PhaseStep DEF PhaseBar
<1>3. Atomic!Effect(call[c], RowsBar, RowsBar', answer'[c])
  BY <1>1
<1> QED BY <1>1, <1>2, <1>3 DEF Atomic!Perform, RowsBar, PhaseBar

LEMMA RefinesInit == Init => Atomic!Init
<1> SUFFICES ASSUME Init PROVE Atomic!Init
  OBVIOUS
<1>1. RowsBar = rows /\ PhaseBar = [c \in Client |-> "idle"]
  BY DEF Init, RowsBar, PhaseBar, Working, Phase
<1>2. /\ RowsBar \in InitialRows /\ call = [c \in Client |-> NoCall]
      /\ answer = [c \in Client |-> Atomic!Number(0)]
  BY <1>1 DEF Init, Number, Atomic!Number
<1> QED BY <1>1, <1>2 DEF Atomic!Init, RowsBar, PhaseBar

LEMMA RefinesStep ==
  ASSUME HInv, NEW c \in Client, Invoke(c) \/ Step(c)
  PROVE  [Atomic!Next]_Atomic!vars
<1>1. /\ TypeOK /\ MutexInv /\ CallInv /\ ScanInv /\ EffectInv
      /\ pc \in [Client -> {"idle", "rlock", "read", "lock", "wait", "work", "unlock", "done"}]
  BY DEF HInv, HeapInv, TypeOK
<1>2. \A d \in Client \ {c} : Working(d)' <=> Working(d)
  BY <1>1, StepLocal DEF Working
<1>3. CASE Invoke(c)
  <2>1. /\ Phase(c) = "idle" /\ Phase(c)' = "pending"
        /\ ~Working(c) /\ ~Working(c)' /\ rows' = rows /\ before' = before /\ answer' = answer
    BY <1>1, <1>3 DEF Invoke, Phase, Working
  <2>2. RowsBar' = RowsBar
    BY <1>2, <2>1 DEF RowsBar
  <2>3. PhaseBar[c] = "idle" /\ PhaseBar' = [PhaseBar EXCEPT ![c] = "pending"]
    BY <1>1, <1>3, <2>1, PhaseStep DEF PhaseBar
  <2>4. \E a \in Calls : call' = [call EXCEPT ![c] = a]
    BY <1>3 DEF Invoke
  <2>5. Atomic!Invoke(c)
    BY <2>1, <2>2, <2>3, <2>4 DEF Atomic!Invoke, RowsBar, PhaseBar
  <2> QED BY <2>5 DEF Atomic!Next
<1>4. CASE RLock(c) \/ ScanRow(c) \/ Announce(c)
  <2>1. /\ Phase(c) = "pending" /\ Phase(c)' = "pending"
        /\ ~Working(c) /\ ~Working(c)' /\ rows' = rows /\ before' = before
        /\ call' = call /\ answer' = answer
    BY <1>1, <1>4 DEF RLock, ScanRow, Announce, Phase, Working
  <2>2. RowsBar' = RowsBar
    BY <1>2, <2>1 DEF RowsBar
  <2> QED BY <1>1, <1>4, <2>1, <2>2, StutterStep DEF Step
<1>5. CASE Acquire(c)
  <2>1. /\ Phase(c) = "pending" /\ Phase(c)' = "pending" /\ Working(c)'
        /\ before' = rows /\ call' = call /\ answer' = answer /\ pc[c] = "wait"
    BY <1>1, <1>5 DEF Acquire, Phase, Working
  <2>2. ~ \E d \in Client : Working(d)
    BY <1>1, <1>5, <2>1 DEF Acquire, M!CanLock, MutexInv, Working
  <2>3. RowsBar' = RowsBar
    BY <2>1, <2>2 DEF RowsBar
  <2> QED BY <1>1, <1>5, <2>1, <2>3, StutterStep DEF Step
<1>6. CASE InsertRow(c) \/ Truncate(c) \/ UpdateRow(c) \/ DeleteRow(c) \/ LoopEnd(c)
  <2>1. /\ Phase(c) = "pending" /\ Phase(c)' = "pending" /\ Working(c) /\ Working(c)'
        /\ before' = before /\ call' = call /\ answer' = answer
    BY <1>1, <1>6 DEF InsertRow, Truncate, UpdateRow, DeleteRow, LoopEnd, Phase, Working
  <2>2. RowsBar' = RowsBar
    BY <2>1 DEF RowsBar
  <2> QED BY <1>1, <1>6, <2>1, <2>2, StutterStep DEF Step
<1>7. CASE RUnlock(c)
  <2>1. /\ Phase(c) = "pending" /\ Phase(c)' = "done" /\ ~Working(c)'
        /\ rows' = rows /\ call' = call /\ M!Reading(mu, c)
    BY <1>1, <1>7 DEF RUnlock, Phase, Working
  <2>2. ~ \E d \in Client : Working(d)
    BY <1>1, <2>1 DEF M!Reading, MutexInv
  <2>3. RowsBar = rows /\ RowsBar' = rows
    BY <1>2, <2>1, <2>2 DEF RowsBar
  <2>4. CASE call[c].kind = "scan"
    <3>1. /\ rows \in Seq(Value) /\ out[c] \in Seq(Value) /\ at[c] \in Nat \ {0}
          /\ Len(rows) \in Nat
      BY <1>1 DEF TypeOK
    <3>2. at[c] = Len(rows) + 1
      BY <1>1, <1>7, <2>1, <2>4, <3>1 DEF RUnlock, ScanInv
    <3>3. Len(out[c]) = Len(rows) /\ \A i \in 1 .. Len(rows) : out[c][i] = rows[i]
      BY <1>1, <2>1, <3>1, <3>2 DEF ScanInv
    <3>4. out[c] = rows
      BY <3>1, <3>3, SeqEqual
    <3>5. answer' = [answer EXCEPT ![c] = Found(rows)]
      BY <1>7, <2>4, <3>4 DEF RUnlock
    <3>6. Atomic!Effect(call[c], RowsBar, RowsBar', Found(rows))
      BY <2>3, <2>4 DEF Atomic!Effect, Found, Atomic!Found
    <3>7. Atomic!Perform(c)
      BY <1>1, <1>7, <2>1, <3>5, <3>6, PerformStep DEF Step
    <3> QED BY <3>7 DEF Atomic!Next
  <2>5. CASE call[c].kind = "count"
    <3>1. answer' = [answer EXCEPT ![c] = Number(Len(rows))]
      BY <1>7, <2>5 DEF RUnlock, RowCount
    <3>2. Atomic!Effect(call[c], RowsBar, RowsBar', Number(Len(rows)))
      BY <2>3, <2>5 DEF Atomic!Effect, Number, Atomic!Number
    <3>3. Atomic!Perform(c)
      BY <1>1, <1>7, <2>1, <3>1, <3>2, PerformStep DEF Step
    <3> QED BY <3>3 DEF Atomic!Next
  <2> QED BY <1>7, <2>4, <2>5 DEF RUnlock
<1>8. CASE Unlock(c)
  <2>1. /\ Phase(c) = "pending" /\ Phase(c)' = "done" /\ Working(c) /\ ~Working(c)'
        /\ rows' = rows /\ call' = call /\ pc[c] = "unlock"
        /\ answer' = [answer EXCEPT ![c] = Number(count[c])]
    BY <1>1, <1>8 DEF Unlock, Phase, Working
  <2>2. ~ \E d \in Client : Working(d)'
    BY <1>1, <1>2, <2>1, WriterAlone
  <2>3. RowsBar = before /\ RowsBar' = rows
    BY <2>1, <2>2 DEF RowsBar
  <2>4. Atomic!Effect(call[c], RowsBar, RowsBar', Number(count[c]))
    BY <1>1, <2>1, <2>3 DEF EffectInv
  <2>5. Atomic!Perform(c)
    BY <1>1, <1>8, <2>1, <2>4, PerformStep DEF Step
  <2> QED BY <2>5 DEF Atomic!Next
<1> QED BY <1>3, <1>4, <1>5, <1>6, <1>7, <1>8 DEF Step

\* HeapTable implements AtomicTable: whatever its goroutines do meanwhile, a
\* method takes effect at one instant between its call and its return.
THEOREM HeapIsAtomic == Spec => MethodsAreAtomic
<1>1. HInv /\ [Next]_vars => [Atomic!Next]_Atomic!vars
  <2> SUFFICES ASSUME HInv, [Next]_vars PROVE [Atomic!Next]_Atomic!vars
    OBVIOUS
  <2>1. CASE UNCHANGED vars
    BY <2>1 DEF vars, Atomic!vars, Working, Phase
  <2>2. CASE Next
    BY <2>2, RefinesStep DEF Next
  <2> QED BY <2>1, <2>2
<1>2. Spec => []HInv
  BY InitInv, InvStep, PTL DEF Spec
<1> QED BY <1>1, <1>2, RefinesInit, PTL DEF Spec, MethodsAreAtomic, Atomic!Spec

=============================================================================
