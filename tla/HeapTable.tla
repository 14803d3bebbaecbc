----------------------------- MODULE HeapTable -----------------------------
(***************************************************************************)
(* internal/storage/heap.go: a slice of rows under a sync.RWMutex.  The    *)
(* methods are taken apart to the single row, because UpdateWhere and      *)
(* DeleteWhere change the slice in place while other goroutines are on     *)
(* their way in, and DeleteWhere compacts the very slice it ranges over.   *)
(***************************************************************************)
EXTENDS TableCalls

CONSTANT NoOne

ASSUME NoOneAssumption == NoOne \notin Client

VARIABLES rows,    \* HeapTable.rows; DeleteWhere's kept is its prefix
          mu,      \* HeapTable.mu
          pc, call,
          at,      \* the row a loop looks at next
          kept,    \* len(kept) in DeleteWhere
          count,   \* count in UpdateWhere and DeleteWhere
          out,     \* result in Scan
          answer,
          before,  \* the rows when the write lock was last acquired (history)
          src      \* the places in before of the rows kept (history)

vars == <<rows, mu, pc, call, at, kept, count, out, answer, before, src>>

M == INSTANCE RWMutex WITH Goroutine <- Client

Reads(a)  == a.kind \in {"scan", "count"}
Loops(a)  == a.kind \in {"update", "delete"}
Goto(c, label) == pc' = [pc EXCEPT ![c] = label]

Init ==
  /\ rows \in InitialRows
  /\ mu = M!Free
  /\ pc = [c \in Client |-> "idle"]
  /\ call = [c \in Client |-> NoCall]
  /\ at = [c \in Client |-> 1]
  /\ kept = [c \in Client |-> 0]
  /\ count = [c \in Client |-> 0]
  /\ out = [c \in Client |-> <<>>]
  /\ answer = [c \in Client |-> Number(0)]
  /\ before = <<>>
  /\ src = <<>>

Invoke(c) ==
  /\ pc[c] = "idle"
  /\ \E a \in Calls :
       /\ call' = [call EXCEPT ![c] = a]
       /\ Goto(c, IF Reads(a) THEN "rlock" ELSE "lock")
  /\ UNCHANGED <<rows, mu, at, kept, count, out, answer, before, src>>

-----------------------------------------------------------------------------
(* Scan and RowCount *)

RLock(c) ==
  /\ pc[c] = "rlock"
  /\ mu' = M!RLocked(mu, c)
  /\ Goto(c, "read")
  /\ UNCHANGED <<rows, call, at, kept, count, out, answer, before, src>>

\* result[i] = row.Clone()
ScanRow(c) ==
  /\ pc[c] = "read" /\ M!Reading(mu, c)
  /\ call[c].kind = "scan"
  /\ at[c] <= Len(rows)
  /\ out' = [out EXCEPT ![c] = Append(@, rows[at[c]])]
  /\ at' = [at EXCEPT ![c] = @ + 1]
  /\ UNCHANGED <<rows, mu, pc, call, kept, count, answer, before, src>>

RowCount == Len(rows)

RUnlock(c) ==
  /\ pc[c] = "read" /\ M!Reading(mu, c)
  /\ \/ /\ call[c].kind = "scan"
        /\ at[c] > Len(rows)
        /\ answer' = [answer EXCEPT ![c] = Found(out[c])]
     \/ /\ call[c].kind = "count"
        /\ answer' = [answer EXCEPT ![c] = Number(RowCount)]
  /\ mu' = M!RUnlocked(mu, c)
  /\ Goto(c, "done")
  /\ UNCHANGED <<rows, call, at, kept, count, out, before, src>>

-----------------------------------------------------------------------------
(* Insert, Truncate, UpdateWhere, DeleteWhere *)

Announce(c) ==
  /\ pc[c] = "lock"
  /\ M!CanAnnounce(mu)
  /\ mu' = M!Announced(mu, c)
  /\ Goto(c, "wait")
  /\ UNCHANGED <<rows, call, at, kept, count, out, answer, before, src>>

Acquire(c) ==
  /\ pc[c] = "wait"
  /\ M!CanLock(mu, c)
  /\ mu' = M!Locked(mu)
  /\ Goto(c, "work")
  /\ before' = rows
  /\ src' = <<>>
  /\ UNCHANGED <<rows, call, at, kept, count, out, answer>>

\* Mutant: Insert returns without Unlock.
InsertRowLocked(c) ==
  /\ pc[c] = "work"
  /\ call[c].kind = "insert"
  /\ rows' = Append(rows, call[c].row)
  /\ Goto(c, "done")
  /\ UNCHANGED <<mu, call, at, kept, count, out, answer, before, src>>

InsertRow(c) ==
  /\ pc[c] = "work"
  /\ call[c].kind = "insert"
  /\ rows' = Append(rows, call[c].row)
  /\ Goto(c, "unlock")
  /\ UNCHANGED <<mu, call, at, kept, count, out, answer, before, src>>

Truncate(c) ==
  /\ pc[c] = "work"
  /\ call[c].kind = "truncate"
  /\ rows' = <<>>
  /\ Goto(c, "unlock")
  /\ UNCHANGED <<mu, call, at, kept, count, out, answer, before, src>>

UpdateRow(c) ==
  /\ pc[c] = "work"
  /\ call[c].kind = "update"
  /\ at[c] <= Len(rows)
  /\ LET row == rows[at[c]]
     IN  IF row \in call[c].match
         THEN /\ rows' = [rows EXCEPT ![at[c]] = call[c].to[row]]
              /\ count' = [count EXCEPT ![c] = @ + 1]
         ELSE UNCHANGED <<rows, count>>
  /\ at' = [at EXCEPT ![c] = @ + 1]
  /\ UNCHANGED <<mu, pc, call, kept, out, answer, before, src>>

\* Mutant: the row is written one slot too far.
DeleteRowOff(c) ==
  /\ pc[c] = "work"
  /\ call[c].kind = "delete"
  /\ at[c] <= Len(rows)
  /\ IF rows[at[c]] \in call[c].match
     THEN count' = [count EXCEPT ![c] = @ + 1] /\ UNCHANGED <<rows, kept, src>>
     ELSE /\ rows' = IF kept[c] + 2 <= Len(rows)
                     THEN [rows EXCEPT ![kept[c] + 2] = rows[at[c]]] ELSE rows
          /\ kept' = [kept EXCEPT ![c] = @ + 1]
          /\ src' = Append(src, at[c])
          /\ count' = count
  /\ at' = [at EXCEPT ![c] = @ + 1]
  /\ UNCHANGED <<mu, pc, call, out, answer, before>>

\* kept = append(kept, row): the slice shares its array with h.rows.
DeleteRow(c) ==
  /\ pc[c] = "work"
  /\ call[c].kind = "delete"
  /\ at[c] <= Len(rows)
  /\ IF rows[at[c]] \in call[c].match
     THEN /\ count' = [count EXCEPT ![c] = @ + 1]
          /\ UNCHANGED <<rows, kept, src>>
     ELSE /\ rows' = [rows EXCEPT ![kept[c] + 1] = rows[at[c]]]
          /\ kept' = [kept EXCEPT ![c] = @ + 1]
          /\ src' = Append(src, at[c])
          /\ count' = count
  /\ at' = [at EXCEPT ![c] = @ + 1]
  /\ UNCHANGED <<mu, pc, call, out, answer, before>>

\* Mutant: DeleteWhere forgets h.rows = kept.
LoopEndForgetful(c) ==
  /\ pc[c] = "work"
  /\ Loops(call[c])
  /\ at[c] > Len(rows)
  /\ Goto(c, "unlock")
  /\ UNCHANGED <<rows, mu, call, at, kept, count, out, answer, before, src>>

\* The loop is over; h.rows = kept in DeleteWhere.
LoopEnd(c) ==
  /\ pc[c] = "work"
  /\ Loops(call[c])
  /\ at[c] > Len(rows)
  /\ rows' = IF call[c].kind = "delete" THEN SubSeq(rows, 1, kept[c]) ELSE rows
  /\ Goto(c, "unlock")
  /\ UNCHANGED <<mu, call, at, kept, count, out, answer, before, src>>

Unlock(c) ==
  /\ pc[c] = "unlock"
  /\ mu' = M!Unlocked(mu)
  /\ answer' = [answer EXCEPT ![c] = Number(count[c])]
  /\ Goto(c, "done")
  /\ UNCHANGED <<rows, call, at, kept, count, out, before, src>>

-----------------------------------------------------------------------------
Step(c) ==
  \/ RLock(c) \/ ScanRow(c) \/ RUnlock(c)
  \/ Announce(c) \/ Acquire(c) \/ InsertRow(c) \/ Truncate(c)
  \/ UpdateRow(c) \/ DeleteRow(c) \/ LoopEnd(c) \/ Unlock(c)

Next == \E c \in Client : Invoke(c) \/ Step(c)

Spec == Init /\ [][Next]_vars

\* A goroutine that can run does.
FairSpec == Spec /\ \A c \in Client : WF_vars(Step(c))

-----------------------------------------------------------------------------
(* Properties *)

Working(c) == pc[c] \in {"work", "unlock"}
Phase(c)   == IF pc[c] \in {"idle", "done"} THEN pc[c] ELSE "pending"

Atomic == INSTANCE AtomicTable
            WITH rows <- IF \E c \in Client : Working(c) THEN before ELSE rows,
                 phase <- [c \in Client |-> Phase(c)]

TypeOK ==
  /\ rows \in Seq(Value)
  /\ mu \in M!Mutex
  /\ pc \in [Client -> {"idle", "rlock", "read", "lock", "wait", "work", "unlock", "done"}]
  /\ call \in [Client -> Calls \union {NoCall}]
  /\ at \in [Client -> Nat \ {0}]
  /\ kept \in [Client -> Nat]
  /\ count \in [Client -> Nat]
  /\ out \in [Client -> Seq(Value)]
  /\ answer \in [Client -> [n : Nat, rows : Seq(Value)]]
  /\ before \in Seq(Value)
  /\ src \in Seq(Nat \ {0})

\* The comment in heap.go: a Scan is "safe for concurrent iteration and
\* mutation".  Each method, whatever the others do meanwhile, takes effect at
\* one instant, and a Scan returns the rows of one instant.
MethodsAreAtomic == Atomic!Spec

\* While DeleteWhere compacts the slice it ranges over, the part it has not
\* reached is as it was, and the part it has written is what survives of the
\* part it has visited, in its order.
CompactionSound ==
  \A c \in Client :
    pc[c] = "work" /\ call[c].kind = "delete" =>
      /\ Len(rows) = Len(before) /\ Len(src) = kept[c]
      /\ kept[c] < at[c]
      /\ \A i \in at[c] .. Len(rows) : rows[i] = before[i]
      /\ \A k \in 1 .. kept[c] : src[k] < at[c] /\ rows[k] = before[src[k]]
      /\ \A j, k \in 1 .. kept[c] : j < k => src[j] < src[k]
      /\ \A i \in 1 .. at[c] - 1 :
           before[i] \notin call[c].match <=> \E k \in 1 .. kept[c] : src[k] = i

\* Every call returns: no reader or writer is left waiting on the mutex.
CallsReturn == \A c \in Client : pc[c] # "idle" ~> pc[c] = "done"

-----------------------------------------------------------------------------
(* The strengthening behind MethodsAreAtomic                                 *)

\* The mutex knows exactly who is inside.
MutexInv ==
  /\ \A c \in Client :
       /\ mu.writer = c <=> pc[c] \in {"wait", "work", "unlock"}
       /\ Working(c) <=> mu.writer = c /\ mu.locked
       /\ c \in mu.readers \union mu.queued <=> pc[c] = "read"
  /\ mu.readers \intersect mu.queued = {}
  /\ mu.queued # {} => mu.writer # NoOne
  /\ mu.locked => mu.writer # NoOne /\ mu.readers = {}

CallInv ==
  \A c \in Client :
    /\ pc[c] # "idle" => call[c] \in Calls
    /\ pc[c] \in {"rlock", "read"} => Reads(call[c])
    /\ pc[c] \in {"lock", "wait", "work", "unlock"} => ~Reads(call[c])

\* Until a call has its lock, its loop variables are as at its start.
FreshInv ==
  \A c \in Client :
    ~Working(c) /\ pc[c] # "done" /\ ~M!Reading(mu, c) =>
      at[c] = 1 /\ kept[c] = 0 /\ count[c] = 0 /\ out[c] = <<>>

\* What a Scan has copied so far is a prefix of the rows.
ScanInv ==
  \A c \in Client :
    M!Reading(mu, c) =>
      /\ at[c] <= Len(rows) + 1
      /\ Len(out[c]) = at[c] - 1
      /\ \A i \in 1 .. at[c] - 1 : out[c][i] = rows[i]

\* The rows from the place of the loop on are as they were; those before it
\* are updated, and count says how many were.
LoopInv ==
  \A c \in Client :
    pc[c] = "work" =>
      /\ Len(rows) = Len(before)
      /\ at[c] <= Len(rows) + 1
      /\ \A i \in at[c] .. Len(rows) : rows[i] = before[i]
      /\ call[c].kind \notin {"update", "delete"} => at[c] = 1 /\ count[c] = 0
      /\ call[c].kind = "update" =>
           /\ \A i \in 1 .. at[c] - 1 :
                rows[i] = IF before[i] \in call[c].match
                          THEN call[c].to[before[i]] ELSE before[i]
           /\ count[c] = Cardinality({i \in 1 .. at[c] - 1 : before[i] \in call[c].match})
      /\ call[c].kind = "delete" => count[c] = at[c] - 1 - kept[c]

\* When a writer unlocks, what it has done to the table is its call's effect.
EffectInv ==
  \A c \in Client :
    pc[c] = "unlock" => Atomic!Effect(call[c], before, rows, Number(count[c]))

HeapInv ==
  /\ MutexInv
  /\ CallInv
  /\ FreshInv
  /\ ScanInv
  /\ LoopInv
  /\ CompactionSound
  /\ EffectInv

=============================================================================
